# TLA+ models of FreeDPI for Windows

FreeDPI captures the packets of the local machine with WinDivert, decides for each
of them whether it is sent as it is, rewritten, preceded by decoys, redirected to a
local proxy or dropped, and learns from what happens to the connections. These
modules model the stateful, concurrent parts of that engine: what the packets, the
tables and the control loops may do when threads, tasks, timers, clients and the
network interleave. What a packet contains is data; what a component does with its
state is kept step by step.

All paths below are relative to the repository; `core/` stands for `src/core/src/`.

## 1. The system

### 1.1 Threads and tasks

| Who | Started in | What it does |
|---|---|---|
| `fp-capture` thread | `core/engine/mod.rs` | receives batches from WinDivert, hashes each packet to a shard queue |
| 2..16 shard workers | `core/engine/mod.rs` | decide on packets, flush what is to be sent |
| `DelayedInject` thread | `core/engine/delayed_inject.rs` | sends paced segments when they are due |
| capture governor (1 s) | `core/engine/mod.rs` | watches load, replaces the capture filter |
| `fp-seq-evict` (5 s) | `core/engine/mod.rs` | ages per-flow sequence state |
| redirect sweep (30 s) | `core/engine/mod.rs` | removes old entries of the redirect table |
| `SocksRedirector` | `core/proxy/redirector.rs` | accepts redirected connections, dials, bridges |
| DNS bridge, AWG writer | `core/engine/dns_async.rs`, `core/proxy/` | asynchronous side of the packet path |
| detector, zero-config | `core/detector/`, `core/proxy/zero_config.rs` | bring a tunnel up and down |
| `gc_loop` (1 s) | `service/src/main.rs` | evicts idle connections |
| watcher of the domains file (30 s), auto probe | `service/src/main.rs` | reload the user's list; probe three candidates after the start |
| REST API | `src/api/` | control calls from the UI |
| service manager or console | `service/src/main.rs` | starts everything, broadcasts the stop |

### 1.2 Components

| Component | State | Operations | Interaction | What is hard | Correct when |
|---|---|---|---|---|---|
| Connection table (`core/conntrack.rs`) | map, timing wheel, counter | upsert, desync check, sequence update, remove, gc | all workers, gc task | per-entry locks only; check-then-remove; an unsigned counter | no entry becomes unreachable, counter agrees |
| Packet pipeline (`core/engine/mod.rs`) | queues, tx batches, delay heap, stop flag | receive, dispatch, process, flush, stop | driver, shards, delay thread | overflow, malformed copies, shutdown | each packet settles once, flows stay in order |
| Packet engine, governor (`core/packet_engine.rs`, `core/capture_budget.rs`) | handle behind ArcSwap, mode, dwell | receive, send, update_filter | capture thread reads while the governor swaps | handle lifetime, failed rotation | no blind window, filter is the mode's |
| Adaptive router (`core/routing/adaptive_router.rs`) | breaker state, RST window, block verdicts | decide, record_rst, record_success | called by every worker | unlocked atomics | opens and half-opens on time |
| Fallback chain (`core/adaptive/fallback.rs`) | ring position, counters, error window, backoff | record_success, record_failure, advance | outcomes of all connections | late outcomes, bursts | switches are earned |
| Redirect (`core/desync/redirect_table.rs`, `core/proxy/redirector.rs`, `core/proxy/types.rs`) | port -> target table, sessions, proxy pool | insert, get, remove, sweep, dial, mark_result | workers, sessions, sweeper | port reuse, late cleanup, dead proxies | a client reaches its own target, nothing is left behind |
| Fake IP (`core/dns/fakeip.rs`) | two maps, recency, next address | allocate, get_domain | DNS bridge, workers, DNS caches | eviction against lookups | no shared address, the right host |
| Zero config (`core/proxy/zero_config.rs`, `core/detector/`) | verdict, request flag, tunnel, state | initialize, activate, withdraw, detection pass | tasks race with the detector | long activations | a standing request is served, a withdrawn one is down |
| DNS proxy and bridge (`core/dns/`, `core/engine/dns_async.rs`) | queue of queries, cache of answers | take, resolve, answer | workers, fake IP, the engine's own queries | one task that waits for queries queued behind it | every query is worked on, modes stay apart |
| Transaction tracker (`core/dns/txid_tracker.rs`) | pending and answered ids | add, answer, clean | workers | duplicates, stale cleaning | one answer per query, bounded size |
| Target escalation, auto tuning (`core/adaptive/`) | resets per target, metrics and overrides per profile | record, recommend, override | workers, API | copy-on-write without compare, chain and profile stored apart | no update lost, escalation earned |
| Strategy registry, profiles (`core/engine/`, `core/adaptive/`) | registry, active profile per category | apply, recommend | workers read while the API writes | two stores for one profile | the active profile is the chain's |
| TLS reassembly (`core/tls_reassembly.rs`) | buffered ClientHello pieces | observe, gc | workers | observe is two steps; capacity | bytes complete and in order |
| Dispatch (`core/engine/mod.rs`), geo routing (`core/routing/`) | cached regions, the user's list; memories of a flow | dispatch, decide, reload | workers, watcher, API, probe | each packet is decided on anew | a flow keeps its way, a hello is desynced once |
| Split tunnel, proxy clients, AWG tunnel (`core/proxy/`) | NAT table, tunnel state | send, receive loop | AWG writer | keys by port only | answers reach their client |
| Desync techniques (`core/desync/`) | pipeline state of a packet | a group's techniques in turn | profiles, pipeline | composition, decoys, loss | the server gets the client's stream |
| TLS generation, classifier | none between packets | byte rewriting | pipeline | offsets, lengths | well-formed output |
| Probe (`core/probe/`) | the report of the phases | probe, decide, recommend | network, list of domains, pipeline | phases meet a network that changes | what is censored is found |
| Service, API, configuration files (`src/service/`, `src/api/`, `core/config.rs`) | stop channel, `config.toml`, domains file | start, stop, save, reload | everything | stop before subscription, files without locks | a stop ends it, edits are read, settings kept |
| Infrastructure, UI, installer, test lab, fuzzing | little of their own | I/O, presentation | everything | operating system | – |

`PROJECT.json` lists every component with its status, and under `hazards` each place
where this code can go wrong in a way a unit test would hardly reach.

### 1.3 Facts about the code worth knowing

Found while reading and modelling; the models follow the code, not the documents.

* The governor's `decide` returns only Strict or Balanced, so SafeFallback is never
  entered that way, and `build_filter` gives the same filter for both of the others.
  A rotation whose new handle does not open is logged and not tried again.
* The filter built from the configuration captures SYNs when a redirect is
  configured; the filters of the governor never do (`SynIntercepted`).
* Documents speak of fake addresses in 240.0.0.0/8 (`ARCHITECTURE.md:4062`); the code
  allocates from 10.0.0.0/8.
* The pipeline creates a connection table of its own; the collector runs on another
  one (`ct_unattached`).
* `active_count` is unsigned and several threads subtract from it: it wraps to a huge number
  when a removal is counted before the insertion, or an eviction twice (`CountNeverWraps`).
* `SocksRedirector` may bind any port of 17650..17659, while the engine rewrites to
  17650 always.
* The `DelayedInject` channel has 10000 places when the service builds it.
* `observe_connection_outcome` looks its connection up under the packet's own direction, so
  what the server answers finds no strategy; SYN-ACKs, its only successes, are answers.
* `SERVICE_STOPPED` is reported from the control handler, while the threads still capture
  (`StoppedMeansStopped`); the dispatcher then returns and the process ends.
* The sentinel only clears a flag that nobody reads (`SentinelStops`).
* The split tunnel keeps its lists the other way round from what its documentation says
  (`split_tunnel.rs:47` against `engine/mod.rs:1916`).
* A route is cached under a name only for fake addresses, whose TCP packets never reach a
  handler that would feed the breaker.
* A DNS query whose identifier has its highest bit set is taken for QUIC
  (`classifier.rs:252`). With `proxy_non_sni_blocked`, which is the default, it is then dropped or
  sent into the AWG tunnel and never reaches the DNS proxy (`dp_query`); for the same reason the
  QUIC handler never sees a flow of a blocked region.
* A TLS 1.3 server does not answer the probe's raw handshake before its timeout, which the
  regression reads as jitter: a site that passed every phase is called blocked
  (`PassedIsAmbiguous`).
* The recommendations of `strategy_map.rs` use identifiers the pipeline does not register
  (`pr_advice`).
* The API's `probe_domain` and `probe_batch` create a runtime inside a runtime, which
  panics (`service/src/main.rs:204`).
* Rewriting an IPv6 packet to the redirector always fails, and the packet goes on as it is.
* In the default configuration all entries of the fallback chain have one profile, so a
  switch changes nothing (`SwitchChangesProfile`).
* Techniques that edit header fields in place leave the IPv4 checksum as it was, or write
  over an IPv6 address; offloading repairs the former. Together with `UnidirFrag` or
  `TlsRecordFrag` they send the request twice (`dg_ipv4`).
* `EgressChain`, `HealthChecker`, `GeoBlockDetector`, `OperaVpnProvider`, `DomainTrie`,
  `StrategyRegistry`, `PersistenceManager`, `ProbeTuneRun`, `TxidTracker` and `PipeServer`
  have no caller in the program. Nothing marks a cached route as bad (`geo.rs:404`), outside of tests.
* The handshakes with SOCKS and HTTP proxies, and the calls of an activation of the Opera proxy, have
  no timeout: a server that accepts and never answers holds the session (`socks5_client.rs:88`,
  `SessionsAlwaysEnd`) and start-up (`surfeasy.rs:270`, `StartUpEnds`).
* The probe's HTTP phase takes a request without an answer for an ambiguous result, so a censor
  that works on the answer alone and makes it late is not found (`UnansweredIsListed`).
* The breaker reads the clock before it stores the opening, so the timeout of an opening counts
  from a moment before it (`HalfOpenAfterTimeout`).
* Most decoys have the client's TTL less `fake_ttl_offset`, which the default profiles
  set to 1; the hop table is asked only when no offset is given. Such a decoy reaches every
  server that is nearer than the client's whole TTL, which with usual TTLs is every server
  (`dg_decoy`).
* `TtlManipulation` sets the TTL of what was injected before it to a constant, 64 by
  default, and so gives a decoy the reach of the real packets (`dg_ipv4` with `RaisedTtl`).
* `BadChecksum` damages all that was injected before it. Several split techniques
  inject the real segments, too (`dg_ipv4` with `SafeToCombine`).
* `HttpCaseMix` and `TlsVersionSpoof` edit the payload and leave the TCP checksum, and
  `build_http_segment` sums the TCP header without the payload. The code never asks the
  driver to recompute a checksum; where offloading repairs it, the loss of `HttpProfile` in `dg_ipv4` does not arise.
* `TlsRecordPad`, `ContentLengthFuzz`, `HttpUpgradeAbuse` and `TsMd5` change how many
  bytes the request has, and nothing translates sequence numbers afterwards (`dg_offload`).
* The DNS task resolves through the same network stack: what its resolver and its HTTP
  client send to port 53 is captured and queued behind the query the task is working on,
  and the task leaves that wait by timeouts only (`NeverWaitsForItself`). A query that finds the queue
  full goes to the network as it is (`NoDnsLeak`).
* `censored_domains` is empty and the list of advertisements switched off in the
  configuration `init_pipeline` builds; names that are not geo-blocked are asked from the
  system's resolver first (`OthersOverHttps`).
* The way to DoH through the tunnel of zero-config has no timeout, and while it waits no
  other query is served (`ServedBehindTunnel`).
* A question of another type than A or AAAA is answered with an IPv4 address under its own
  type, and the cache of answers never drops an expired entry.
* The TLS path recognises a retransmission twice, by the connection table and by
  `injected_seqs`; the HTTP path does not.

## 2. The modules

The order is the order of the plan: the tables and the packet path first, then the
control loops that act on them, then the proxy side.

| Module | Models | Composes with |
|---|---|---|
| `Conntrack` | `core/conntrack.rs` and who calls it | – |
| `ConntrackProofs` | theorems about `Conntrack` | extends `Conntrack` |
| `Techniques`, `QuicTechniques` | `core/desync/tcp.rs`, `tls.rs`, `http.rs`, `ip.rs`; `quic.rs`, `obfs.rs`: each technique as a function | – |
| `DesyncGroup` | composition of desync techniques, from profile to the server | extends `QuicTechniques`, which extends `Techniques` |
| `PacketFate` | abstract promise of the packet path | – |
| `PacketPipeline` | threads and queues of `core/engine/mod.rs` | implements `PacketFate` by an `INSTANCE` with a refinement mapping |
| `Dispatch` | `process_one_sync_dispatch`: the way of each packet of a flow | – |
| `FilterRotation` | governor, `update_filter`, `recv_batch_into` | – |
| `CircuitBreaker` | breaker of `adaptive_router.rs` | – |
| `FallbackChain` | `adaptive/fallback.rs`, fed by the pipeline | – |
| `Adaptation` | profiles, `AutoTune`, `TargetEscalation`, `apply_strategy_tune` | extends `FallbackChain` with the workers and the API that act on it |
| `RedirectSession` | redirect table + redirector + pool + sweeper, with the clients | – |
| `PacketPipelineProofs`, `DispatchProofs`, `DesyncGroupProofs` | theorems about the modules they are named for | extend them |
| `ProxyProofs` | theorems about `RedirectSession` and `ZeroConfig`, the proxy side | extends both |
| `AdaptiveProofs` | theorems about `FallbackChain`, `Adaptation` and `CircuitBreaker`, the parts of `core/adaptive` | extends `Adaptation` and `CircuitBreaker` |
| `ServiceProofs` | theorems about `Service` and its parts `FilterRotation`, `Probe` and `Settings` | extends `Service` |
| `DnsBridgeProofs` | theorems about `DnsBridge` and its part `FakeIp` | extends `DnsBridge` |
| `FakeIp` | `dns/fakeip.rs` with lookups, redirects, DNS caches | – |
| `DnsBridge` | DNS queue and task, both resolvers, the cache of answers | extends `FakeIp`, whose `allocate` is a part of the task |
| `ZeroConfig` | zero-config engine + whitelist detector | – |
| `Probe` | `core/probe/`: phases, classification, recommendations | – |
| `Settings` | watcher, auto probe, API edits, proxy settings | extends `Probe` |
| `Service` | start, stop and threads of the process | extends `FilterRotation` and `Settings` |

`MC<Module>` gives a module the values TLC needs, where a `.cfg` cannot state them; each `.cfg` is one run, and
a module without an `MC` module is run itself. Operators
commented as a *variant* are versions of a neighbouring operator with a plausible
mistake: they are used by no specification, only to see that a property notices.

### Conntrack

A map call takes the lock of one shard, so it is one step; everything a function
does after the entry guard is dropped is another one. `upsert` and
`check_and_apply_desync` split into the insertion (`InsertNew`), the increment of
`active_count` (`CountNew`) and the push on the wheel (`PushKey`), and `remove` into
`RemoveEntry` and `SubtractRemoved`, because other threads see the states in between. `gc_incremental` is the sequence `GcStart`, then
per key `GcPop` and one of `GcLookAbsent`, `GcLookActive`, `GcLookStale`/`GcEvict`,
ended by `GcDrained` or `GcPopOverBatch` and closed by `GcSettle`, which subtracts
the evictions. `remove` and the full `gc` belong to `Removers`. `active_count` is an
unsigned counter of `CounterSize` values: additions and subtractions wrap (`Wrapped`). Idle
times saturate just above the limit. `wpc`, `wkey` and `rpc` are the program counters of the
calls; `twice`, the evictions counted although somebody else had removed the entry, is a
history variable.

### DesyncGroup, Techniques, QuicTechniques

One request, a SYN, a ClientHello, an HTTP request or a QUIC Initial, and everything that
happens to it. `Add` and `Register` build the group of a profile, any sequence of
techniques, and replace an invalid one as `build_validated_group` does. `Capture` is a
worker taking up the request or its retransmission, with the guards of the TLS path;
`ForgetSeq` is the thread that forgets sequence numbers. `ApplyTechnique` runs the
next technique on the pipeline state, until one drops the packet; `Decide` is
`into_result` and `result_to_decision`, `Send` the worker's hand-over to the driver, which
refuses what `validate_before_send` refuses. The server's TCP and the network are
external: `Receive` keeps the first byte received at a position, if the segment's TTL
carries it to the server and its checksums are right, and `Lose` drops any segment.
`wire` is a set, so the network reorders at will, and the delays between injected
segments need no model of their own.

Each technique is an operator from the packet to the results it may have: what it
injects, what replaces the packet, whether the packet is dropped. Bytes are their
positions in the request, and 0 is a byte the client did not send, so what the server
assembled can be compared with what was sent. `Networks` says how the packet is captured:
over IPv4 with its checksums, over IPv4 with the checksums left to the adapter, or over
IPv6; the difference decides what an edit in place does. A QUIC Initial is one unit: what
counts is whether a datagram can be opened with the keys of the client's identifier. The
`allow_*` switches and `quic_fallback_policy` are those of the configuration. Left out
are the bytes of decoys and what only a censor would see of them.

### Dispatch

One flow of any kind, from its first packet. The packets of `ClientSends`, `ClientResets`,
`ServerSends` and `RedirectorSends` pass the stages of `process_one_sync_dispatch` in its order: class, outcome, split tunnel,
DNS, the redirector's return path, fake addresses, the route, the handler of the class
with its own guards. `resolve` prefers a cached route to the region of the name, unless the route is
marked bad, when it falls back to the global one. `buf`, `tracked`, `strategy`, `injected` and `entry` are what the
stages remember of the flow, and the four threads that forget are actions. What other
components say (breaker, tuning, tunnel, pool, cached route of nameless addresses) is
chosen for every packet, since it may change between two.

### PacketPipeline and PacketFate

A packet is its arrival number; a decision is a sequence of decoys and what becomes
of the packet, chosen from `Decisions`: a decoy goes with the packet, through the raw socket or
through the delay thread, or is malformed, and the packet is sent (changed or not), malformed
or dropped.
`CaptureCheck`, `Receive`, `ReceiveNothing` and `Dispatch` (`Enqueue`, `Overflow`,
`Disconnected`) are `capture_loop`: the flag is looked at before a receive that may block, fail
or be under way when the stop comes. `Poll`, `TakeFirst` .. `SendDone` are `shard_worker_loop`
and `shard_process_one` up to the flush, where `Poll` is the look at the flag and the 10 ms of
waiting after it; `DelayReceive` and `DelayEmit` are `DelayedInject::run`. What is hashed to
a shard is the flow of a packet or, if it shows none, its head (`Key`). `wire`, `fate` and
`bypassed` are history: the properties are about them. `PacketFate` knows neither threads nor
queues: packets are captured in arrival order, each settles once, and those of a flow are sent
in order, except one that passes a full queue.

### FilterRotation

`guard` is the ArcSwap guard of `recv_batch_into`; a handle closes when neither
`divert` nor a guard refers to it, and then its queue is gone. Opening and swapping
are two steps, since the driver captures on both handles in between. Load is a
choice (`overloaded`), so every schedule of the governor is explored.

### CircuitBreaker

Each access to an atomic is a step; `record_rst` runs under the mutex of the window,
`record_success` under nothing. `record_rst` reads the clock once, when it has taken the mutex
(`RstLock`), and both compares with that reading and stores it, while the clock goes on; `openRead`
and `openSince` keep that reading and the time of the store, as history. `RouteDesync` is the part of `decide` that depends on
the breaker.

### FallbackChain

The chain is behind one mutex: a call is a step. Connections remember the strategy
they were opened with, the code does not, and that is what `BookedOnItsOwn` is about.

### Adaptation

`observe_connection_outcome` is a sequence of steps of a worker, one per access to shared
state: the outcome of `AutoTune`, the chain's mutex, the escalator's, and at the end
`apply_strategy_tune`, whose store of the active profile and whose load and store of the
overrides are three. The guard of `current()` lives as long as the `if let` that uses it,
so the chain stays locked while the profile is applied: that is why no update of a worker
is lost. `TuneRequest` and its steps are the API's, which takes no lock.
The registry is the list of all registrations in their order (`register`): the first one of a
name gives a profile its place, the last one its content (`get`). For the properties, the
resets of each target are kept as a history (`resets`) beside the escalator's window of
them (`rsts`), and `peak` is the most that ever lay within one window.

### RedirectSession

Clients open connections, possibly from a port used before; the worker inserts the
target under the port; the session looks the port up, tries tunnel, custom proxy,
Opera proxy and direct connection in the code's order, bridges and cleans up; the
sweeper removes old entries. A peer that the session waits for without a timeout may also stay
silent for ever (`PeerSilent`), which leaves the session `held`. The model assumes that the captured traffic includes
all packets of these connections, as with a `windivert.filter` that captures both
directions; `FilterRotation` says what the built-in filters capture.

### FakeIp

`allocate` is called by the DNS bridge alone, but its map operations are separate
steps against lookups of the workers, insertions into the redirect table and the
expiry of DNS answers in the clients' caches.

### DnsBridge

A worker puts a captured query on the bounded channel or forwards it (`Ask`, through
`Dispatch`); the task takes the first one by the mode of its name (`TakeRefused`,
`TakeFake`, `TakeSecure`, `TakePlain`) and keeps a program counter across its awaits.
At `fake` it runs the steps of `FakeIp`'s allocation for the client that asked, while the
traffic of `FakeIp` goes on. `LookupStarts` and `DohLooksUpHost` send the engine's own queries,
which take the way of any other (`AskOwn`): an answer comes only to a query that went to
the network, so one that was queued is waited for until its timeout. The resolver's
memory, its retries and the network are external. `UserEdit` is what a reload, the API and the
probe do to the user's names: `geoblocked` is what `classify_domain` finds at the moment, and
`late` counts the real answers that a name was given since it is on the list. Times are not modelled; a timeout is
a step that may always happen at the end of the attempts.

### ZeroConfig

Activations are tasks (`Check`, `Dial`, `StoreTunnel`, `Publish`, `Fail`), whose calls may
also never return (`Hang`); the detector
notifies (`SwitchOn`, `SwitchOff`, `DropTunnel`, `DesyncOnly`), and both write the same
state. `aggregate` is the verdict of a detection pass, translated with its 70 percent
limits.

### Probe and Settings

`Probe` gives for each phase the reports it may make of a network (`net`: the site, what
its censor does, HTTP/3, whether the link is up, its pace); in any phase an answer may also be
late, and each phase reports its own kind of timeout. `Worded` are the words that the platform's
errors contain, of those that the phases look for. Then come `discriminate`, the
logistic regression, `decide_verdict` and `recommend` as functions of the report. In
`Settings` the phases are steps of the auto probe, so that the link may change between
them; `Conclude` adds the candidate to the list and applies the first recommendation.
`WatcherTick`, `WatcherRead`, `ReloadClear` and `ReloadFill` are the watcher's steps, and
the steps of a `handler` those of a proxy request: set the redirector, load `config.toml`,
truncate it, write it.

### Service

`ReportRunning` .. `run_service` start the process in the order of `service_main` or of the
console; `Subscribe` is the moment from which a stop is heard. `service_control_handler`
and `CtrlC` are the ways to stop; `Heard` is what a receiver gets,
`SetFlag` and `ThreadExit` what the pipeline makes of it, and `CancelRun` what dropping the
runtime does to its task. The module contains the rotation of the filter and the settings,
so that the stop meets each of them at work.

## 3. What the runs check

### Runs that pass

| Run | What it shows | States |
|---|---|---|
| `ct_gc` | no entry becomes unreachable for the collector, and the wrapping counter is off by exactly the evictions counted twice | 1 152 k |
| `dg_stream` | under every valid group of two techniques that promise the same stream, foreign bytes never leave with the reach of the real ones, a flight is the request once, a ClientHello arrives and a connection opens | 433 k |
| `pp_path` | with overflow, a driver that refuses packets and a stop at any moment, before or during a wait, nothing is duplicated or forgotten, decoys lead, the threads implement `PacketFate`, every packet settles, every worker stops | 231 k |
| `dp_ways` | geo-blocked TCP never shows itself, a part of a ClientHello is desynced once while either memory lasts, only treated flows are booked | 20 k |
| `cb_safety` | an open breaker always has its timer, and half-opening waits for the timeout, counted from the clock reading of the call that opened it | 1 181 k |
| `ad_tune` | chain, active profile and overrides agree once the workers and the API are done; escalations and switches are earned | 973 k |
| `rs_reuse` | nobody is bridged to another's target, sessions end unless a silent peer holds them, the sweeper clears what they left | 100 k |
| `dns_bridge` | a name that comes on the list is answered for real once more at most, a censored one never by the system's resolver, no address is shared, every queued question is worked on unless the task goes into the tunnel | 385 k |
| `zc_auto` | a request that still stands when all is quiet has been served, start-up ends unless a silent server holds it | 20 k |
| `sv_life` | no blind window of the filter, a censored site is found and listed, an edit that counts as loaded is loaded, a stop ends the process | 207 k |

### The runs that end in a counterexample

`rs_fakeip` checks what the documentation says of a connection to a fake address, that
the traffic of the application is redirected to the proxy: the code rewrites the SYN
only. `dg_decoy` checks what the splitting techniques say of their decoys, that
they do not reach the server and that it assembles what the client sent: with the default
offset they reach any server that is nearer than the client's whole TTL. The `findings` of
`PROJECT.json` quote both sides.

### Counterexamples kept beside the regular runs

Each row of the following table names a property that the code does not have, and a
configuration that yields the counterexample when the property takes the place of those
the configuration lists, under the specification it names or the one the row names. They
are kept because each of them is a divergence worth knowing, and because the property
becomes a regular one when the code changes. The configurations `ct_starved`, `ct_unattached`,
`se_edits`, `pr_plain`, `pr_advice`, `fr_swap`, `fc_switch`, `dp_query`, `dg_ipv4` and
`dg_offload` exist for their rows only; where a row of `DesyncGroup` names a set of techniques, `TechniquesOf` is replaced by it. `fr_swap` is run on
`FilterRotation`, `fc_switch` on `FallbackChain`, `se_edits`, `pr_plain` and `pr_advice` on `MCSettings`.

`fi_maps`, which is run on `FakeIp` itself, passes: it checks `TypeOK` and `NoSharedIp` of
that module alone with three domains and two entries, where an eviction can pass over an
active address to the next one (73 k states).

| Configuration | Property | The code, in one sentence | What says otherwise |
|---|---|---|---|
| `ct_gc` | `NoFreshEviction` | the collector evicts an entry that was refreshed after the test (`conntrack.rs:390`) | test at `conntrack.rs:604` |
| `ct_gc` | `CountNeverWraps` | a removal counted before its insertion, or an eviction counted twice, wraps the counter (`conntrack.rs:404`) | `conntrack.rs:418` |
| `ct_unattached` | `StaleEventuallyEvicted` | nothing collects the connection table that the pipeline fills (`service/src/main.rs:1131`) | `README.md:75` |
| `ct_starved` | `StaleEventuallyEvicted` | a batch smaller than the traffic of a slot never reaches a stale key (`conntrack.rs:382`) | `backlog.md:280` |
| `dg_ipv4` with `SafeToCombine`, three techniques | `FlightAlwaysWhole` | `BadChecksum` behind a split and a decoy damages the real segments (`group.rs:459`) | `desync/mod.rs:613` |
| `dg_ipv4` with `RaisedTtl` | `ForeignIsLowered` | `TtlManipulation` gives decoys the TTL of the real packets (`group.rs:476`) | `desync/mod.rs:613` |
| `dg_offload` | `StreamIntact` | padding shifts the stream behind it (`tls.rs:300`) | `tls.rs:244` |
| `dg_ipv4` with `HttpProfile` | `RequestArrives` | each retransmission of an HTTP request is edited again and keeps a stale checksum (`http.rs:1080`) | `tcp.rs:38` |
| `fr_swap` | `EveryPacketRead` | closing the old handle discards what the driver had queued on it (`packet_engine.rs:511`) | `packet_engine.rs:496` |
| `sv_life` | `SynIntercepted` | the first rotation stops capturing SYNs (`engine/mod.rs:1137`) | `ARCHITECTURE.md:4065` |
| `dg_ipv4` with `LongHeaderDrop` | `ConnectionOpens` | `QuicLongHeaderDrop` drops the client's own Initials, each time (`quic.rs:352`) | `quic.rs:351` |
| `dg_ipv4` with `MssClampProfile` | `ConnectionOpens` | a SYN edited by `MssClamp` has a wrong checksum unless the adapter computes it (`tcp.rs:1197`) | `tcp.rs:1194` |
| `dg_offload` with `WindowClampProfile` | `ConnectionOpens` | `Wclamp` takes the SACK option out and leaves a data offset behind the packet's end (`tcp.rs:2089`) | `tcp.rs:2088` |
| `dg_ipv4` | `FlightAlwaysWhole` | an edit of the header and a split by injection send the request twice (`group.rs:113`) | `desync/mod.rs:613` |
| `dp_query` | `QueriesReachResolver` | half of all queries are taken for QUIC (`classifier.rs:252`), and dropped or sent into the tunnel | `README.md:65` |
| `ad_tune` | `TuneIsNotLost` | the API's overrides are overwritten by those of a worker that loaded them earlier (`auto_tune.rs:142`) | log at `service/src/main.rs:178` ("applied") |
| `ad_tune` | `UserChoiceStays` | the next reset replaces the profile the user has set (`engine/mod.rs:1003`) | – |
| `ad_tune` | `FailingGetsAggressive` | an override hides what the metrics would tune (`auto_tune.rs:402`) | log at `auto_tune.rs:422` |
| `ad_tune` with `UserProfiles <- MCNoProfiles` | `SwitchChangesProfile` | the techniques of the chain are all of one profile (`engine/mod.rs:1855`) | `fallback.rs:6` |
| `sv_life` | `StoppedMeansStopped` | STOPPED is reported by the control handler (`service/src/main.rs:1190`) | `service/src/main.rs:1189` |
| `sv_life` | `SentinelStops` | nobody reads the sentinel's flag | `infra/sentinel.rs:6`, `:16` |
| `se_edits` | `EveryEditIsLoaded` | an edit whose first reading fails, or one made during the start, is not read again (`service/src/main.rs:1049`) | `service/src/main.rs:1056` |
| `se_edits` | `ListedStaysListed` | the list is empty between the two halves of a reload (`geo.rs:506`) | `geo.rs:504` |
| `se_edits` | `ProxyIsSaved`, `SettingsKept` | two requests save `config.toml` one over the other, or one reads it truncated (`config.rs:402`) | `service/src/main.rs:941` |
| `pr_plain` | `FoundStaysListed` | a reload clears what the probe found (`geo.rs:506`) | `service/src/main.rs:1080` |
| `pr_advice` | `AdviceIsApplied` | the first recommendation has an identifier that the pipeline does not know, and is logged as applied (`service/src/main.rs:1090`) | log at `service/src/main.rs:1092` |
| `pr_advice` | `UnansweredIsListed` | a request without an answer counts as ambiguous (`http_probe.rs:231`) | `discriminator.rs:46` |
| `pr_plain` | `PassedIsAmbiguous`, `BlockedIsTheCensors` | the regression outvotes the phases: a healthy site with TLS 1.3 is called blocked | `probe/decision_engine.rs:22` |
| `cb_safety` | `SuccessClosesOnlyHalfOpen` | a stale success closes a breaker that has opened again (`adaptive_router.rs:155`) | `adaptive_router.rs:153` |
| `cb_safety` | `OpensAboveThreshold` | the breaker opens at the threshold (`:129`) | `adaptive_router.rs:128` |
| `cb_safety` | `OneTestConnection` | half open lets any number of connections through (`:323`) | `adaptive_router.rs:69` |
| `cb_safety` | `HalfOpenAfterTimeout` | the clock is read before the opening is stored (`adaptive_router.rs:117`) | `adaptive_router.rs:40` |
| `cb_safety` with `FairBreakerSpec` | `OpenIsTested` | without RSTs an open breaker is never tested again (`:139`) | `adaptive_router.rs:40` |
| `fc_switch` | `ExhaustedIsDirect` | an exhausted chain stays on its strategy (`fallback.rs:190`) | `fallback.rs:92` |
| `fc_switch` | `BookedOnItsOwn` | a late outcome is booked on another strategy (`fallback.rs:237`) | `fallback.rs:6` |
| `rs_reuse` | `SweepTakesPendingOnly` | the sweeper takes the entry of a bridged connection (`redirect_table.rs:41`) | `redirect_table.rs:38` |
| `rs_reuse` | `CleanupTakesOwnEntry` | a late session removes the entry of its port's next connection (`redirector.rs:161`) | `redirect_table.rs:6` |
| `rs_reuse` | `FailsOpen` | without a healthy proxy there is no direct attempt (`redirector.rs:194`) | `ARCHITECTURE.md:1641` |
| `rs_reuse` | `SessionsAlwaysEnd` | a proxy that accepts and never answers holds the session (`socks5_client.rs:88`) | – |
| `rs_fakeip` | `RetiredProxyReturns` | a retired proxy never returns (`types.rs:86`) | `types.rs:60` |
| `fi_maps` | `RightHost` | an address is reused while clients still cache it (`fakeip.rs:117`) | `ARCHITECTURE.md:4066` |
| `fi_maps` | `ActiveKept` | an address may become active between test and eviction (`fakeip.rs:106`) | `fakeip.rs:100`, test at `:310` |
| `dns_bridge` | `NeverWaitsForItself` | the task waits for a query that is queued behind it (`dns_async.rs:29`) | `engine/mod.rs:1933` ("async queue offload") |
| `dns_bridge` | `NoDnsLeak` | a query that finds the queue full is forwarded (`engine/mod.rs:1941`) | `README.md:65` |
| `dns_bridge` | `OthersOverHttps` | the system's resolver is asked first (`dns_proxy.rs:186`) | `ARCHITECTURE.md:4068` |
| `dns_bridge` | `ServedBehindTunnel` | a tunnel that does not answer stops the task (`dns_proxy.rs:302`) | `dns_proxy.rs:92` (three seconds elsewhere) |
| `dns_bridge` | `GeoBlockedStaysFake` | a query taken before its name was listed is answered for real (`dns_proxy.rs:157`), and a reload empties the list (`geo.rs:508`) | `README.md:65` |
| `zc_auto` | `WithdrawnMeansDown` | an activation that ends late undoes a withdrawal (`zero_config.rs:122`) | `zero_config.rs:141` |
| `zc_auto` | `ActiveMeansTunnel` | a withdrawal between the two stores of an activation leaves the engine active without a tunnel, for good (`zero_config.rs:122`) | `is_active`, `zero_config.rs:152` |
| `zc_auto` | `StandingRequestIsActive` | a late failing `initialize` overwrites the state of a tunnel that the detector has brought up (`zero_config.rs:55`) | – |
| `zc_auto` | `StartUpEnds` | a server that never answers holds `initialize` (`surfeasy.rs:270`) | – |
| `zc_auto` | `DropAllActivates` | a failed activation is not repeated while the verdict lasts (`detector.rs:122`) | `README.md:79` |

### Bounds, and why they are enough

* *Conntrack*: two keys, two workers, a remover, two slots. The races are between the writers
  of one key, the collector and another remover; `ct_unattached` needs one worker only. In
  `ct_starved` the keys share a slot and the batch is smaller than the slot may be. `WheelBound`
  stops duplicates of a key from growing without end, `DriftBound` the evictions counted twice, after
  the first of which the counter can wrap. `CounterSize` is 8, more than
  can be owed, so that a wrapped counter is told from a right one. The theorems of section 5 hold
  for any values of these.
* *DesyncGroup*: a request of six bytes, which splits into halves and into thirds, so
  that every split technique cuts; groups of two techniques, since `validate` and the
  merging of results relate pairs (an invalid group becomes another one, of two);
  a fake request is longer than the real one; the server's window is larger than the
  client's, so a decoy placed behind the latter would be seen. In `dg_stream` the server is
  as far as the client's TTL reaches, so that any lowered TTL expires before it and `HelloArrives`
  and `ConnectionOpens` are about real segments only; `ForeignIsLowered` and `FlightIsWhole` are about
  what is sent and do not depend on the distance. In `dg_decoy` the server is one hop nearer,
  as in the program nearly every server is. The techniques of `dg_stream` are those that promise the
  same stream; the others are the subject of `dg_ipv4` and `dg_offload`, one profile at a time.
* *PacketPipeline*: three packets, two of one flow and one between them that shows none, on a
  shard each; queues of one packet, so that they overflow; a worker that flushes after two
  actions, in the middle of a batch; one place in the delay channel, which sends a paced decoy
  around it when it is full. `Mixed` has one decision of each kind: a decoy before a changed packet,
  malformed copies of both, and a paced decoy without the packet.
* *Dispatch*: one flow of each kind the stages tell apart, a hello of three pieces and a
  buffer of five, so that it fits whole and overflows when long; a quiet engine and one
  change to it at a time, but a new one for every packet; among the changes are a cached and a
  bad route. `proxy_non_sni_blocked` is TRUE, its default.
* *FilterRotation*: in `sv_life` one packet that matters and three handles, so that a rotation meets
  the guard on the handle before the last, and one with the dwell of the next; in `fr_swap`
  two packets.
* *CircuitBreaker*: `RstBound` 4 is twice the threshold, so the breaker opens, half
  opens and opens again, with two workers, since each race is between two calls. The clock goes on
  during a call; `ClockBound` 5 lets a timeout of 1 pass twice, once behind a clock
  reading that is old.
* *FallbackChain*, *Adaptation*: a ring of three techniques, two of different profiles and one of none,
  and a threshold of two; `CountBound` 2 lets a strategy fall below the success rate;
  two connections to one target, so that their resets add up, and one request of the API.
* *RedirectSession*: three connections, two of them on one port; `MaxAge` and
  `FailLimit` 1 make every limit reachable in each run that needs it.
* *FakeIp*: one domain more than there are entries.
* *DnsBridge*: two geo-blocked names for one entry, so that an address is reused while
  the traffic goes on; a queue of two, so that a question waits behind one of the engine's
  own and finds the queue full; a client does not repeat a question that is still queued, since a copy
  is treated like the first one; two attempts of the resolver. One of the names is the user's, who
  lists and removes it at any time, and is censored; the other is of the built-in list. The program
  passes an empty list of censored names (`engine/mod.rs:694`); the run has one in it, since the
  resolver treats them in a way of their own. The plain name is that of
  the DoH server, which only the engine asks for: a client's question for it is treated
  in the same way, and would triple the states.
* *ZeroConfig*: two positive and three negative canaries, for which 70 percent and a
  simple majority differ; two activation tasks besides `initialize` overlap.
* *Settings*, *Service*: one part of the service is busy at a time (`MCDeployments`), since a stop meets
  each of them but they do not meet each other outside the rotation and the settings;
  two edits, one of which falls between the reading of the time and that of the text; each
  censor on an otherwise good network, fast and distant, and one that is half dead.

Runs with `CHECK_DEADLOCK FALSE` are those where the system may stop: all packets
have arrived and settled, the request is complete and nothing is on its way, all connections are closed, or a bound is reached. In
*Conntrack* and *FallbackChain* the clock or the collector always has a step, so
deadlock is checked there.

## 4. Fairness

* *Conntrack*: a call that has begun returns, and `gc_loop` is driven by an interval
  timer: weak fairness on `WorkerFinish`, `GcStart`, `GcStep`. Nothing is assumed about
  the arrival of packets or about `remove`. Only `ct_unattached` and `ct_starved` need it.
* *DesyncGroup*: the worker goes on and the client retransmits what is not
  acknowledged (weak fairness); strong fairness on `ReceiveUseful` says that the
  network does not lose for ever what the server misses. Profiles are registered at
  start-up. Nothing is assumed about the order of arrival or about `ForgetSeq`.
* *PacketPipeline*: each thread loops without waiting for another one: weak fairness per
  thread. Strong fairness on `ReceiveSome` says that the driver does not fail for ever to hand over
  packets it holds. Arrivals and the shutdown are not fair, and a receive that has
  nothing to return may block for ever: what that does to the end of the process, `Service`
  models.
* *FilterRotation*: the capture thread reads and a rotation under way completes.
* *Service*, *Settings*: each task and thread that can go on does so (`Start`, `Pipeline`, `Finish`, `Capture`,
  `Watcher`). Packets keep coming in (`ReturnWithOthers`): without that the capture thread
  stays in its receive, `run` in its join, and `StopEnds` fails, as TLC shows when the
  conjunct is taken away. Nothing is assumed about edits, requests or the probe.
* *CircuitBreaker*: time passes and calls return; nothing forces an RST to come,
  which is what `OpenIsTested` shows.
* *RedirectSession*: tasks progress, the sweeper's timer fires, targets close after
  their client is gone, a client that stays sends its next packet. Nothing is assumed about the
  peers of a session: `PeerSilent` is never obliged and never excluded, and a silent peer disables the
  fair steps of its session. `SessionsEnd` makes an exception for it, `SessionsAlwaysEnd` does
  not. `RetiredProxyReturns` fails because nobody asks a retired proxy again. The configuration is chosen when
  the behaviour starts and never changes.
* *DnsBridge*: the task is one future of the runtime and its waits end, by an answer or by
  a timeout (`dns_proxy.rs:92` for HTTPS, the resolver's own for the others): weak fairness
  on `BridgeStep`. The tunnel has no timeout and no fairness, which is why
  `EveryQuestionServed` makes an exception for it, and `ServedBehindTunnel` does not.
* *ZeroConfig*: tasks run. That a call of an activation returns is not assumed: `Hang` is never
  obliged and never excluded. `LeavesInitializing` makes an exception for it, `StartUpEnds`
  does not.

## 5. What is proved

`ConntrackProofs` holds theorems for every set of keys, workers and removers, every
number of slots, every hash, every batch and every idle limit. They use
`ConntrackAssumption` only: keys, workers and removers are finite sets, there is at least one
slot, hashes are slots, the counter has a size, and limits are natural numbers.

| Theorem | States |
|---|---|
| `TypeCorrect` | `Spec => []TypeOK` |
| `EntriesStayReachable` | `Spec => []NoLeakedEntry`: every entry has a key on the wheel, in the pass, or about to be pushed |
| `CountNeverDrifts` | `Spec => []CountAgrees`: the counter is what is owed less the evictions counted twice, modulo its size, and off by nothing else |
| `CountExactAlone` | if `Removers = {}`, `Spec => [](active = Wrapped(Owed))`: as long as only the pass removes entries, the counter is exact, up to calls under way |

*Typing.* `TypeOK` is not inductive: a worker in the middle of a call pushes `wkey`,
and a pass that holds a key reschedules `gc.hand`, and both may be `NoKey` as far as
`TypeOK` knows. `TypeInv` adds `HeldKeys`: a call in progress and a pass that looks at
a key hold a real one.

*Reachability.* `NoLeakedEntry` is inductive together with `TypeInv`. The lemmas
`AppendQueues`, `PopLosesHeadOnly` and `RotateKeeps` say what the three operations on
the queues do to the set of queued keys; `WorkerCovers`, `GcCovers` and
`RemoverCovers` treat the actions one by one. The delicate steps are
`GcPop`, which moves a key from the wheel to the hand, `GcLookAbsent`, which forgets a
key only when there is no entry, and `GcEvict`, which drops both: had another thread
re-inserted the entry, that entry is removed with it.

*Counting.* Each insertion adds one to the map and one worker to `Uncounted`; each
eviction takes one from the map and adds one to the count the pass has not settled; a
`remove` takes one from the map and adds a remover to `Unsubtracted`; the later addition or
subtraction moves the counter and what is owed alike. The eviction is the
delicate step: it counts one even if the map held nothing any more, and then the
counter is off by one more for good, which `twice` counts. Additions and subtractions wrap, so the argument is one
about remainders (`Division`, `MultiplesVanish`, `WrappedAdds`): adding to a wrapped number and wrapping
again is the same as adding first. Without other removers `twice` stays zero (`OnlyWithRemovers`),
because the entry a pass is about to evict is then there (`VictimPresent`). `SettledAtRest` ("a
pass leaves no eviction unsettled") is needed where a pass begins.

The other proof modules assume of the constants no more than the `ASSUME` of the module
they extend. Each keeps, as `Typed`, the part of the type invariant its argument needs.

| Theorem | States | The invariant behind it |
|---|---|---|
| `OpenBreakerIsTimed` (`AdaptiveProofs`) | `BreakerSpec => []OpenIsTimed`: whoever opens the breaker, it has the time of its opening | `BreakerInv`: calls that write are inside the lock (`Locked`), and the stored time is the reading of the call that opened the breaker last, which that call may still have to store (`StampIsCurrent`) |
| `HalfOpensOnTime` | `BreakerSpec => []HalfOpenOnOwnTime`: a worker about to half-open an open breaker has found the timeout passed since the clock reading of the call that opened it last | the same |
| `TuningImplementsChain` | `AdaptSpec => Spec`: with profiles, overrides, escalation and the API around it, the chain behaves as `FallbackChain` says of it alone | none: each step of `Adaptation` is one of the chain or leaves its variables alone |
| `SwitchesAreEarned` | `AdaptSpec => SwitchIsEarned`, for any number of connections and strategies | `ChainInv`: the window of errors holds no more than the failures since the last success or switch, unless those have reached the threshold already |
| `AggressionIsEarned` | `AdaptSpec => []EscalationIsEarned`, for any order of workers and API, if `OnlyEscalated` | `EscalationInv`: `WindowsAreKept` and `ParamsAreEarned` |
| `ProfileFollowsChain` | `AdaptSpec => []QuietProfileFollowsChain`, for any number of connections, profiles and requests | `FollowInv`: `HolderLeads` and `WillFollow`, and who may hold the lock |
| `RotationIsNeverBlind` (`ServiceProofs`) | `FilterRotation`: `Spec => []NoBlindWindow`: the handle in place and the one being read are open, and no other is but a new one | `RotationInv`: the old handle is closed only when the new one has been stored, and a new handle that waits is open (`NewHandleWaits`) |
| `ServiceIsNeverBlind` | `ServiceSpec => []NoBlindWindow`, with the start, the stop and the settings around the rotation | the same, kept by each step of `Service` |
| `FilterIsTheModes` | `ServiceSpec => []FilterFollowsMode` | `NewHandleFollowsMode`: a handle is opened with the filter of the mode of its rotation |
| `StandingRequestIsServed` (`ProxyProofs`) | `EngineSpec => []RequestIsServed`, for any number of tasks | `RequestIsAttended`: a standing request has been served, or a task is still at it; `NoRequestYet` says why `initialize` cannot meet one |
| `NobodyIsMisdirected` | `Spec => []DialsOwnTarget`, for any assignment of ports | `OwnEntryOrNone`: behind the port of a living connection is its own target or none; it rests on `OnePerPort`, which the client's system guarantees |
| `GeoBlockedStaysHidden` (`DispatchProofs`) | `Spec => []GeoBlockedNeverDirect`, whatever the surroundings | the property itself and `FlowStays`; `HiddenWay` follows the packet through the stages |
| `OnlyUsedStrategiesAreBlamed` | `Spec => []BookedWasTreated` | `StrategyWasUsed`: a strategy is remembered only by the step that sends a packet changed |
| `HelloIsDesyncedOnce` | `Spec => []DesyncedOnce`, whatever is collected or evicted between the copies of a ClientHello | `EitherRemembers`: a part that has been desynced is remembered by the entry of its flow or by the table of sequence numbers until both have forgotten it |
| `AddressesAreNotShared` (`DnsBridgeProofs`) | `Spec => []NoSharedIp`, for any size of the table and of the pool | `MapInv`: the maps agree but for one entry, which the call under way names (`MapsAgree`, `CallIsAlone`), and addresses above `next_ip` are unused (`GivenOutOnce`) |
| `BridgeSharesNoAddress` | `BridgeSpec => []NoSharedIp` | the same; the task calls `allocate` for geo-blocked names only |
| `ListingTakesEffect` | `BridgeSpec => []AnswersFollowMode`: however the list of the user changes, a name on it is answered for real once at most, and what the system's resolver says of a censored name is never stored | `ModeInv`: each step a query can be at remembers the class it was taken with, and a name that has had its late answer is not at such a step any more (`LateOnce`) |
| `ServiceImplementsSettings` (`ServiceProofs`) | `ServiceSpec => SettingsSpec`: the process, from its start to its end, keeps the settings as `Settings` alone does | none: each step of `Service` is one of `Settings` or leaves its variables alone |
| `CensoredSitesAreFound`, `ServiceFindsCensored` | `CensoredIsListed` under `SettingsSpec` and `ServiceSpec`, for any networks, delays and lost datagrams, if `WindowsWords` | `ProbeInv`: after each phase, the result it left shows the censor or a later phase still has to meet it (`CensorShows`) |
| `PartsAreSentOnce`, `DecoysComeFirst`, `PacketsAreAccounted`, `PipelineTypes` (`PacketPipelineProofs`) | `Spec =>` `[]SentOnce`, `[]DecoysLead`, `[]Accounted`, `[]TypeOK`, for any number of packets and shards and any queues | `PipelineInv`, stated as `PipelineHolds` |
| `PipelineImplementsFates` | `Spec => ImplementsFates`: the threads implement `PacketFate` | the same |
| `GroupTypeOK` (`DesyncGroupProofs`) | `Spec => []TypeOK`, for requests of any length, groups of any number of techniques and any sizes, windows and TTLs: no packet without data is ever sent | `TypeInv`: all packets are of the client's connection, captured alike, and carry something |
| `ForeignStaysLowered` | `Spec => []ForeignIsLowered`, for the same, if `KeepsStream` and `OffsetLowers`, at whatever distance the server is | `StreamInv`: what is injected, queued or under way is the client's own bytes at their positions (`Genuine`), or has a lower TTL than the client's packets or lies behind what the server takes (`Ghost`) |
| `FlightStaysWhole` | `Spec => FlightIsWhole`, for the same, if `FlightAssumption` | `GroupInv` and `FlightInv`: a validated group splits once at most; until it does, the packet is the whole request and all injects are decoys (`Uncut`), and then each position is in the injects once or in the packet that leaves (`CutOnce`) |

*Fake addresses.* `NoSharedIp` is not inductive: its second half says nothing while a
call is under way, and then another domain could have the address. The lemma for each
of the four map operations of an eviction says which entry is odd after it. That the
order of recency is right does not matter for the argument, only that it lists addresses
that were given out: a wrong order would evict another domain, never share an address.

*The breaker.* `OpenIsTimed` and `HalfOpenOnOwnTime` relate atomics that are
written one by one; a worker between two of its writes is named in the invariant by its
program counter. The clock goes on between the reading and the writes, so that both speak of the
reading, `openRead`: counted from the moment when the breaker opened for the others, the timeout may
be shorter (`HalfOpenAfterTimeout`, section 3).

*The chain and the profiles.* `QuietProfileFollowsChain` speaks of the moment when all workers
are done; `FollowInv` says on the way there who will make it true. At most one worker tunes,
the one that holds the chain's lock (`HolderTunes`); the plan it has made is the profile of the
strategy the chain is at, and what it read of the overrides nobody has changed since
(`HolderLeads`); without such a worker, active profile and overrides follow the chain
already, unless the API tuned (`WillFollow`). The argument fails where a worker applies its
profile without the lock (`HoldsNoLock`), and TLC finds the run. For `EscalationIsEarned`, the
window of a target is a suffix of all its resets, in the order of their times, and each cut leaves
recent ones only, so that it is never longer than `peak` (`WindowsAreKept`); aggressive parameters are on their way to the
overrides only after `peak` has reached the threshold (`ParamsAreEarned`). The hypothesis
`OnlyEscalated` is that neither a user's profile nor a request of the API asks for exactly the
parameters of the escalation, which the code could not tell from its own.

*The packet path.* None of its invariants is inductive: that a part is on the wire once
says nothing of the copies that are still on their way. `PipelineInv` looks at each shard
as one line: what it has sent, its queue to the sender, the packet the worker holds, its
input queue, and the batch of the capture thread. Along that line packets are in the order
of their arrival (`InOrder`), and so no packet is at two places of it; the parts of a packet
are sent in the order of its plan, which puts the decoys before the body; what is on the wire
has left the line (`SentRight`); and a packet that was taken has a place or a fate
(`Settled`). `Accounted` counts places with `Cardinality`; the proof shows that the set of
places is a singleton or empty. For the refinement, `Send` of `PacketFate` needs that no older
packet of the flow is still held, which is `InOrder` again, since a flow stays on its shard;
packets that show none stay together by their heads.

*The techniques.* A group is a sequence of any length of some seventy techniques, so the proofs
never look at a group as a whole. For each technique a lemma says what its result is to the
packet it was given. `Tame` results inject decoys only and leave the bytes of the packet, unless
the technique is one of `EditsTheStream`; where it is not one of the edits that leave a wrong
checksum or another port (`Harms`), the packet arrives as before. A `Cut` is made of decoys and
of parts of the packet that hold each of its positions once, and either one of the parts
replaces the packet or the packet is dropped; that multiples of a size, with what is left at
the end, are such parts is shown once (`Divides`, `Bounds`, `OnePiece`) and used for each split
technique, whatever the order in which it injects them. `BadChecksum` and `TtlManipulation` rewrite what was injected before them and are
treated on their own.

The hypotheses are those under which the code is right. `KeepsStream` (no profile has
a technique that changes the client's bytes) is a condition `dg_offload` shows to be needed;
`OffsetLowers` says that the client's TTL is above 1 and the offset not zero, so that there is
something to take away, and that the TTL `TtlManipulation` sets is a lower one, too, which `dg_ipv4` with
`RaisedTtl` shows to be needed. Nothing is assumed about where lowered packets end: that
a decoy does not reach the server is not a theorem, because the program does not see to
it (`dg_decoy`). `FlightAssumption` adds that no
profile has `TtlManipulation`, which sets the TTL of split parts injected before it as well, and
that destructive manipulation is not combined with offloading: the copy of the
packet that `BadChecksum` then injects is repaired by the adapter and arrives beside the
packet. `Damaged` in `FlightIsWhole` names the compositions that do not have the property; the
runs of `dg_ipv4` show some of them. TLC checked `TypeInv`, `StreamInv`, `GroupInv` and `FlightInv` on the
instance of `dg_stream` before they were proved.

*The probe.* `WindowsWords` says that the platform's errors contain neither "connection refused"
nor "alert". It is needed. A censor that answers a SYN with a
reset is told from a closed port by the words of the error (`tcp_probe.rs:101`): where the
system says "connection refused", the site is called ambiguous, and TLC finds that run. Windows
says "actively refused it", which is the case the theorems are about. `CensoredIsListed` makes
one exception (`Unseen`): a censor that acts on the answer alone, where the request had no answer in
time. The HTTP phase calls that ambiguous, and such a site is not found
(`UnansweredIsListed`, section 3).

*The hello.* `Dispatch` counts the desyncs of each part since both memories, the entry
of the flow and the table of sequence numbers, last forgot it. The invariant is about both memories at once: losing one of them is harmless
only as long as the other was written by the same step.

*Only model-checked.* Liveness under fairness is beyond the prover: `HelloArrives`, `ConnectionOpens`, `SessionsEnd`, `NoOrphanEntry`, `EditIsLoaded`, `EveryQuestionServed`,
`LeavesInitializing`, `EveryPacketSettles`, `WorkersStop` and `StopEnds`. Every invariant
and every action property that a passing run checks is a theorem.

## 6. What is left

In this order:

1. `AwgTunnel`: its NAT table and receive loop;
2. the accumulator of the probe, and the table of cached routes with the race of `resolve` and
   `clear_cache` (`geo.rs:395`): `Dispatch` chooses for each packet whether its name has a cached
   route and whether that one is bad;
3. the matching of names and networks in the split tunnel, against a reference definition;
4. safety properties for the order of eviction in `FakeIp` and for the edits in `Settings`,
   with their proofs: what `Settings` promises so far is liveness.

`TxidTracker`, `EgressChain`, `HealthChecker`, `DomainTrie`, `StrategyRegistry`,
`PersistenceManager` and `ProbeTuneRun` are not modelled while nothing in the program calls them.

Not modelled, on purpose: the bytes of packets and of generated TLS records, parsing
and formatting, network clients whose only effect is an outcome, operating-system
services, the user interface, the installer, the test lab and the fuzz targets.
