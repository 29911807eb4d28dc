----------------------------- MODULE Adaptation -----------------------------
(* How outcomes change what later connections are treated with: the profile   *)
(* registry (strategy_profile.rs), AutoTune's metrics and overrides           *)
(* (auto_tune.rs), TargetEscalation (target_escalate.rs) and the pipeline's   *)
(* apply_strategy_tune, around the chain of FallbackChain.                    *)
(*                                                                            *)
(* observe_connection_outcome runs on the shard workers, one per connection   *)
(* here, and tune_strategy on the API's threads.  Each step takes or makes    *)
(* one access to shared state: the chain and the escalator have a mutex each, *)
(* the active profiles are atomics, and the overrides are published by load,  *)
(* clone and store.                                                           *)
EXTENDS FallbackChain, SequencesExt

CONSTANTS Techniques,     \* config.techniques: the chain, and outbound_tls
          UserProfiles,   \* config.strategies: [name, category, techniques, default]
          TargetOf,       \* the target (ip:port) of each connection
          RstThreshold,   \* rst_threshold of the escalator
          RstWindow,      \* its window
          Requests,       \* tune requests: [profile (name), params]
          OutcomeBound,   \* bound: outcomes booked before the last connection opens
          TuneBound       \* bound: requests made

\* TuneParams; 0 is None.
ParamSets == [split_size : Nat, split_count : Nat, fake_ttl_offset : Nat, max_seg_size : Nat]

ASSUME AdaptationAssumption ==
  /\ NumEntries = Len(Techniques)
  /\ UserProfiles \in Seq([name : STRING, category : STRING, techniques : SUBSET STRING,
                          params : ParamSets, default : BOOLEAN, enabled : BOOLEAN])
  /\ Requests \subseteq [profile : STRING, params : ParamSets]
  /\ {"free", "api"} \cap Connections = {}
  /\ RstThreshold \in Nat \ {0} /\ RstWindow \in Nat
  /\ OutcomeBound \in Nat /\ TuneBound \in Nat

VARIABLES active,    \* active_profile_tls, _quic and _http: name by category
          override,  \* AutoTune::overrides, by name
          outcomes,  \* AutoTune's success_count and fail_count, by name
          rsts,      \* TargetEscalation: ages of the RSTs of each target
          pc,        \* where each worker is in observe_connection_outcome
          plan,      \* profile and params a worker or the API is about to set
          copy,      \* the overrides it has loaded
          lock,      \* worker that holds the chain's mutex
          tunes,     \* requests begun so far
          resets, peak \* history: ages of all RSTs of each target, the most ever within a window

tuneVars == <<active, override, outcomes, rsts, pc, plan, copy, lock, tunes, resets, peak>>
allVars == <<vars, tuneVars>>

-----------------------------------------------------------------------------
(* The registry.                                                              *)
Params(size, count, ttl, seg) ==
  [split_size |-> size, split_count |-> count, fake_ttl_offset |-> ttl, max_seg_size |-> seg]
NoParams == Params(0, 0, 0, 0)
Profile(name, category, techniques, params) ==
  [name |-> name, category |-> category, techniques |-> techniques, params |-> params]

TlsDefaults == <<
  Profile("outbound_tls", "Tls", IF Techniques = <<>> THEN {"FakeSni", "BadChecksum"}
                                 ELSE ToSet(Techniques), Params(1, 3, 1, 10)),
  Profile("outbound_tls_split", "Tls", {"MultiSplit"}, Params(1, 3, 1, 10)),
  Profile("outbound_tls_disorder", "Tls", {"Disorder"}, Params(1, 2, 1, 10)),
  Profile("outbound_tls_tlsfrag", "Tls", {"TlsRecordFrag"}, Params(5, 2, 1, 10)),
  Profile("outbound_tls_hostfake", "Tls", {"HostFake", "BadChecksum"}, Params(1, 2, 1, 10)) >>
OtherDefaults == <<
  Profile("outbound_http", "Http", {"HttpCaseMix", "ChunkObfuscation"}, Params(1, 2, 1, 10)),
  Profile("outbound_quic", "Quic", {"QuicBlocking"}, Params(1, 2, 1, 10)),
  Profile("outbound_quic_downgrade", "Quic", {"QuicVersionDowngrade"}, Params(1, 2, 1, 10)),
  Profile("dns_doh", "Dns", {}, NoParams),
  Profile("socks5_fallback", "Tcp", {}, NoParams),
  Profile("tcp_mss_clamp", "Tcp", {"MssClamp", "PktReorder"}, Params(1, 2, 1, 536)),
  Profile("tcp_window_clamp", "Tcp", {"Wclamp", "MssClamp"}, Params(1, 2, 1, 536)),
  Profile("outbound_tls_seqspoof", "Tls", {"SeqSpoof", "BadChecksum"}, Params(1, 2, 1, 10)) >>
with_defaults == TlsDefaults \o OtherDefaults

\* Every registration, the built-in ones first.  One of a known name replaces the content
\* of the profile and leaves it its place.
AsProfile(user) == Profile(user.name, user.category, user.techniques, user.params)
register == with_defaults \o [i \in DOMAIN UserProfiles |-> AsProfile(UserProfiles[i])]
Registrations == DOMAIN register
Names == {register[i].name : i \in Registrations}
get(name) == register[CHOOSE i \in Registrations :
                        /\ register[i].name = name
                        /\ \A j \in Registrations : register[j].name = name => j <= i]
Registry == {i \in Registrations : \A j \in 1 .. i - 1 : register[j].name # register[i].name}

\* The user's last profile for a category that is marked default or enabled, or the
\* built-in one.
get_default_for_category(c) ==
  LET own == {i \in DOMAIN UserProfiles : UserProfiles[i].category = c
                                           /\ (UserProfiles[i].default \/ UserProfiles[i].enabled)}
  IN IF own # {} THEN UserProfiles[CHOOSE i \in own : \A j \in own : j <= i].name
     ELSE CASE c = "Tls" -> "outbound_tls" [] c = "Quic" -> "outbound_quic"
            [] c = "Http" -> "outbound_http"
HotPath == {"Tls", "Quic", "Http"}

\* The first profile, in the order of registration, that has the technique.
find_by_technique(t) ==
  LET has == {i \in Registry : t \in get(register[i].name).techniques}
  IN IF has = {} THEN "none" ELSE register[CHOOSE i \in has : \A j \in has : i <= j].name
Chosen == find_by_technique(Techniques[current + 1])

-----------------------------------------------------------------------------
\* AutoTune::recommend_by_id: an override hides the metrics.  Latencies are
\* recorded as 0 by the pipeline, so the branch on them is never taken.
recommend_by_id(name) ==
  LET o == outcomes[name] total == o.success + o.fail IN
  CASE override[name].set -> override[name].params
    [] ~override[name].set /\ 2 * o.success < total -> Params(1, 5, 2, 0)
    [] OTHER -> IF 10 * o.success > 8 * total \/ total = 0 THEN Params(1, 2, 0, 0) ELSE NoParams
Either(a, b) == IF a # 0 THEN a ELSE b
merged_params(name) ==
  LET o == recommend_by_id(name) d == get(name).params IN
  [k \in DOMAIN d |-> Either(o[k], d[k])]

StartOverride(name) ==
  LET own == {i \in DOMAIN UserProfiles : UserProfiles[i].name = name /\ UserProfiles[i].enabled} IN
  IF own = {} THEN [set |-> FALSE, params |-> NoParams]
  ELSE [set |-> TRUE, params |-> UserProfiles[CHOOSE i \in own : \A j \in own : j <= i].params]

AtStart == [n \in Names |-> StartOverride(n)]
Plan(name, params) == [profile |-> name, params |-> params]
NoPlan == Plan("none", NoParams)

Actors == Connections \cup {"api"}
AdaptInit ==
  /\ Init
  /\ active = [c \in HotPath |-> get_default_for_category(c)]
  /\ override = AtStart
  /\ outcomes = [n \in Names |-> [success |-> 0, fail |-> 0]]
  /\ rsts = [t \in {TargetOf[c] : c \in Connections} |-> <<>>]
  /\ pc = [a \in Actors |-> "idle"]
  /\ plan = [a \in Actors |-> NoPlan]
  /\ copy = [a \in Actors |-> AtStart]
  /\ lock = "free"
  /\ tunes = 0
  /\ resets = [t \in {TargetOf[c] : c \in Connections} |-> <<>>] /\ peak = 0

\* A ClientHello is treated with the active profile and its parameters.
Booked == MapThenSumSet(LAMBDA n : outcomes[n].success + outcomes[n].fail, Names)
OpenTreated(c) ==
  /\ pc[c] = "idle" /\ Booked < OutcomeBound /\ Open(c)
  /\ plan' = [plan EXCEPT ![c] = Plan(active["Tls"], NoParams)]
  /\ UNCHANGED <<active, override, outcomes, rsts, pc, copy, lock, tunes, resets, peak>>

\* The outcome of a connection: a success ends there, a failure goes on.
record_outcome(c, result) ==
  outcomes' = [outcomes EXCEPT ![plan[c].profile][result] = @ + 1]
Succeed(c) ==
  /\ pc[c] = "idle" /\ lock = "free"
  /\ record_success(c) /\ record_outcome(c, "success")
  /\ plan' = [plan EXCEPT ![c] = NoPlan]
  /\ UNCHANGED <<active, override, rsts, pc, copy, lock, tunes, resets, peak>>
Fail(c) ==
  /\ pc[c] = "idle" /\ lock = "free"
  /\ record_failure(c) /\ record_outcome(c, "fail")
  /\ pc' = [pc EXCEPT ![c] = "failed"]
  /\ UNCHANGED <<active, override, rsts, plan, copy, lock, tunes, resets, peak>>

\* TargetEscalation::record_rst: the window is cut when an RST is added.  The RSTs are in
\* the order of their times, so the recent ones are the last.
WithinAll(ages) == ages \* variant: it never is
Recent(ages) == Cardinality({i \in DOMAIN ages : ages[i] < RstWindow})
Within(ages) == [i \in 1 .. Recent(ages) |-> ages[Len(ages) - Recent(ages) + i]]
RecordRst(c) ==
  LET t == TargetOf[c] IN
  /\ pc[c] = "failed"
  /\ rsts' = [rsts EXCEPT ![t] = Within(Append(@, 0))]
  /\ resets' = [resets EXCEPT ![t] = Append(@, 0)]
  /\ peak' = IF Recent(resets'[t]) > peak THEN Recent(resets'[t]) ELSE peak
  /\ pc' = [pc EXCEPT ![c] = "booked"]
  /\ UNCHANGED <<vars, active, override, outcomes, plan, copy, lock, tunes>>

should_escalate(c) == Len(rsts[TargetOf[c]]) >= RstThreshold
Aggressive == Params(0, 0, 2, 0)

\* apply_strategy_tune, first half: the active profile of a hot-path category.
StoreActive(name) ==
  active' = IF get(name).category \in HotPath
            THEN [active EXCEPT ![get(name).category] = name] ELSE active

\* The guard of current() lives to the end of the if-let, so the chain stays
\* locked until the override is stored.
HoldsNoLock(c) == lock \* variant: it is released before
HoldsLock(c) == c

Choose(c) ==
  /\ pc[c] = "booked" /\ lock = "free"
  /\ Chosen # "none"
  /\ lock' = HoldsLock(c)
  /\ plan' = [plan EXCEPT ![c] = Plan(Chosen, IF should_escalate(c) THEN Aggressive ELSE NoParams)]
  /\ pc' = [pc EXCEPT ![c] = "chosen"]
  /\ UNCHANGED <<vars, active, override, outcomes, rsts, copy, tunes, resets, peak>>
ChooseNothing(c) ==
  /\ pc[c] = "booked" /\ lock = "free"
  /\ Chosen = "none"
  /\ pc' = [pc EXCEPT ![c] = "idle"] /\ plan' = [plan EXCEPT ![c] = NoPlan]
  /\ UNCHANGED <<vars, active, override, outcomes, rsts, copy, lock, tunes, resets, peak>>

\* POST /strategy/tune; a profile that is not registered is refused.
TuneRequest ==
  /\ pc["api"] = "idle" /\ tunes < TuneBound
  /\ tunes' = tunes + 1
  /\ \E r \in Requests :
       IF r.profile \in Names
       THEN plan' = [plan EXCEPT !["api"] = r] /\ pc' = [pc EXCEPT !["api"] = "chosen"]
       ELSE UNCHANGED <<plan, pc>>
  /\ UNCHANGED <<vars, active, override, outcomes, rsts, copy, lock, resets, peak>>

\* apply_strategy_tune, and in it set_override: load and clone, then store.
Activate(a) ==
  /\ pc[a] = "chosen"
  /\ StoreActive(plan[a].profile)
  /\ pc' = [pc EXCEPT ![a] = "stored"]
  /\ UNCHANGED <<vars, override, outcomes, rsts, plan, copy, lock, tunes, resets, peak>>
LoadOverrides(a) ==
  /\ pc[a] = "stored"
  /\ copy' = [copy EXCEPT ![a] = override]
  /\ pc' = [pc EXCEPT ![a] = "loaded"]
  /\ UNCHANGED <<vars, active, override, outcomes, rsts, plan, lock, tunes, resets, peak>>
StoreOverrides(a) ==
  /\ pc[a] = "loaded"
  /\ override' = [copy[a] EXCEPT ![plan[a].profile] = [set |-> TRUE, params |-> plan[a].params]]
  /\ copy' = [copy EXCEPT ![a] = AtStart] /\ plan' = [plan EXCEPT ![a] = NoPlan]
  /\ lock' = IF lock = a THEN "free" ELSE lock
  /\ pc' = [pc EXCEPT ![a] = "idle"]
  /\ UNCHANGED <<vars, active, outcomes, rsts, tunes, resets, peak>>

Older(ages) == [i \in DOMAIN ages |-> IF ages[i] < RstWindow THEN ages[i] + 1 ELSE ages[i]]
AdaptTick ==
  /\ Tick
  /\ rsts' = [t \in DOMAIN rsts |-> Older(rsts[t])]
  /\ resets' = [t \in DOMAIN resets |-> Older(resets[t])]
  /\ UNCHANGED <<active, override, outcomes, pc, plan, copy, lock, tunes, peak>>

AdaptNext ==
  \/ AdaptTick \/ TuneRequest
  \/ \E c \in Connections : \/ OpenTreated(c) \/ Succeed(c) \/ Fail(c) \/ RecordRst(c)
                            \/ Choose(c) \/ ChooseNothing(c)
  \/ \E a \in Actors : Activate(a) \/ LoadOverrides(a) \/ StoreOverrides(a)

AdaptSpec == AdaptInit /\ [][AdaptNext]_allVars

-----------------------------------------------------------------------------
Quiet == \A a \in Actors : pc[a] = "idle"
Failed == \E n \in Names : outcomes[n].fail > 0

\* Whatever the order of the workers, once all of them are done the profile of
\* the chain's technique is active and has an override, if nobody else tunes:
\* no update of the chain, the profile or the overrides is lost or overtaken
\* (observe_connection_outcome, the extent of the chain's lock).
QuietProfileFollowsChain ==
  (Quiet /\ tunes = 0 /\ Failed /\ Chosen # "none") =>
     /\ override[Chosen].set
     /\ (get(Chosen).category \in HotPath => active[get(Chosen).category] = Chosen)

\* Parameters are made more aggressive only after RstThreshold resets of one
\* target within one window (target_escalate.rs, should_escalate).
EscalationIsEarned ==
  \A n \in Names : override[n].params = Aggressive => peak >= RstThreshold

(* Properties the code does not have. *)

\* "AutoTune: low success: aggressive split": a profile that fails more often than
\* not is applied with the aggressive parameters.
FailingGetsAggressive ==
  \A n \in Names : outcomes[n].success < outcomes[n].fail => merged_params(n).split_count = 5

\* A switch of the chain changes the profile connections are treated with.
SwitchChangesProfile ==
  [][current' # current => find_by_technique(Techniques[current' + 1]) # Chosen]_allVars

\* What the user has set stays until the user changes it.
UserChoiceStays ==
  [][\A c \in Connections :
       pc[c] = "chosen" /\ pc'[c] = "stored" /\ tunes > 0 /\ pc["api"] = "idle"
       => active' = active]_allVars

\* What the API has been told is applied is not taken back by another thread.
TuneIsNotLost == [][\A n \in Names : override[n].set => override'[n].set]_allVars
=============================================================================
