------------------------------ MODULE Settings ------------------------------
(***************************************************************************)
(* What the running service learns and is told about routing               *)
(* (src/service/src/main.rs): the user's domains of the GeoRouter, the     *)
(* watcher of the domains file, the probing of three candidates after the  *)
(* start, the edits made through the API, and the proxy settings, which    *)
(* an API request puts into the redirector and then into config.toml.      *)
(*                                                                         *)
(* The domains file and its editor are external: an edit replaces the text *)
(* and the modification time at once, and times differ.  A save truncates  *)
(* config.toml before it writes; every field of Config has a default, so   *)
(* an empty file reads as a file of defaults.  Domains not told apart by   *)
(* the properties are one model value; what a listed domain does to        *)
(* traffic is the routing's.                                               *)
(***************************************************************************)
EXTENDS Probe

CONSTANTS Candidate,    \* the domain the service probes
          Others,       \* other domains of the file or of the API
          ConfigDomains, \* proxy_domains of config.toml
          Proxies,      \* settings the user may give the proxy; "default" is the file's
          Registered,   \* strategy ids that ProcessingPipeline knows
          EditBound,    \* bound: edits of the domains file
          ApiBound,     \* bound: domains the API adds or removes
          Requests,     \* proxy requests
          MayMiss       \* TRUE iff the file may be missing or unreadable at times

ASSUME SettingsAssumption ==
  /\ ConfigDomains \subseteq Others /\ Candidate \notin Others
  /\ Registered \subseteq Nat /\ EditBound \in Nat /\ ApiBound \in Nat
  /\ MayMiss \in BOOLEAN

VARIABLES
  listed,     \* GeoRouter::user_domains
  file,       \* the domains file: its text and its modification time
  watcher,    \* the watcher: where it is, the time it has seen, the text it has read, and,
              \* as history, whether it failed to read the file
  loaded,     \* history: the time of the text that was read last
  apiEdits,   \* changes made through the API
  applied,    \* strategy ids applied by the probe
  configFile, \* config.toml: the user's other settings, and the proxy's
  redirector, \* SocksRedirector::custom_proxy
  handler     \* each proxy request: where it is, and the configuration it has loaded

listVars == <<listed, file, watcher, loaded, apiEdits>>
proxyVars == <<configFile, redirector, handler>>
settingsVars == <<probeVars, listVars, applied, proxyVars>>

Domains == Others \cup {Candidate}
Defaults == [own |-> "default", proxy |-> "default"]
Truncated == [own |-> "none", proxy |-> "none"]

\* init_pipeline has put the domains of the configuration and of the file on the list;
\* the watcher has yet to note the file's time.
SettingsInit ==
  /\ ProbeInit
  /\ \E text \in SUBSET Others :
       /\ file = [text |-> text, time |-> 0, there |-> TRUE]
       /\ listed = ConfigDomains \cup text
  /\ watcher = [at |-> "start", seen |-> -1, text |-> {}, failed |-> FALSE]
  /\ loaded = 0 /\ apiEdits = 0
  /\ applied = <<>>
  /\ configFile = [own |-> "user", proxy |-> "default"]
  /\ redirector = "default"
  /\ handler = [q \in Requests |-> [at |-> "idle", proxy |-> "default", config |-> Defaults]]

-----------------------------------------------------------------------------
(* The domains file and its watcher.                                       *)

EditFile ==
  /\ file.time < EditBound
  /\ \E text \in SUBSET Others : file' = [text |-> text, time |-> file.time + 1,
                                          there |-> TRUE]
  /\ UNCHANGED <<probeVars, listed, watcher, loaded, apiEdits, applied, proxyVars>>

\* The editor removes the file before it writes the new one.
RemoveFile ==
  /\ MayMiss /\ file.there
  /\ file' = [file EXCEPT !.there = FALSE]
  /\ UNCHANGED <<probeVars, listed, watcher, loaded, apiEdits, applied, proxyVars>>

Watch(next) ==
  /\ watcher' = next
  /\ UNCHANGED <<probeVars, file, apiEdits, applied, proxyVars>>

WatcherStart ==
  /\ watcher.at = "start"
  /\ Watch([watcher EXCEPT !.at = "tick",
                           !.seen = IF file.there THEN file.time ELSE -1])
  /\ UNCHANGED <<listed, loaded>>

\* The time is noted before the text is read: a later edit is seen at the next tick.
WatcherTick ==
  /\ watcher.at = "tick" /\ file.there /\ file.time # watcher.seen
  /\ Watch([watcher EXCEPT !.at = "read", !.seen = file.time])
  /\ UNCHANGED <<listed, loaded>>

\* A file that is gone by now reads as an empty list; one that cannot be read is left.
WatcherRead ==
  /\ watcher.at = "read"
  /\ \/ /\ Watch([watcher EXCEPT !.at = "clear",
                                 !.text = IF file.there THEN file.text ELSE {}])
        /\ loaded' = IF file.there THEN file.time ELSE loaded
     \/ MayMiss /\ Watch([watcher EXCEPT !.at = "tick", !.failed = TRUE]) /\ loaded' = loaded
  /\ UNCHANGED listed

ReloadingNotesTime == [watcher EXCEPT !.at = "fill", !.seen = file.time]  \* variant: again
Reloading == [watcher EXCEPT !.at = "fill"]

\* reload_user_domains: the list is emptied and then filled.
ReloadClear ==
  /\ watcher.at = "clear"
  /\ Watch(Reloading)
  /\ listed' = {}
  /\ UNCHANGED loaded

ReloadFill ==
  /\ watcher.at = "fill"
  /\ Watch([watcher EXCEPT !.at = "tick", !.text = {}])
  /\ listed' = listed \cup watcher.text
  /\ UNCHANGED loaded

WatcherStep == WatcherStart \/ WatcherTick \/ WatcherRead \/ ReloadClear \/ ReloadFill

geoblock_edit ==
  /\ apiEdits < ApiBound /\ apiEdits' = apiEdits + 1
  /\ \E d \in Others : listed' = listed \cup {d} \/ (d \in listed /\ listed' = listed \ {d})
  /\ UNCHANGED <<probeVars, file, watcher, loaded, applied, proxyVars>>

-----------------------------------------------------------------------------
(* The probing of the candidates.                                          *)

Probing ==
  /\ ProbePhase \/ LinkChange
  /\ UNCHANGED <<listVars, applied, proxyVars>>

\* Only a verdict of Blocked has consequences: the domain is listed and the first
\* recommendation is applied, unless the pipeline does not know its id.
Conclude ==
  /\ stage = "decide"
  /\ LET verdict == decide_verdict(report)
         advice == recommend(report)
     IN /\ listed' = IF verdict = "Blocked" THEN listed \cup {Candidate} ELSE listed
        /\ applied' = IF verdict = "Blocked" /\ advice # <<>> /\ Head(advice) \in Registered
                      THEN Append(applied, Head(advice)) ELSE applied
  /\ rounds' = rounds + 1 /\ stage' = "sleep" /\ changes' = 0 /\ report' = NoReport
  /\ UNCHANGED <<net, file, watcher, loaded, apiEdits, proxyVars>>

-----------------------------------------------------------------------------
(* geoblock_update_proxy.                                                  *)

Handle(q, next) ==
  /\ handler' = [handler EXCEPT ![q] = next]
  /\ UNCHANGED <<probeVars, listVars, applied>>

update_custom_proxy(q) ==
  /\ handler[q].at = "idle"
  /\ \E p \in Proxies :
       /\ redirector' = p
       /\ Handle(q, [handler[q] EXCEPT !.at = "load", !.proxy = p])
  /\ UNCHANGED configFile

\* An empty file is a valid one, in which every setting is left to its default.
load_config(q) ==
  /\ handler[q].at = "load"
  /\ Handle(q, [handler[q] EXCEPT
       !.at = "truncate",
       !.config = [own |-> IF configFile = Truncated THEN "default" ELSE configFile.own,
                   proxy |-> handler[q].proxy]])
  /\ UNCHANGED <<configFile, redirector>>

save_truncate(q) ==
  /\ handler[q].at = "truncate"
  /\ configFile' = Truncated
  /\ Handle(q, [handler[q] EXCEPT !.at = "write"])
  /\ UNCHANGED redirector

save_write(q) ==
  /\ handler[q].at = "write"
  /\ configFile' = handler[q].config
  /\ Handle(q, [handler[q] EXCEPT !.at = "done"])
  /\ UNCHANGED redirector

ProxyStep(q) == update_custom_proxy(q) \/ load_config(q) \/ save_truncate(q) \/ save_write(q)

-----------------------------------------------------------------------------
SettingsNext ==
  \/ EditFile \/ RemoveFile \/ WatcherStep \/ geoblock_edit \/ Probing \/ Conclude
  \/ \E q \in Requests : ProxyStep(q)

SettingsSpec == SettingsInit /\ [][SettingsNext]_settingsVars

\* The watcher is a task with a timer; nothing else in it waits.
FairSettings == SettingsSpec /\ WF_settingsVars(WatcherStep)

-----------------------------------------------------------------------------
(* Properties.                                                             *)

\* The site is one that would answer; its censor acts on what the probe sends, and
\* nothing else got through or went wrong meanwhile.
Censored ==
  /\ net.censor \notin {"none", "icmp"} /\ ~net.h3
  /\ net.link /\ changes = 0
  /\ net.site \notin {"legal", "closed", "missing", "alert"}

\* A censor that acts on the answer alone shows only if the request is answered.
Unseen == net.censor \in {"volume", "page"} /\ report.http = "Timeout"

\* What is censored is found: a candidate whose site a censor keeps from answering is on
\* the list once its probe has ended, whichever phase noticed, whatever was lost or late.
CensoredIsListed ==
  [][stage = "decide" /\ stage' = "sleep" /\ Censored /\ ~Unseen
     => (Candidate \in listed')]_settingsVars

\* "RST/garbage/timeout -> middlebox -> DPI": so is a censored site whose request gets no
\* answer.
UnansweredIsListed ==
  [][stage = "decide" /\ stage' = "sleep" /\ Censored => (Candidate \in listed')]_settingsVars

\* "Default: All ok -> Ambiguous": a site that passed every phase is not called blocked.
PassedIsAmbiguous ==
  /\ stage = "decide" /\ report.dns = "Ok" /\ report.tcp = "ConnectOk"
  /\ report.tls \in {"HandshakeOk", "Version13Ok"}
  /\ report.http \in {"Ok", "RedirectSame"} /\ report.quic = "NoBlocking"
  => decide_verdict(report) = "Ambiguous"

\* Only a censor's doing is called blocked.
BlockedIsTheCensors ==
  stage = "decide" /\ decide_verdict(report) = "Blocked" => net.censor # "none"

\* "Auto-probe applied strategy_id": the strategy that is logged as applied, the first the
\* map recommends against a blocked candidate, has been applied.
AdviceIsApplied ==
  [][(stage = "decide" /\ stage' = "sleep" /\ decide_verdict(report) = "Blocked"
        /\ recommend(report) # <<>>)
     => applied' = Append(applied, Head(recommend(report)))]_settingsVars

\* Every edit is read, or a later one is, or the file is gone: also one made while the
\* service starts, or one whose first reading fails.
EveryEditIsLoaded == \A e \in 1 .. EditBound : file.time = e ~> loaded >= e \/ ~file.there

\* A domain the probe found blocked stays listed until somebody removes it.
FoundStaysListed ==
  [][(Candidate \in listed) => (Candidate \in listed')]_settingsVars

\* A reload keeps what is on the old list and on the new one.
ListedStaysListed ==
  [][\A d \in ConfigDomains : d \in listed /\ d \in file.text /\ apiEdits = apiEdits'
                              => (d \in listed')]_settingsVars

AtRest == \A q \in Requests : handler[q].at \in {"idle", "done"}

\* When no request is under way, config.toml holds the proxy that the redirector uses.
ProxyIsSaved == AtRest => configFile.proxy = redirector

\* Setting the proxy leaves the user's other settings alone.
SettingsKept == AtRest => configFile.own = "user"
=============================================================================
