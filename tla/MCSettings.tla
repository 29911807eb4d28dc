---------------------------- MODULE MCSettings ----------------------------
(* One candidate whose site and path are any of those the probe tells apart, *)
(* on a network too fast to measure or at the pace of a distant site.        *)
EXTENDS Settings
CONSTANTS site, d1, d2

Instant == [udp |-> 0, doh |-> 0, tcp |-> 0, tls |-> 0, http |-> 0]
Distant == [udp |-> 20, doh |-> 60, tcp |-> 40, tls |-> 300, http |-> 120]
MCDurations == [instant |-> Instant, distant |-> Distant]

MCAllNetworks ==
  [site : Sites, censor : Censors, h3 : BOOLEAN, link : {TRUE}, pace : {"instant", "distant"}]
\* A censored site, whether or not the phases take long, and an uncensored one with a dead
\* address.
MCNetworks ==
  {n \in MCAllNetworks :
     /\ ~n.h3
     /\ \/ n.site = "plain" /\ n.censor # "none" /\ n.pace = "instant"
        \/ n.site = "plain" /\ n.censor \in {"drop", "volume", "page"} /\ n.pace = "distant"
        \/ n.site = "half" /\ n.censor = "none" /\ n.pace = "instant"}
\* A site whose answers nobody touches.
MCPlainNetworks == {n \in MCAllNetworks : n.censor = "none" /\ n.site = "plain"}
MCFastNetworks == {n \in MCAllNetworks : n.censor = "none" /\ n.pace = "instant"}
\* Those of StrategyProfileRegistry.
MCRegistered == {1, 2, 4, 6, 7, 8, 9, 15, 20, 30, 31, 35, 100}
MCNone == {}
============================================================================
