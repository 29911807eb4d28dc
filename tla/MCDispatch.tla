---------------------------- MODULE MCDispatch ----------------------------
EXTENDS Dispatch

MCFlow(app, head, region, family, fake, opera) ==
  [app |-> app, head |-> head, region |-> region, family |-> family,
   fake |-> fake, opera |-> opera]

\* One flow of each kind the stages tell apart.
MCFlows == {
  MCFlow("tls", "whole", "Global", 4, FALSE, FALSE),
  MCFlow("tls", "short", "Global", 4, FALSE, FALSE),
  MCFlow("tls", "long", "Russia", 4, FALSE, FALSE),
  MCFlow("tls", "whole", "Europe", 4, FALSE, FALSE),
  MCFlow("tls", "whole", "UnitedStates", 6, FALSE, FALSE),
  MCFlow("tls", "whole", "UnitedStates", 4, TRUE, FALSE),
  MCFlow("http", "none", "Europe", 4, FALSE, FALSE),
  MCFlow("other", "none", "Europe", 4, FALSE, TRUE),
  MCFlow("other", "none", "Russia", 4, FALSE, FALSE),
  MCFlow("quic", "none", "Global", 4, FALSE, FALSE),
  MCFlow("quic", "none", "UnitedStates", 4, FALSE, FALSE),
  MCFlow("dns", "none", "Global", 4, FALSE, FALSE) }

\* A quiet engine, and one change to it at a time.
MCQuiet == [breaker |-> "Closed", poor |-> FALSE, slow |-> FALSE, mapped |-> TRUE,
            excluded |-> FALSE, cached |-> "", bad |-> FALSE, proxies |-> TRUE, awg |-> "off",
            active |-> {}, room |-> TRUE, effect |-> TRUE,
            split |-> "WhitelistOnly", on |-> {}]
MCSurroundings == {MCQuiet,
  [MCQuiet EXCEPT !.breaker = "Open"], [MCQuiet EXCEPT !.breaker = "HalfOpen"],
  [MCQuiet EXCEPT !.poor = TRUE, !.awg = "on"],
  [MCQuiet EXCEPT !.slow = TRUE], [MCQuiet EXCEPT !.mapped = FALSE],
  [MCQuiet EXCEPT !.excluded = TRUE], [MCQuiet EXCEPT !.bad = TRUE],
  [MCQuiet EXCEPT !.cached = "Global", !.active = {"socks5_fallback"}],
  [MCQuiet EXCEPT !.cached = "Europe", !.active = {"socks5_fallback"}],
  [MCQuiet EXCEPT !.active = {"tcp_mss_clamp", "dns_doh"}, !.proxies = FALSE],
  [MCQuiet EXCEPT !.room = FALSE, !.effect = FALSE],
  [MCQuiet EXCEPT !.split = "BlacklistOnly"],
  [MCQuiet EXCEPT !.split = "BlacklistOnly", !.on = {"blacklist_ips"}],
  [MCQuiet EXCEPT !.on = {"whitelist_domains"}]}
============================================================================
