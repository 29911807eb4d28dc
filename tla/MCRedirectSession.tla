-------------------------- MODULE MCRedirectSession --------------------------
(* Values for the small instances of RedirectSession: three connections, two *)
(* of which share a source port, or two connections on a port each.          *)
EXTENDS RedirectSession, TLC

CONSTANTS c1, c2, c3, p1, p2

Reused == c1 :> p1 @@ c2 :> p1 @@ c3 :> p2
OneEach == c1 :> p1 @@ c2 :> p2

Setting(custom, operaFallback, zeroConfig) ==
  {[custom |-> custom, operaFallback |-> operaFallback, zeroConfig |-> zeroConfig]}

OperaOnly == Setting(FALSE, FALSE, FALSE)
AnyConfig == Setting(FALSE, FALSE, TRUE) \cup Setting(TRUE, TRUE, FALSE)
             \cup Setting(TRUE, FALSE, TRUE)
=============================================================================
