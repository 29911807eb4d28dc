CONSTANTS
  Flows <- MCFlows
  Surroundings <- MCSurroundings
  proxy_non_sni_blocked = TRUE
  HelloSize = 3
  MaxHello = 5
SPECIFICATION Spec
INVARIANTS
  GeoBlockedNeverDirect
  DesyncedOnce
  BookedWasTreated

