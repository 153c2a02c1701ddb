SPECIFICATION Spec
CONSTANTS
  None = None
  Items = {1}
  Bodies = {1, 11, 12, 21}
  Unparseable = {1}
  Pairings = {hub, club}
  hub = hub
  club = club
  Workers = {daemon, cli}
  daemon = daemon
  cli = cli
  Regimes <- SafetyRegimes
  Stamp <- MCStamp
INVARIANTS
  BaseWasHeld
PROPERTIES
  ServerEditsSurvive
  LocalEditsSurvive
  BasesServe
