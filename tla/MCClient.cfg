CONSTANTS
  Panels = {a, b}
  Sessions = {s, t}
  NoSession = NoSession
  Listening = {"process_killed", "server_shutdown", "server_timeout"}
  MaxInputs = 3
SPECIFICATION ClientFairSpec
CHECK_DEADLOCK FALSE
INVARIANT ClientTyped
INVARIANT RegistrationAgrees
INVARIANT SessionsComplete
PROPERTY NoFalseAlarm
PROPERTY SilenceIsReported
