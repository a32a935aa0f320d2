CONSTANTS
  Panels = {a}
  Sessions = {s}
  NoSession = NoSession
  Listening = {"connection_registered", "process_killed", "process_started", "server_shutdown", "server_timeout"}
  MaxInputs = 3
SPECIFICATION ClientSpec
CHECK_DEADLOCK FALSE
PROPERTY WaitEndsByItsAnswer
