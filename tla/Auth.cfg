SPECIFICATION Spec
CONSTANTS
  Unix = {TRUE, FALSE}
  SslModes = {"disabled", "preferred", "required"}
  Cleartext = {TRUE, FALSE}
  Passwords = {"", "p", "q"}
  Accounts = {"native", "sha2", "clear", "other"}
  Defaults = {"native", "sha2", "other", "none"}
  Peers = {"conforming", "any"}
  Faults = {"timeout", "close", "connect", "tls"}
INVARIANTS
  TypeOK
  PasswordProtected
  WipedAfterUse
  RightPasswordConnects
  BothCountAlike
PROPERTIES
  ConnectEnds
CHECK_DEADLOCK FALSE
