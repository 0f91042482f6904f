SPECIFICATION FairSpec
CONSTANTS
  maxLoginAttempts = 2
  MaxCommands = 2
  MaxConnects = 2
  MaxInput = 2
  MaxNotices = 1
\* The process ends by SIGPIPE, a failed login, or after the last command.
CHECK_DEADLOCK FALSE
INVARIANT FailsOnlyAfterReconnect
