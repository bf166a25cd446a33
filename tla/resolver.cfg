SPECIFICATION FairSpec
CONSTANTS
  Slots = 2
  None = None
  good = good
  bad = bad
  Names = {good, bad}
  Malformed = {bad}
  TickSpace = 4
  PortSpan = 2
  DnsBase = 11
  NtpBase = 12
  AppPort = 9
  DnsRetry = 2
  NtpRetry = 1
  MaxTries = 2
  MaxStarts = 2
INVARIANTS TypeOK EverySocketOwned PortsUnique MailIsAddressed AnswerIsOurs GivenBack
PROPERTY EndsOnceHeard
