SPECIFICATION Spec
CONSTANTS
  r1 = r1
  r2 = r2
  v1 = v1
  v2 = v2
  Spellings <- MCSpellings
  Canonical <- MCCanonical
  Registrations = {r1, r2}
  Visitors = {v1, v2}
  MaxAttempts = 1
  MailAttempts = 2
  Faults = {"db", "redis", "smtp", "crash"}
  MaxFaults = 2
INVARIANTS
  TypeOK
  OneRegistrationPerAddress
  GuessesBounded
  MailedCodeWorks
  ShutOutForAReason
PROPERTY MailSettles
CHECK_DEADLOCK FALSE
