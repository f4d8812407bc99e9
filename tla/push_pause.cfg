CONSTANTS
  n1 = n1
  n2 = n2
  u1 = u1
  u2 = u2
  t1 = t1
  t2 = t2
  Notifs = {n1, n2}
  Users = {u1, u2}
  Recipient <- MCRecipient
  Tokens = {t1, t2}
  MaxAttempts = 2
  Batch = 2
  MaxChanges = 3
  MaxAborts = 1
SPECIFICATION Spec
INVARIANT PauseAllRespected
CHECK_DEADLOCK FALSE
