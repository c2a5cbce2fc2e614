SPECIFICATION Spec
CONSTANTS
  s1 = s1
  s2 = s2
  m1 = m1
  m2 = m2
  Senders = {s1, s2}
  Owner = s1
  Cap = 10
  Msgs = {m1, m2}
  Payload <- MCPayload
  Tries <- MCTries
  AbortTries = 2
  MaxSends = 2
INVARIANTS
  TypeOK
  ReservationsTile
  FreeSpaceIsClear
PROPERTIES
  ImplementsChannel
  ReservedIsDelivered
