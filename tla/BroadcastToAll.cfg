SPECIFICATION Spec
CONSTANTS
  Clients = {c1, c2, c3}
  Senders = {s1, s2}
INVARIANTS
  EveryoneIsServed
