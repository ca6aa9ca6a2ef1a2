SPECIFICATION Spec
CONSTANTS
  anna = anna
  boris = boris
  clara = clara
  t1 = t1
  t2 = t2
  t3 = t3
  p1 = p1
  p2 = p2
  None = None
  Operators = {anna, boris, clara}
  Accounts <- MCAccounts
  Seats <- MCSeats
  Awaiting <- MCAwaiting
  Invitations <- MCInvitations
  Mixes <- MCMixes
  Tokens = {t1, t2, t3}
  Pendings = {p1, p2}
  Sessions = {s1}
  Requests = {r1, r2, r3}
  MaxSecrets = 2
SYMMETRY MCSymmetry
INVARIANTS TypeOK RevokedAreGone OwnedOnceOpen
PROPERTIES ImplementsAccess
