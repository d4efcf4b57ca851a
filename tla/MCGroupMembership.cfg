SPECIFICATION Spec
CONSTANTS
  founder = founder
  ann = ann
  bob = bob
  thread1 = thread1
  thread2 = thread2
  Users <- MCUsers
  Founder <- founder
  Workers <- MCThreads
  MaxMembers = 2
  MaxUses = 1
  MaxIds = 3
SYMMETRY MCSymmetry
INVARIANTS TypeOK MembershipHolds
PROPERTIES InviteIsRespected
