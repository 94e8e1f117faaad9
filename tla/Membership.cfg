SPECIFICATION FairSpec
CONSTANTS
  ann = ann
  bob = bob
  Users = {ann, bob}
  Founder = ann
  Sessions = {s1, s2}
  Roles = {"OWNER", "ADMIN"}
  Changes <- MemberChanges
  MaxRequests = 4
INVARIANTS
  OwnerRemains
PROPERTIES
  ChangesAreAuthorized
  RequestsEnd
CHECK_DEADLOCK FALSE
