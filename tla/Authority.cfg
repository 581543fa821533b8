CHECK_DEADLOCK FALSE
CONSTANTS
  None = None
  ann = ann
  bob = bob
  Users = {ann, bob}
  Profiled = {bob}
  Roles = {"Admin", "Maintainer", "Candidate"}
  Seed <- OneAdmin
  Requests = {r1, r2}
  MaxCommands = 3
SYMMETRY RequestSymmetry
SPECIFICATION Spec
INVARIANTS
  AdminsRemain
  RolesExclusive
  CacheFollowsPrimary
