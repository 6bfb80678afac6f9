SPECIFICATION Spec
CONSTANTS
  Handlers = {h1, h2}
  SigningKeys = {k1}
  RefreshInterval = 2
  FetchTimeout = 1
  Users = {"alice", "gateway"}
  Admins = {"alice"}
SYMMETRY HandlerSymmetry
INVARIANTS KeysCurrent OwnOnly StatusTrue
