\* Three elements, every cabling of them with three edges, one exporting client.
CONSTANTS
  a = a
  b = b
  c = c
  Ids = {a, b, c}
  Kinds = {"rack"}
  EdgeKinds = {"powers", "cools", "feeds"}
  Empty = Empty
  SpecFiles <- MCSpecFiles
  Registries <- MCRegistries
  NodeBodies <- MCNodeBodies
  EdgeBodies <- MCEdgeBodies
  AuthToken = Token
  NoToken = NoToken
  Clients = {viewer}
  MaxEdges = 3
SPECIFICATION Spec
INVARIANTS
  Mirrored
  QueriesMatchGraph
  OnlyLateEdgesDangle
PROPERTY
  ChainsOnlyGrow
\* A spec file with a dangling edge ends the process.
CHECK_DEADLOCK FALSE
