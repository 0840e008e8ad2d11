\* One client, two nodes: the type of a node changes under its children.
SPECIFICATION Spec
CONSTANTS
  Node = {a, b}
  Client = {c1}
  Kinds = {"category", "article"}
  Text = {t1}
  Operations = {"create", "update", "move", "delete", "restore"}
  NoNode = NoNode
  MaxVersions = 2
  MaxDepth = 50
  MaxRequests = 3
CHECK_DEADLOCK FALSE
INVARIANTS
  OnlyCategoriesNest
