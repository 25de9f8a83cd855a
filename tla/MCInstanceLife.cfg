SPECIFICATION Spec
CONSTANTS
  Inst = {i1, i2}
  Nobody = Nobody
  Anchor = Anchor
  QueueSize = 1
  Uses = {"xtratim", "realtime section", "file", "async"}
SYMMETRY Symmetry
INVARIANTS OffOnce NoDangling FilesClosed
PROPERTIES ReuseSafe AllVisited
