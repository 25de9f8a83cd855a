SPECIFICATION LiveSpec
CONSTANTS
  Inst = {i1}
  Nobody = Nobody
  Anchor = Anchor
  QueueSize = 1
  Uses = {"reinit", "reinit error", "turnoff", "realtime section"}
INVARIANTS PassesExclusive HandoffOnce
PROPERTIES RequestHonoured
