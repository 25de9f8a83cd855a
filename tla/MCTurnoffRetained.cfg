SPECIFICATION Spec
CONSTANTS
  Inst = {i1}
  Nobody = Nobody
  Anchor = Anchor
  QueueSize = 1
  Uses = {"reinit"}
PROPERTIES TurnoffRetained
