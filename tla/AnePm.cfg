SPECIFICATION PmFairSpec
CONSTANTS
  Clients = {c1, c2, c3}
INVARIANTS PmTypeOK BodyPowered CountSettles
PROPERTIES IdleSuspends
