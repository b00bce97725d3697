SPECIFICATION Spec
CONSTANT MaxPd = 3
INVARIANTS AllOrNothing CallbackSafe LinkHasDev ActiveMeansProgrammed
PROPERTIES ProbeReturns ReferenceDropped
