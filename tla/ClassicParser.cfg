CONSTANT Sources <- MCSources
SPECIFICATION Spec
INVARIANT StatementsMeant
PROPERTY Advances
CHECK_DEADLOCK FALSE
