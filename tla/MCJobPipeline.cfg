\* A job ends.
CHECK_DEADLOCK FALSE
SPECIFICATION Spec
CONSTANT MayVanish <- AnyLocal
INVARIANTS NoLossyOutput WholeOrNothing ChainTellsTheTruth NeutralStep
