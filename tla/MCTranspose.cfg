CONSTANTS
  Cases <- MC_Cases
SPECIFICATION Spec
INVARIANT TypeOK IterationsWriteOwnBlock
