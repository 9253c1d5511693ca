\* All schemes, both actions; two or three pseudofermion fields.  The tables are
\* shorter than the program's 10 and 24, so that both are seen to overflow.
CONSTANTS
  INT_ALG <- AllSchemes
  HMC = TRUE
  FermionActions = {TRUE, FALSE}
  RatFuncs <- Fields2And3
  Params <- AllParams
  MAX_N_PSEUDO = 3
  MAX_NAIK = 4
  MaxSets = 2
SPECIFICATION Spec
CHECK_DEADLOCK FALSE
INVARIANTS LinksCurrent PhasesKept Integrates FactorsFit
PROPERTY RefinesMarkovChain
