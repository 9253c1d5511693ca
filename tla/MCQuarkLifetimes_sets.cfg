\* With and without CLOV_LEAN: every input set of a few quarks and pairs, and
\* chains of quarks.  A program that has broken off does nothing more.
CONSTANTS
  NumProp = 2
  Builds <- MCBuilds
  MAX_HISTORY = 16
SPECIFICATION Spec
INVARIANTS  HoldsFew TwistOfAncestor
CHECK_DEADLOCK FALSE
