SPECIFICATION Spec
CONSTANTS
  Scale = 100
  MaxStateTurns = 3
  Revisions <- MCRevisions
  Turns <- MCTurns
  Sayings <- MCSayings
  Legacy <- MCLegacy
INVARIANTS
  ProofsHold
  ReaskedOnce
  SealsWhatItReads
PROPERTY ScopeStays
