SPECIFICATION Spec
CONSTANTS
  Scale = 100
  MaxStateTurns = 4
  Revisions <- MCRevisions
  Turns <- MCTurns
  Sayings <- MCSayings
  Legacy <- MCLegacy
INVARIANT ExpansionAnswered
