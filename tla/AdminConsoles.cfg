\* Two consoles on one database.
CONSTANTS
  Consoles = {c1, c2}
  Paths = {p1, p2}
  Actions = {open, write}
  MaxProgram = 2
  MaxPolicy = 2
SYMMETRY ConsoleSymmetry
SPECIFICATION Spec
INVARIANTS TypeOK RulesHaveProgram OneBootstrapper
PROPERTY RemovedStaysRemoved
