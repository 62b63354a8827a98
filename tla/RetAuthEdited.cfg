\* One process that asks, two programs and two rules that come and go.
CONSTANTS
  Paths <- MCPaths
  Exes <- MCExes
  Misread <- MCMisread
  AskedActions <- MCAskedActions
  Actions = {"open"}
  MaxProgram = 2
  MaxPolicy = 2
  MaxConns = 2
SPECIFICATION FairSpec
INVARIANTS TypeOK AnswerOfOneMoment
PROPERTY AuthReturns
