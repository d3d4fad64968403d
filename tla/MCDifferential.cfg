SPECIFICATION DiffSpec
CONSTANTS
    Script <- MCScript
    Attempts = 3
INVARIANTS
    VerdictIsRight
    ParserKeepsPromise
PROPERTY ProgramEnds
