SPECIFICATION Spec
CONSTANTS
    NoSql = NoSql
    OutOfScope = OutOfScope
    Statements <- MCStatements
    RowCap = 2
    MaxAttempts = 3
    OpcodeBudget = 4
    ProgressStep = 2
INVARIANT TypeOK
INVARIANT AnswersAreGrounded
INVARIANT FailsClosed
INVARIANT ToldOfTheLastError
INVARIANT ConnectionReleased
INVARIANT BudgetIsKept
CHECK_DEADLOCK FALSE
