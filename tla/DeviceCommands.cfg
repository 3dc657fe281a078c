CONSTANTS
    Keys = {k1, k2}
    Commands = {write, launch, git}
    Transactions = {write}
    NoCommand = NoCommand
    NoKey = NoKey
SPECIFICATION Spec
SYMMETRY KeysAreAlike
INVARIANTS CommandInv AnswersAgree OutboxTellsReceipts
PROPERTIES KeepsPromise
