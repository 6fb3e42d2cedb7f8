CONSTANTS
    NoteValues <- MCNoteValues
    CommitValues <- MCCommitValues
    Blinds <- MCBlinds
    Torsion <- MCTorsion
    Balances <- MCBalances
    MinAmount <- MCMinAmount
    MaxCalls <- MCMaxCalls
    None = None

SPECIFICATION Spec

INVARIANT PrimeOrderWhileOk
