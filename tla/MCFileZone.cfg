SPECIFICATION Spec
CONSTANTS
    Nil = Nil
    Origin <- MCOrigin
    Files <- MCFiles
    LoadedSerials <- MCLoadedSerials
    QNames <- MCQNames
    QTypes <- MCQTypes
    Resolvable <- MCResolvable
    Text <- MCText
    Octets <- MCOctets
INVARIANTS TypeOK TreeBalanced ReferralIsRight AnswersFromFile NameErrorIsRight DenialCovers ChainFollows
