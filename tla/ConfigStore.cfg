SPECIFICATION FairSpec
CONSTANTS
    Touched <- MCTouched
    Texts <- MCTexts
    Lines <- MCLines
    Flashes <- MCFlashes
    Writes = 3
    ByteRange = 256
    WordRange = 1073741824
    LineBuffer = 128
INVARIANTS
    Inv
PROPERTIES
    StoreSpec
    AnswerHonest
    CredentialsApply
CHECK_DEADLOCK FALSE
