SPECIFICATION Spec
CONSTANTS
    Touched <- MCTouched
    Texts <- MCTexts
    Lines <- MCLines
    Flashes <- MCFlashes
    Writes = 1
    ByteRange = 256
    WordRange = 1073741824
    LineBuffer = 128
PROPERTY ConnectsInOrder
CHECK_DEADLOCK FALSE
