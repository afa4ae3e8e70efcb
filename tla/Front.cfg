SPECIFICATION Spec
CONSTANTS
    Texts <- MCTexts
    Lines <- MCLines
    MathChars <- MCMathChars
    Garbage <- MCGarbage
INVARIANTS NothingLost LongestMatch PrecedenceIsTable UnparseReads ImportsFound
