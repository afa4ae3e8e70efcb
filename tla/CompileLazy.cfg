SPECIFICATION Spec
CONSTANTS
    Texts <- MCLazyTexts
    MathChars <- MCMathChars
    Garbage <- MCGarbage
INVARIANTS ShortCircuits
