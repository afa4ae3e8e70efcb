SPECIFICATION Spec
CONSTANTS
    Texts <- MCTexts
    MathChars <- MCMathChars
    Garbage <- MCGarbage
INVARIANTS NamesResolve LiftingSound NoPanic CodeSound ResultIsMeaning
