CONSTANTS
    Inputs <- MCInputs
    Texts <- MCTexts
    MaxModelLen = 20
    PromptLen = 3
SPECIFICATION Spec
INVARIANTS
    IdsAreOwn
    AdmittedServable
    FinishesRight
    AnswersAgree
CHECK_DEADLOCK FALSE
