SPECIFICATION Spec
CONSTANTS
    MinLen = 2
    MaxLen = 3
    Alphabet = {1, 2}
    MetaLen = 1
    Parts = {1, 2}
    Corpora <- MCCorpora
    PartOf <- MCPartOf
    Questions <- MCQuestions
INVARIANTS
    ScanIsTheRule
    LoadsWhatWasWritten
    AnswersMembership
CHECK_DEADLOCK FALSE
