\* 3 attempts of 3 posts; 7 configurations, 3 requests, 5 answers.
SPECIFICATION Spec
CONSTANTS
    Settings <- MCSettings
    Requests <- MCRequests
    Answers <- MCAnswers
    Contexts <- MCContexts
    ChunkKeywords = {"lock"}
    MaxRetries = 2
    RecursionLimit = 31
    PromptChars = 8
    CorrectionChars = 3
    AnswerChars = 4
    Blank = ""
INVARIANTS
    InductiveInv
    GatesHold
    RunnersAgree
