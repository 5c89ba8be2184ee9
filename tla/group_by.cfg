CONSTANTS
    Jobs <- MCJobs
    Files <- MCFiles
SPECIFICATION Spec
INVARIANTS
    ReferencesCorrespond
    RejectedIffIllegal
    AnswerIsRight
    TypesAgree
