SPECIFICATION WSpec
CONSTANTS
    Directories <- MCDirectories
    Asked <- MCAsked
    Categories = {"None", "DoxyFunction", "Block"}
    MaxCalls = 2
    Operators = {"operator new"}
INVARIANTS
    AnswersAsEager
    OneObjectPerRefid
    EntriesComplete
    StopsForCause
