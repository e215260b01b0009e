\* The event stream of two sessions; two builders and two builds; a child that may write one
\* byte too many; sorts of up to four elements, and sorts of up to three that a nested sort,
\* a change, an error or a thrown value interrupts; two entries with frames of two sizes.
CONSTANTS
    Sessions = {1, 2}
    Ids = {8}
    Handles = {4}
    Limit = 9
    LastToken = 3
    Builders = {b1, b2}
    Builds = {x, y}
    Nothing = Nothing
    OutputLimit = 1
    Deadlines = {TRUE, FALSE}
    outer = outer
    inner = inner
    Vectors = {outer, inner}
    Keys = {1, 2, 3}
    Games <- AloneAndInterrupted
    MaxLength = 3
    LongestAlone = 4
    Natives = {"zfn0", "zsp0"}
    General = {"zfn0"}
    Wrapper = "zeb_stack_candidate"
    Labels = {"entry", "otherwise", "admit", "exhausted", "invoke", "callerr", "callok"}
    Registers = {"version", "small", "remaining", "result", "bad"}
    Modules <- Emissions
    Initial <- FirstTables
    Sizes = {8, 9}
    Floors = {0, 16}
    Targets = {"MacX86_64", "MacArm64", "LinuxX86_64"}
    Budgets = {15, 48}
    WordSize = 128
SPECIFICATION PartsSpec
INVARIANTS
    EntriesWhole
    ChildSettled
    NeverFails
    Matched
    SortedWhenDone
    StackHolds
    RegexAgrees
    GrammarAgrees
    ParserAgrees
    TextAgrees
PROPERTIES
    ImplementsLog
    Answered
    SortsEnd
CHECK_DEADLOCK FALSE
