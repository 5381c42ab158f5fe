CONSTANTS
    Files = {f}
    Folder = g
    Inside = {f}
    Calls = {c1, c2}
    Kinds = {"softDelete", "restore", "purge", "star", "unstar"}
    Apart = {{"softDelete", "unstar"}}
    None = None
    Idle = Idle
    Forsaken = Forsaken
    MaxEvents = 1
SYMMETRY Symmetry
SPECIFICATION Spec
INVARIANTS AnswersItsQuestion CatchesUp DetailIsFreed CallsCanGoOn
PROPERTY NoticeIsTrue
CHECK_DEADLOCK FALSE
