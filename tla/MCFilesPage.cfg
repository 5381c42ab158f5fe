CONSTANTS
    Folders = {d1}
    Files = {f1, f2}
    Root = Root
    Elsewhere = Elsewhere
    None = None
    Idle = Idle
    MaxEvents = 2
SYMMETRY Symmetry
SPECIFICATION Spec
INVARIANTS TypeOK ShowsWhatIs ClickedIsShown
