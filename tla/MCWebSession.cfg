CONSTANTS
    Users = {ua, adm}
    Admins = {adm}
    MaxTokens = 2
    MaxPending = 1
    Opened = {"folder","profile"}
    None = None
    Denied = Denied
    Idle = Idle
    Paused = Paused
SPECIFICATION FairSpec
INVARIANTS TypeOK TokenIsStored ShownIsOwn
PROPERTY Settles
