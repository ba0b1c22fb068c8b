\* One tab and one request on its way at once are enough.
CONSTANTS
    Tabs = {t1}
    Slots = {s1}
    ann = ann
    ben = ben
    nobody = nobody
    search = search
    Users = {ann}
    Known = {ann}
    Names = {search}
    Titles = {x, y}
    GrantSets <- MCGrantSets
    EditorsCreate = TRUE
    MaxSessions = 1
    MaxRestarts = 0
SPECIFICATION Spec
PROPERTY EditTakesEffect
