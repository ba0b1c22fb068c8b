\* Two tabs of a browser, two requests on their way at once, two sign-ins
\* and one restart of the console.
CONSTANTS
    Tabs = {t1, t2}
    Slots = {s1, s2}
    ann = ann
    ben = ben
    nobody = nobody
    search = search
    Users = {ann, ben, nobody}
    Known = {ann, ben}
    Names = {search}
    Titles = {x, y}
    GrantSets <- MCGrantSets
    EditorsCreate = TRUE
    MaxSessions = 2
    MaxRestarts = 1
SYMMETRY Symmetry
SPECIFICATION Spec
INVARIANT TypeOK
INVARIANT ActsAsShown
INVARIANT RegistryLogIsTrue
