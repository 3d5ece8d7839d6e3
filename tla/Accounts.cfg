SPECIFICATION Spec
CONSTANTS
    p1 = p1
    p2 = p2
    r1 = r1
    r2 = r2
    Persons = {p1, p2}
    meier = meier
    Meier = Meier
    meiEr = meiEr
    Names = {meier, Meier, meiEr}
    BaseOf <- MCBaseOf
    FormOf <- MCFormOf
    Nummern = {1}
    Requests = {r1, r2}
    MaxCalls = 3
    MaxFailures = 1
SYMMETRY MCSymmetry
INVARIANTS
    AccountsAgree
PROPERTIES
    RenamesOwn
    ChangesWhatWasShown
CHECK_DEADLOCK FALSE
