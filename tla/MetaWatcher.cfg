SPECIFICATION FairSpec
CONSTANTS
    Names = {n1}
    Users = {u1, u2}
    NoUser = NoUser
    MaxVersions = 2
    MaxRestarts = 1
INVARIANTS TypeOK EventsTellCache
PROPERTIES Settles
