SPECIFICATION Spec
CONSTANTS
    a = a
    r1 = r1
    r2 = r2
    l1 = l1
    Users = {a, r1, r2}
    Local = {a}
    Links = {l1}
    From <- OneLink
    UINT = 6
    Channels = {"c1", "c2"}
    MaxChannels = 1
    Unlimited = {}
    Registered = {"c2"}
SYMMETRY RemoteSymmetry
INVARIANTS
    TypeOK
    UsersExact
    NoDanglingMember
    InvitesMirror
    LocalNeverZombie
    NoZombieOnlyChannel
PROPERTIES
    ZombieRemovalKeepsChannel
