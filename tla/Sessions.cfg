\* Two runs of the client on one session, two users, two devices.
SPECIFICATION Spec
CONSTANTS
    p1 = p1
    p2 = p2
    u1 = u1
    u2 = u2
    dev1 = dev1
    dev2 = dev2
    Runs = {p1, p2}
    Users = {u1, u2}
    Names = {"12030000"}
    Devices = {dev1, dev2}
    NoDevice = NoDevice
    NoUser = NoUser
    NoName = NoName
    Absent = Absent
    Empty = Empty
    Torn = Torn
    MaxTokens = 2
SYMMETRY MCSymmetry
INVARIANTS
    SessionsTypeOK
    DeviceIsUsers
    UnreadableByAccident
