\* Two places, four characters: a premium one, one of the staff, one who gives up.
SPECIFICATION WaitSpec
CONSTANTS
    Clients = {p, s, q, c}
    Premium = {p}
    Staff = {s}
    Quitters = {q}
    MaxPlayers = 2
PROPERTY ExpiredLeave
