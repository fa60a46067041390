SPECIFICATION PartSpec
CONSTANTS
    Parts = {"startup"}
    Workers = {w1, w2}
    Connections = {c1, c2}
    NoThread = NoThread
    NoConn = NoConn
    Exports = {E1, E2}
    NoExport = NoExport
    Models = {0, 1}
    MAX_NR_OPTIONS = 4
    MaxListed = 2
    Outermost = 3
    Top = 2
    CommandLines <- MCLines
    Clients = {"c1"}
PROPERTY SignalExits
CHECK_DEADLOCK FALSE
