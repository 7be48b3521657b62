\* The mock bank with two clients, three and two messages, and a restart.
SPECIFICATION Spec
CONSTANTS
    c1 = c1
    c2 = c2
    Clients <- MCClients
    Umlauts <- MCUmlauts
    Openings <- MCOpenings
    Unassigned = Unassigned
    None = None
    MaxMessages <- MCMaxMessages
    MaxRestarts = 1
INVARIANTS
    MockTypeOK
    NoSharedDialog
    NoSharedSystem
    CountsAgree
PROPERTIES
    EveryoneIsAnswered
\* The clients stop at their bound.
CHECK_DEADLOCK FALSE
