\* One writer per endpoint, an active attacker; checks AcceptedFromPeer alone.
CONSTANTS
    Client = Client
    Server = Server
    Writers <- MC_OneWriter
    MaxWrites = 3
    MaxAdversary = 2
SPECIFICATION Spec
INVARIANT AcceptedFromPeer
CHECK_DEADLOCK FALSE
