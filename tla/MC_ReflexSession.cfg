\* The session with one writer per endpoint and an active attacker.
CONSTANTS
    Client = Client
    Server = Server
    Writers <- MC_OneWriter
    MaxWrites = 3
    MaxAdversary = 2
SPECIFICATION Spec
PROPERTIES AuthChannelRefined NonceSealedOnce
INVARIANTS
    TypeOK
    ReplayAndReorderRejected
    HonestChannelNoFalseReject
\* A session ends (EOF, a read error): states where nothing is left to do
\* are real terminal states of the connection.
CHECK_DEADLOCK FALSE
