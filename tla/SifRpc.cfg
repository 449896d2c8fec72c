SPECIFICATION FairSpec
CONSTANTS
    Clients <- ThreeClients
    NoClient = NoClient
    Uses <- ThreeUses
    c1 = c1
    c2 = c2
    c3 = c3
    QDepth = 3
    TableSize = 3
    Delay = 1
    Latency = 2
INVARIANTS
    AnswerOnTheWay
    CompletionComes
    BindKnown
PROPERTIES
    PacketSeen
    RequestsReturn
