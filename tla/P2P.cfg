SPECIFICATION FairSpec
CONSTANTS
    Publishers = {p1, p2}
    Knowing = {p1}
    Conns = {c1}
    CtlCapacity = 1
    MaxDrops = 1
INVARIANTS SecretGuards NameIsAlive PeersNotMistaken
 
CHECK_DEADLOCK FALSE
