\* Two connections and one worker (the workers share nothing but connections);
\* messages of one, two and three bytes, two bytes a read: a read holds a piece of a
\* message, a whole one, or pieces of two, and two messages may wait in one queue.
SPECIFICATION FairSpec
CONSTANTS
    Clients = {c1, c2}
    NoClient = NoClient
    WorkerCount = 1
    BufSize = 2
    Lengths = {0, 1, 2}
    MaxMessages = 2
INVARIANTS
    TypeOK
    MessagesIntact
    NoEmptyPop
    NoLostWakeup
    OnlyReuseMisleads
PROPERTIES
    MessagesTaken
    QueueDrained
CHECK_DEADLOCK FALSE
