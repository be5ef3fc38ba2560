\* Two clients, whose sockets hold a whole reply.
CONSTANTS
    Clients = {c1, c2}
    Nobody = nobody
    MaxReply = 2
    InboxCap = 2
    OutCap = 2
    MaxDrain = 1
    MaxPackets = 2
SPECIFICATION FairSpec
INVARIANTS TypeOK OwnReply WholeReply
PROPERTY RequestTaken
