\* A client whose socket holds less than a reply.
CONSTANTS
    Clients = {c1}
    Nobody = nobody
    MaxReply = 3
    InboxCap = 1
    OutCap = 2
    MaxDrain = 1
    MaxPackets = 3
SPECIFICATION Spec
INVARIANT WholeReply
