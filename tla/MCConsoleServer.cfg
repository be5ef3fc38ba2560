\* Two clients, whose channels hold two chunks of four.
CONSTANTS
    Clients = {c1, c2}
    MaxOutput = 4
    Scrollback = 2
    Cap = 2
SPECIFICATION FairSpec
INVARIANTS TypeOK NoPanic NothingLost
PROPERTIES WriterDone Streams
\* Every client is gone in the end, and the output is bounded.
CHECK_DEADLOCK FALSE
