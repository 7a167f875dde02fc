\* A server that answers with the reply to the whole request, and no timeout: the open
\* waits for the head, and the head for requests that only an open call can send.
SPECIFICATION BidiFairSpec
CONSTANTS
    Cap = 1
    MaxSent = 1
    Window = 1
    MaxAsked = 1
    Servers = {"with_reply"}
    Timeouts = {FALSE}
PROPERTY HostGetsToSend
