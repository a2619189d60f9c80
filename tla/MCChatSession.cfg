\* Three conversations, two messages, one piece per answer, both modes, one use
\* of the sidebar or the mode switch, or one loss of the socket, at any moment.
CONSTANTS
    MaxConversations = 3
    MaxSends = 2
    MaxChunks = 1
    MaxDisturbances = 1
    Modes = {TRUE, FALSE}
SPECIFICATION FairChatSpec
INVARIANTS
    ChatTypeOK
    AnswersStayInTheirConversation
PROPERTIES
    
    HttpProcessingEnds
CHECK_DEADLOCK FALSE
