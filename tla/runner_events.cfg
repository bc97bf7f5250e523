SPECIFICATION EventsFairSpec
CONSTANTS
    Runs = {r1}
    Clients = {c1}
    Slots = {s1}
    ControlCap = 1
    NoRun = NoRun
    NoSlot = NoSlot
    Viewers = {v1}
    ChannelCap = 2
    MaxNotes = 0
INVARIANTS NoSendOnClosed StreamFollowsRun
PROPERTIES RunsEnd EndIsSeen
