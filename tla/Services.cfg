SPECIFICATION ServicesSpec
CONSTANTS
    None = None
    Threads = {t1, t2, t3}
    StorageMayFail = TRUE
    Conns = {k1, k2}
    Peers = {ann, bob}
    Users = {u1, u2, u3}
    Groups = {g1}
    GroupMessages = {m1}
    MaxLogins = 3
    Magic = 9
    MaxBody = 5
    MaxValue = 2
    InitialSize = 3
    Bodies <- MCBodies
    MaxPackets = 2
    Accounts = {1, 2, 3, 9}
    GroupIds = {5}
    Base = 3
    Word = 9
    DefaultLimit = 1
    MaxLimit = 2
    NoLimit = 99
    Limits = {0, 3, 99}
    MaxMessages = 2
    Chats = {c1, c2}
    Contacts = {c1, c2}
    Listed = {c1}
    NoChat = NoChat
    MaxSeq = 3
    MaxPage = 2
    MaxConnects = 3
SYMMETRY Symmetry
INVARIANTS
    ConnectionsAccountedFor
    NoLostWakeup
    OnlyRefusedIsInherited
    FriendsIffAccepted
    AnswerStaysTrue
    OkReachesEveryMember
    OneChannelPerMember
    ReceivedIsSent
    PagingIsComplete
    HistoryForMembers
    OnlineMeansConnected
    PageShowsOpenChat
CHECK_DEADLOCK FALSE
