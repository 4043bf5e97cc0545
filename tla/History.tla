-------------------------------- MODULE History --------------------------------
(***************************************************************************)
(* HistoryService and the message log it reads: a user pages back through  *)
(* a conversation, one request after the other, while messages are being   *)
(* saved.  Message ids are assigned when a row is inserted and the row is  *)
(* visible once its transaction commits, so rows appear out of id order.   *)
(*                                                                         *)
(* A private conversation is known by a number made from the two user ids; *)
(* the service decides from that number alone whether the user takes part. *)
(***************************************************************************)
EXTENDS Naturals, Sequences, FiniteSets, Functions

CONSTANTS
    Accounts,       \* user ids, positive numbers
    GroupIds,       \* group ids, positive numbers
    Base,           \* kSmallUserIdConversationBase
    Word,           \* 2^32
    DefaultLimit,   \* options_.default_limit
    MaxLimit,       \* options_.max_limit
    Limits,         \* limits a request may carry
    NoLimit,        \* the member of Limits for a request without one
    MaxMessages     \* bound: messages saved

ASSUME HistoryAssumption ==
    /\ Accounts \subseteq Nat \ {0} /\ GroupIds \subseteq Nat \ {0}
    /\ Base \in Nat \ {0} /\ Word \in Nat /\ Base * Base <= Word
    /\ Limits \subseteq Nat /\ MaxLimit \in Nat /\ DefaultLimit \in 1..MaxLimit
    /\ MaxMessages \in Nat

VARIABLES
    log,        \* messages, by message_id
    visible,    \* ids whose transaction has committed
    joined,     \* members of each group
    pager       \* the user who pages, and the state of their request

historyVars == <<log, visible, joined, pager>>

Smaller(u, v) == IF u < v THEN u ELSE v
Larger(u, v) == IF u < v THEN v ELSE u

-----------------------------------------------------------------------------
\* privateConversationId of ChatService, for two different users whose larger
\* id is below Word.
PrivateConversationId(u, v) ==
    IF Larger(u, v) < Base THEN Smaller(u, v) * Base + Larger(u, v)
    ELSE Smaller(u, v) * Word + Larger(u, v)

\* ChatController::privateConversationId of the Qt client, which computes the
\* number itself; 0, which it never asks for, when there is none.
ClientConversationId(u, v) ==
    LET left == Smaller(u, v)
        right == Larger(u, v)
    IN  IF left = 0 \/ left = right THEN 0
        ELSE IF left < Base /\ right < Base THEN left * Base + right
        ELSE IF right >= Word THEN 0 ELSE left * Word + right

\* Variant: the encoding of large ids is forgotten.
DecodeSmallOnly(id) == <<id \div Base, id % Base>>

\* decodePrivateConversationId.
DecodePrivateConversationId(id) ==
    IF id < Base * Base THEN <<id \div Base, id % Base>> ELSE <<id \div Word, id % Word>>

\* isPrivateConversationMember.
IsPrivateMember(u, id) ==
    LET pair == DecodePrivateConversationId(id)
    IN  /\ pair[1] # 0 /\ pair[2] # 0 /\ pair[1] # pair[2]
        /\ u \in {pair[1], pair[2]}

\* authorizeQuery.
Authorized(u, kind, id) ==
    CASE kind = "private" -> IsPrivateMember(u, id)
      [] kind = "group"   -> id \in GroupIds /\ u \in joined[id]

\* The limit in buildQuery: a default, and never more than the maximum.
EffectiveLimit(limit) ==
    IF limit = NoLimit THEN DefaultLimit ELSE IF limit > MaxLimit THEN MaxLimit ELSE limit

InConversation(kind, id) == {m \in visible : log[m].kind = kind /\ log[m].conv = id}

\* ORDER BY message_id DESC.
NewestFirst(ids) ==
    CHOOSE s \in Injection(1..Cardinality(ids), ids) : \A i, j \in DOMAIN s : i < j => s[i] > s[j]

\* Variant: the row at before_message_id is returned again.
PageInclusive(kind, id, before, limit) ==
    LET rows == NewestFirst({m \in InConversation(kind, id) : before = 0 \/ m <= before})
    IN  SubSeq(rows, 1, Smaller(limit, Len(rows)))

\* getHistoryByConversation: the newest rows below before_message_id.
Page(kind, id, before, limit) ==
    LET rows == NewestFirst({m \in InConversation(kind, id) : before = 0 \/ m < before})
    IN  SubSeq(rows, 1, Smaller(limit, Len(rows)))

-----------------------------------------------------------------------------
Conversations ==
    {[kind |-> "private", id |-> n] : n \in {ClientConversationId(u, v) : u, v \in Accounts} \ {0}}
    \cup {[kind |-> "group", id |-> g] : g \in GroupIds}

NoPager == [at |-> "idle", user |-> 0, kind |-> "group", id |-> 0, before |-> 0, limit |-> 0,
            got |-> <<>>, base |-> {}]

HistoryInit ==
    /\ log = <<>> /\ visible = {}
    /\ joined = [g \in GroupIds |-> {}]
    /\ pager = NoPager

Insert(message) ==
    /\ Len(log) < MaxMessages
    /\ log' = Append(log, message)
    /\ UNCHANGED <<visible, joined, pager>>

\* INSERT of a private message; a pair with an id above 32 bits is refused.
InsertPrivate(u, v) ==
    /\ u # v /\ Larger(u, v) < Word
    /\ Insert([kind |-> "private", conv |-> PrivateConversationId(u, v), parties |-> {u, v}])

InsertGroup(u, g) ==
    /\ u \in joined[g]
    /\ Insert([kind |-> "group", conv |-> g, parties |-> {}])

CommitMessage(m) ==
    /\ m \notin visible
    /\ visible' = visible \cup {m}
    /\ UNCHANGED <<log, joined, pager>>

Join(u, g) ==
    /\ u \notin joined[g]
    /\ joined' = [joined EXCEPT ![g] = @ \cup {u}]
    /\ UNCHANGED <<log, visible, pager>>

\* A user opens a conversation: a request without before_message_id.  One
\* user pages once: readers do not affect each other.
OpenHistory(u, c, limit) ==
    /\ pager.at = "idle"
    /\ pager' = [NoPager EXCEPT !.at = "query", !.user = u, !.kind = c.kind, !.id = c.id,
                                !.limit = limit]
    /\ UNCHANGED <<log, visible, joined>>

\* handleHistory up to authorizeQuery; a limit of zero is refused before it.
Authorize ==
    /\ pager.at = "query"
    /\ pager' = [pager EXCEPT !.at = IF pager.limit = 0 THEN "idle"
                                     ELSE IF Authorized(pager.user, pager.kind, pager.id) THEN "read"
                                     ELSE "denied"]
    /\ UNCHANGED <<log, visible, joined>>

\* getHistory and the answer.  The client goes on with the smallest id of the
\* page, until a page is empty.
ReadPage ==
    /\ pager.at = "read"
    /\ LET page == Page(pager.kind, pager.id, pager.before, EffectiveLimit(pager.limit))
       IN  pager' = [pager EXCEPT
               !.at = IF page = <<>> THEN "done" ELSE "query",
               !.before = IF page = <<>> THEN @ ELSE page[Len(page)],
               !.got = @ \o page,
               !.base = IF pager.before = 0 THEN InConversation(pager.kind, pager.id) ELSE @]
    /\ UNCHANGED <<log, visible, joined>>

HistoryNext ==
    \/ \E u, v \in Accounts : InsertPrivate(u, v)
    \/ \E u \in Accounts, g \in GroupIds : InsertGroup(u, g) \/ Join(u, g)
    \/ \E m \in DOMAIN log : CommitMessage(m)
    \/ \E u \in Accounts, c \in Conversations, limit \in Limits : OpenHistory(u, c, limit)
    \/ Authorize \/ ReadPage

HistorySpec == HistoryInit /\ [][HistoryNext]_historyVars

-----------------------------------------------------------------------------
\* Paging back with the smallest id of each page gives every message that was
\* there when the paging began, newest first and none twice, whatever is saved
\* or committed meanwhile and whatever the limit.
PagingIsComplete ==
    /\ \A i, j \in DOMAIN pager.got : i < j => pager.got[i] > pager.got[j]
    /\ Range(pager.got) \subseteq InConversation(pager.kind, pager.id)
    /\ pager.at = "done" => pager.base \subseteq Range(pager.got)

\* The other party of a private message.
Peer(m) == CHOOSE v \in log[m].parties : v # pager.user

\* A user gets messages of a conversation they take part in and of no other,
\* and is never denied their own: the number that ChatService and the client
\* each make of two user ids is unique, and HistoryService reads the same two
\* ids out of it, on both sides of the small ids' base.
HistoryForMembers ==
    /\ pager.at = "denied" /\ pager.kind = "private" =>
          \A v \in Accounts : ClientConversationId(pager.user, v) # pager.id
    /\ pager.at = "done" /\ pager.kind = "private" =>
          \A m \in pager.base : ClientConversationId(pager.user, Peer(m)) = pager.id
    /\ \A i \in DOMAIN pager.got :
          LET m == log[pager.got[i]]
          IN  IF m.kind = "private" THEN pager.user \in m.parties
              ELSE pager.user \in joined[m.conv]

=============================================================================
