--------------------------------- MODULE Chat ---------------------------------
(***************************************************************************)
(* The "chats" namespace of socket.io: ChatGateway, ChatService and        *)
(* ChatRoomRepository.  An entity in Redis names the socket a user is      *)
(* reached at; messages are rows of Postgres.                              *)
(***************************************************************************)
EXTENDS Requests, Naturals, FiniteSets

CONSTANTS
    Chatters,     \* users who chat
    ChatSockets,  \* sockets, each connects once
    ChatUserOf,   \* whose they are
    MessageIds,   \* rows of messages there may be
    StaffOf       \* staff assigned to a user, and users assigned to a member of staff

VARIABLES
    chatSocket,   \* is the socket new, open or closed?
    chatRoom,     \* Redis: the sockets that have an entity
    messages,     \* table messages
    shown         \* the chat list each socket has received last

chatVars == <<chatSocket, chatRoom, messages, shown>>

ASSUME ChatAssumption ==
    ChatUserOf \in [ChatSockets -> Chatters] /\ StaffOf \in [Chatters -> SUBSET Chatters]

Message == [sender: Chatters, recipient: Chatters, is_read: BOOLEAN]

ChatTask ==
    [pc: {"push", "remove"}, socket: ChatSockets]
    \cup [pc: {"find"}, user: Chatters]
    \cup [pc: {"insert", "lists"}, socket: ChatSockets, to: Chatters,
          recipient: ChatSockets \cup {None}]
    \cup [pc: {"emit"}, socket: ChatSockets, recipient: ChatSockets \cup {None},
          list: SUBSET Chatters]
    \cup [pc: {"read"}, user: Chatters, ids: SUBSET MessageIds]

ChatTypeOK ==
    /\ chatSocket \in [ChatSockets -> {"new", "open", "closed"}]
    /\ chatRoom \subseteq ChatSockets
    /\ messages \in [MessageIds -> Message \cup {None}]
    /\ shown \in [ChatSockets -> SUBSET Chatters]
    /\ \A s \in Slots : task[s] \in ChatTask \cup {Idle}

ChatInit ==
    /\ chatSocket = [k \in ChatSockets |-> "new"]
    /\ chatRoom = {}
    /\ messages = [id \in MessageIds |-> None]
    /\ shown = [k \in ChatSockets |-> {}]

\* get and getRecipient: the first of the entities of the user that the index holds.
ChatEntities(u) == {k \in chatRoom : ChatUserOf[k] = u}
Reached(u) == IF ChatEntities(u) = {} THEN {None} ELSE ChatEntities(u)

-----------------------------------------------------------------------------
(* Commands reach Redis in the order they are sent, so a handler's first   *)
(* search is part of its arrival.                                          *)

\* For contrast, a connect that does not look.
NeverConnected(u) == FALSE

UserExists(u) == ChatEntities(u) # {}

ChatConnect(s, k) ==
    /\ chatSocket[k] = "new"
    /\ chatSocket' = [chatSocket EXCEPT ![k] = "open"]
    /\ IF UserExists(ChatUserOf[k])
       THEN UNCHANGED task
       ELSE Begin(s, [pc |-> "push", socket |-> k])
    /\ UNCHANGED <<chatRoom, messages, shown>>

PushChatUser(s) ==
    /\ At(s, "push")
    /\ chatRoom' = chatRoom \cup {task[s].socket}
    /\ Finish(s)
    /\ UNCHANGED <<chatSocket, messages, shown>>

ChatDisconnect(s, k) ==
    /\ chatSocket[k] = "open"
    /\ chatSocket' = [chatSocket EXCEPT ![k] = "closed"]
    /\ IF UserExists(ChatUserOf[k])
       THEN Begin(s, [pc |-> "find", user |-> ChatUserOf[k]])
       ELSE UNCHANGED task
    /\ UNCHANGED <<chatRoom, messages, shown>>

\* delete searches again, by user: it may find the entity of another socket, or none
\* and throw.
FindChatUser(s) ==
    /\ At(s, "find")
    /\ IF UserExists(task[s].user)
       THEN \E k \in ChatEntities(task[s].user) : Await(s, [pc |-> "remove", socket |-> k])
       ELSE Finish(s)
    /\ UNCHANGED chatVars

RemoveChatUser(s) ==
    /\ At(s, "remove")
    /\ chatRoom' = chatRoom \ {task[s].socket}
    /\ Finish(s)
    /\ UNCHANGED <<chatSocket, messages, shown>>

-----------------------------------------------------------------------------
\* Who a user has exchanged messages with, and the staff; the user not among them.
ChatList(u) ==
    ({x \in Chatters : \E id \in MessageIds : messages[id] # None
                         /\ {messages[id].sender, messages[id].recipient} = {x, u}}
       \cup StaffOf[u]) \ {u}

SendMessage(s, k, to) ==
    /\ chatSocket[k] = "open"
    /\ \E recipient \in Reached(to) :
        Begin(s, [pc |-> "insert", socket |-> k, to |-> to, recipient |-> recipient])
    /\ UNCHANGED chatVars

InsertMessage(s) ==
    /\ At(s, "insert")
    /\ \E id \in MessageIds :
        /\ messages[id] = None
        /\ messages' = [messages EXCEPT ![id] = [sender |-> ChatUserOf[task[s].socket],
                            recipient |-> task[s].to, is_read |-> FALSE]]
    /\ Await(s, [task[s] EXCEPT !.pc = "lists"])
    /\ UNCHANGED <<chatSocket, chatRoom, shown>>

Show(socket, list) == IF socket = None THEN shown ELSE [shown EXCEPT ![socket] = list]

\* The list of the recipient, if one was found; it is emitted after its queries.
AskChatList(s) ==
    /\ At(s, "lists")
    /\ Await(s, [pc |-> "emit", socket |-> task[s].socket, recipient |-> task[s].recipient,
                 list |-> ChatList(task[s].to)])
    /\ UNCHANGED chatVars

EmitChatList(s) ==
    /\ At(s, "emit")
    /\ shown' = Show(task[s].recipient, task[s].list)
    /\ Finish(s)
    /\ UNCHANGED <<chatSocket, chatRoom, messages>>

\* Also how sendMessage ends, to the sender.
AnswerChatList(k) ==
    /\ chatSocket[k] = "open"
    /\ shown' = Show(k, ChatList(ChatUserOf[k]))
    /\ UNCHANGED <<task, chatSocket, chatRoom, messages>>

\* Some row must have an id asked for.
ReadMessages(s, k, ids) ==
    /\ chatSocket[k] = "open"
    /\ \E id \in ids : messages[id] # None
    /\ Begin(s, [pc |-> "read", user |-> ChatUserOf[k], ids |-> ids])
    /\ UNCHANGED chatVars

MarkRead(s) ==
    /\ At(s, "read")
    /\ LET mine == {id \in task[s].ids :
                      messages[id] # None /\ messages[id].recipient = task[s].user}
       IN  messages' = [id \in MessageIds |->
               IF id \in mine THEN [messages[id] EXCEPT !.is_read = TRUE] ELSE messages[id]]
    /\ Finish(s)
    /\ UNCHANGED <<chatSocket, chatRoom, shown>>

\* Redis keeps the entities.
ChatRestart ==
    /\ task' = [s \in Slots |-> Idle]
    /\ chatSocket' = [k \in ChatSockets |-> IF chatSocket[k] = "open" THEN "closed" ELSE chatSocket[k]]
    /\ UNCHANGED <<chatRoom, messages, shown>>

ChatFails(s) == task[s] \in ChatTask /\ Finish(s) /\ UNCHANGED chatVars

-----------------------------------------------------------------------------
ChatNext ==
    \/ ChatRestart
    \/ \E k \in ChatSockets : AnswerChatList(k)
    \/ \E s \in Slots :
        \/ \E k \in ChatSockets :
            \/ ChatConnect(s, k) \/ ChatDisconnect(s, k)
            \/ \E to \in Chatters : SendMessage(s, k, to)
            \/ \E ids \in SUBSET MessageIds : ReadMessages(s, k, ids)
        \/ PushChatUser(s) \/ FindChatUser(s) \/ RemoveChatUser(s)
        \/ InsertMessage(s) \/ AskChatList(s) \/ EmitChatList(s) \/ MarkRead(s)
        \/ ChatFails(s)

ChatSpec == RequestsInit /\ ChatInit /\ [][ChatNext]_<<task, chatVars>>

-----------------------------------------------------------------------------
\* connect looks for the user's entity and pushes one later, disconnect removes
\* whichever it finds first, and a restart forgets the sockets but not the entities:
\* still a user never has more entities than handlers can be in flight at once.
EntitiesPerRace ==
    \A u \in Chatters :
        Cardinality(ChatEntities(u))
          + Cardinality({s \in Slots : At(s, "push") /\ ChatUserOf[task[s].socket] = u})
            <= Cardinality(Slots)
=============================================================================
