------------------------------ MODULE RaceProofs ------------------------------
(***************************************************************************)
(* The services look a row up, await and write.  What that leads to is     *)
(* bounded by the handlers in flight, for any number of them: the rows     *)
(* already written and the handlers past the look share the slots.  A look *)
(* that passes finds no row; a write moves a handler into the rows.        *)
(***************************************************************************)
EXTENDS OneTimePasswords, Registration, Chat, Withdrawals, Papers, Catalog,
        SequenceTheorems, FiniteSetTheorems, TLAPS

\* n writes, and the handlers about to write, share the slots.
Room(n, about) ==
    /\ n \in Nat /\ about \subseteq Slots
    /\ n + Cardinality(about) <= Cardinality(Slots)

LEMMA SlotCount ==
    ASSUME NEW about \in SUBSET Slots
    PROVE  /\ IsFiniteSet(about) /\ Cardinality(about) \in Nat /\ Cardinality(Slots) \in Nat
           /\ Cardinality(about) <= Cardinality(Slots)
  BY SlotsAreFinite, FS_CardinalityType, FS_Subset

\* The look has found nothing written.
LEMMA RoomNone ==
    ASSUME NEW about \in SUBSET Slots
    PROVE  Room(0, about)
  BY SlotCount DEF Room

LEMMA RoomLess ==
    ASSUME NEW n, NEW about, Room(n, about),
           NEW m \in Nat, m <= n, NEW fewer \in SUBSET about
    PROVE  Room(m, fewer)
<1>1. about \in SUBSET Slots /\ fewer \in SUBSET Slots /\ n \in Nat
  BY DEF Room
<1>2. Cardinality(fewer) <= Cardinality(about)
  BY <1>1, SlotCount, FS_Subset
<1>3. n + Cardinality(about) <= Cardinality(Slots)
  BY DEF Room
<1> QED
  BY <1>1, <1>2, <1>3, SlotCount DEF Room

\* The handler in slot s is no longer about to write.
Leaves(s, about, fewer) == s \in about /\ fewer \subseteq about \ {s}

\* It writes.
LEMMA RoomMove ==
    ASSUME NEW n, NEW about, Room(n, about), NEW s, NEW fewer, Leaves(s, about, fewer),
           NEW m \in Nat, m <= n + 1
    PROVE  Room(m, fewer)
<1>0. s \in about /\ fewer \subseteq about \ {s}
  BY DEF Leaves
<1>1. about \in SUBSET Slots /\ fewer \in SUBSET Slots /\ about \ {s} \in SUBSET Slots /\ n \in Nat
  BY <1>0 DEF Room
<1>2. Cardinality(about \ {s}) = Cardinality(about) - 1
  BY <1>0, <1>1, SlotCount, FS_RemoveElement
<1>3. Cardinality(fewer) <= Cardinality(about \ {s})
  BY <1>0, <1>1, SlotCount, FS_Subset
<1>4. n + Cardinality(about) <= Cardinality(Slots)
  BY DEF Room
<1> QED
  BY <1>1, <1>2, <1>3, <1>4, SlotCount DEF Room

\* The same of a set of rows.
Share(held, about) == IsFiniteSet(held) /\ Room(Cardinality(held), about)

LEMMA ShareNone ==
    ASSUME NEW about \in SUBSET Slots
    PROVE  Share({}, about)
  BY RoomNone, FS_EmptySet DEF Share

LEMMA ShareLess ==
    ASSUME NEW held, NEW about, Share(held, about),
           NEW kept \in SUBSET held, NEW fewer \in SUBSET about
    PROVE  Share(kept, fewer)
<1>1. IsFiniteSet(kept) /\ Cardinality(kept) \in Nat /\ Cardinality(kept) <= Cardinality(held)
  BY FS_Subset, FS_CardinalityType DEF Share
<1> QED
  BY <1>1, RoomLess DEF Share

\* The handler in slot s writes the row.
Written(s, row, held, about, more, fewer) ==
    Leaves(s, about, fewer) /\ more \subseteq held \cup {row}

LEMMA ShareMove ==
    ASSUME NEW held, NEW about, Share(held, about), NEW s, NEW row, NEW more, NEW fewer,
           Written(s, row, held, about, more, fewer)
    PROVE  Share(more, fewer)
<1>0. Leaves(s, about, fewer) /\ more \in SUBSET (held \cup {row})
  BY DEF Written
<1>1. /\ IsFiniteSet(held) /\ Cardinality(held) \in Nat
      /\ IsFiniteSet(held \cup {row}) /\ Cardinality(held \cup {row}) \in Nat
      /\ Cardinality(held \cup {row}) <= Cardinality(held) + 1
  <2>1. IsFiniteSet(held) /\ Cardinality(held) \in Nat
    BY FS_CardinalityType DEF Share
  <2>2. /\ IsFiniteSet(held \cup {row})
        /\ \/ Cardinality(held \cup {row}) = Cardinality(held)
           \/ Cardinality(held \cup {row}) = Cardinality(held) + 1
    BY <2>1, FS_AddElement
  <2> QED BY <2>1, <2>2
<1> DEFINE all == held \cup {row}
<1>a. IsFiniteSet(all) /\ more \in SUBSET all
  BY <1>0, <1>1
<1> HIDE DEF all
<1>2. /\ IsFiniteSet(more) /\ Cardinality(more) \in Nat
      /\ Cardinality(more) <= Cardinality(all)
  BY <1>a, FS_Subset, FS_CardinalityType
<1> USE DEF all
<1> QED
  BY <1>0, <1>1, <1>2, RoomMove DEF Share

-----------------------------------------------------------------------------
(* One handler resumes, or all are lost.                                   *)

OneSlot == DOMAIN task = Slots
Resumes(s, h) == task' = [task EXCEPT ![s] = h]

LEMMA SlotAfter ==
    ASSUME OneSlot, NEW s \in Slots, NEW h, Resumes(s, h)
    PROVE  OneSlot' /\ task'[s] = h /\ \A u \in Slots \ {s} : task'[u] = task[u]
  BY DEF OneSlot, Resumes

LEMMA IdlePc == Idle.pc = "idle"
  BY DEF Idle

-----------------------------------------------------------------------------
(* Chat: connect looks for an entity of the user, then pushes one.         *)

Pushing(u) == {s \in Slots : At(s, "push") /\ ChatUserOf[task[s].socket] = u}

ChatInv == OneSlot /\ \A u \in Chatters : Share(ChatEntities(u), Pushing(u))

\* Nothing is pushed and nobody is about to push who was not.
LEMMA ChatQuiet ==
    ASSUME ChatInv, OneSlot', chatRoom' \subseteq chatRoom,
           \A s \in Slots : task'[s] = task[s] \/ task'[s].pc # "push"
    PROVE  ChatInv'
<1> SUFFICES ASSUME NEW u \in Chatters PROVE Share(ChatEntities(u), Pushing(u))'
  BY DEF ChatInv
<1>1. ChatEntities(u)' \subseteq ChatEntities(u) /\ Pushing(u)' \subseteq Pushing(u)
  BY DEF ChatEntities, Pushing, At
<1>2. Share(ChatEntities(u), Pushing(u))
  BY DEF ChatInv
<1>3. Share(ChatEntities(u)', Pushing(u)')
  BY <1>1, <1>2, ShareLess
<1> QED
  BY <1>3 DEF Share, Room

LEMMA ChatStep ==
    ASSUME ChatInv, ChatNext
    PROVE  ChatInv'
<1>0. OneSlot
  BY DEF ChatInv
<1>1. CASE ChatRestart \/ \E k \in ChatSockets : AnswerChatList(k)
  <2>1. /\ chatRoom' = chatRoom /\ OneSlot'
        /\ \A s \in Slots : task'[s] = task[s] \/ task'[s] = Idle
    BY <1>0, <1>1 DEF ChatRestart, AnswerChatList, OneSlot
  <2> QED
    BY <2>1, ChatQuiet, IdlePc
<1>2. ASSUME NEW s \in Slots, NEW h, Resumes(s, h), h.pc # "push", chatRoom' \subseteq chatRoom
      PROVE  ChatInv'
  BY <1>0, <1>2, SlotAfter, ChatQuiet
<1>3. ASSUME NEW s \in Slots, NEW k \in ChatSockets, ChatConnect(s, k)
      PROVE  ChatInv'
  <2>1. CASE UserExists(ChatUserOf[k])
    BY <1>0, <1>3, <2>1, ChatQuiet DEF ChatConnect, OneSlot
  <2>2. CASE ~ UserExists(ChatUserOf[k])
    <3> DEFINE h == [pc |-> "push", socket |-> k]
    <3>1. Resumes(s, h) /\ chatRoom' = chatRoom /\ ChatEntities(ChatUserOf[k]) = {}
      BY <1>3, <2>2 DEF ChatConnect, Begin, Resumes, UserExists
    <3>2. h.socket = k
      OBVIOUS
    <3> HIDE DEF h
    <3>3. OneSlot' /\ task'[s] = h /\ \A u \in Slots \ {s} : task'[u] = task[u]
      BY <1>0, <3>1, SlotAfter
    <3> SUFFICES ASSUME NEW u \in Chatters PROVE Share(ChatEntities(u)', Pushing(u)')
      BY <3>3 DEF ChatInv, Share, Room
    <3>4. ChatEntities(u)' = ChatEntities(u) /\ Pushing(u)' \in SUBSET Slots
      BY <3>1 DEF ChatEntities, Pushing
    <3>5. CASE u = ChatUserOf[k]
      BY <3>1, <3>4, <3>5, ShareNone
    <3>6. CASE u # ChatUserOf[k]
      <4>1. Pushing(u)' \subseteq Pushing(u)
        BY <3>2, <3>3, <3>6 DEF Pushing, At
      <4> QED
        BY <3>4, <4>1, ShareLess DEF ChatInv
    <3> QED
      BY <3>5, <3>6
  <2> QED
    BY <2>1, <2>2
<1>4. ASSUME NEW s \in Slots, PushChatUser(s)
      PROVE  ChatInv'
  <2>1. /\ task[s].pc = "push" /\ chatRoom' = chatRoom \cup {task[s].socket}
        /\ Resumes(s, Idle)
    BY <1>4 DEF PushChatUser, At, Finish, Resumes
  <2>2. OneSlot' /\ task'[s].pc = "idle" /\ \A u \in Slots \ {s} : task'[u] = task[u]
    BY <1>0, <2>1, SlotAfter, IdlePc
  <2> SUFFICES ASSUME NEW u \in Chatters PROVE Share(ChatEntities(u)', Pushing(u)')
    BY <2>2 DEF ChatInv, Share, Room
  <2>3. Pushing(u)' \subseteq Pushing(u) \ {s} /\ Share(ChatEntities(u), Pushing(u))
    BY <2>2 DEF Pushing, At, ChatInv
  <2>4. CASE ChatUserOf[task[s].socket] = u
    <3>1. s \in Pushing(u) /\ ChatEntities(u)' \subseteq ChatEntities(u) \cup {task[s].socket}
      BY <2>1, <2>4 DEF Pushing, At, ChatEntities
    <3>2. Written(s, task[s].socket, ChatEntities(u), Pushing(u), ChatEntities(u)', Pushing(u)')
      BY <2>3, <3>1 DEF Written, Leaves
    <3> QED
      BY <2>3, <3>2, ShareMove
  <2>5. CASE ChatUserOf[task[s].socket] # u
    <3>1. ChatEntities(u)' \subseteq ChatEntities(u)
      BY <2>1, <2>5 DEF ChatEntities
    <3> QED
      BY <2>3, <3>1, ShareLess
  <2> QED
    BY <2>4, <2>5
<1>5. ASSUME NEW s \in Slots, NEW k \in ChatSockets,
             \/ ChatDisconnect(s, k)
             \/ \E to \in Chatters : SendMessage(s, k, to)
             \/ \E ids \in SUBSET MessageIds : ReadMessages(s, k, ids)
      PROVE  ChatInv'
  <2>1. chatRoom' = chatRoom
    BY <1>5 DEF ChatDisconnect, SendMessage, ReadMessages, chatVars
  <2>2. ASSUME NEW h, Begin(s, h), h.pc # "push"
        PROVE  ChatInv'
    BY <1>2, <2>1, <2>2 DEF Begin, Resumes
  <2>3. CASE UNCHANGED task
    BY <1>0, <2>1, <2>3, ChatQuiet DEF OneSlot
  <2>4. CASE ChatDisconnect(s, k)
    <3> DEFINE h == [pc |-> "find", user |-> ChatUserOf[k]]
    <3>1. UNCHANGED task \/ Begin(s, h)
      BY <2>4 DEF ChatDisconnect
    <3>2. h.pc # "push"
      OBVIOUS
    <3> QED
      BY <2>2, <2>3, <3>1, <3>2
  <2>5. ASSUME NEW to \in Chatters, SendMessage(s, k, to)
        PROVE  ChatInv'
    <3>1. PICK recipient :
              Begin(s, [pc |-> "insert", socket |-> k, to |-> to, recipient |-> recipient])
      BY <2>5 DEF SendMessage
    <3> QED
      BY <2>2, <3>1
  <2>6. ASSUME NEW ids \in SUBSET MessageIds, ReadMessages(s, k, ids)
        PROVE  ChatInv'
    <3>1. Begin(s, [pc |-> "read", user |-> ChatUserOf[k], ids |-> ids])
      BY <2>6 DEF ReadMessages
    <3> QED
      BY <2>2, <3>1
  <2> QED
    BY <1>5, <2>4, <2>5, <2>6
<1>6. ASSUME NEW s \in Slots, FindChatUser(s) \/ RemoveChatUser(s) \/ ChatFails(s)
      PROVE  ChatInv'
  <2>1. chatRoom' \subseteq chatRoom
    BY <1>6 DEF FindChatUser, RemoveChatUser, ChatFails, chatVars
  <2>2. \E h : Resumes(s, h) /\ h.pc # "push"
    BY <1>6, IdlePc DEF FindChatUser, RemoveChatUser, ChatFails, Await, Finish, Resumes
  <2> QED
    BY <1>2, <2>1, <2>2
<1>7. ASSUME NEW s \in Slots,
             InsertMessage(s) \/ AskChatList(s) \/ EmitChatList(s) \/ MarkRead(s)
      PROVE  ChatInv'
  <2>1. chatRoom' = chatRoom
    BY <1>7 DEF InsertMessage, AskChatList, EmitChatList, MarkRead, chatVars
  <2>2. CASE InsertMessage(s)
    <3> DEFINE h == [task[s] EXCEPT !.pc = "lists"]
    <3>1. Resumes(s, h) /\ (h.pc # "push" \/ h.pc = task[s].pc) /\ task[s].pc = "insert"
      BY <2>2 DEF InsertMessage, Await, Resumes, At
    <3> QED
      BY <1>2, <2>1, <3>1
  <2>3. CASE AskChatList(s) \/ EmitChatList(s) \/ MarkRead(s)
    <3>1. \E h : Resumes(s, h) /\ h.pc # "push"
      BY <2>3, IdlePc DEF AskChatList, EmitChatList, MarkRead, Await, Finish, Resumes
    <3> QED
      BY <1>2, <2>1, <3>1
  <2> QED
    BY <1>7, <2>2, <2>3
<1> QED
  BY <1>1, <1>3, <1>4, <1>5, <1>6, <1>7 DEF ChatNext

\* A user never has more entities in Redis than handlers can be in flight, whatever
\* sockets come and go and however often the process restarts.
THEOREM EntitiesBounded == ChatSpec => []EntitiesPerRace
<1>1. RequestsInit /\ ChatInit => ChatInv
  <2> SUFFICES ASSUME RequestsInit, ChatInit, NEW u \in Chatters
               PROVE  OneSlot /\ Share(ChatEntities(u), Pushing(u))
    BY DEF ChatInv, RequestsInit, OneSlot
  <2>1. OneSlot /\ ChatEntities(u) = {} /\ Pushing(u) \in SUBSET Slots
    BY DEF RequestsInit, ChatInit, OneSlot, ChatEntities, Pushing
  <2> QED
    BY <2>1, ShareNone
<1>2. ChatInv /\ [ChatNext]_<<task, chatVars>> => ChatInv'
  <2>1. ChatInv /\ UNCHANGED <<task, chatVars>> => ChatInv'
    BY ChatQuiet DEF ChatInv, chatVars, OneSlot
  <2> QED
    BY <2>1, ChatStep
<1>3. ChatInv => EntitiesPerRace
  BY DEF ChatInv, EntitiesPerRace, Share, Room, Pushing
<1> QED
  BY <1>1, <1>2, <1>3, PTL DEF ChatSpec
-----------------------------------------------------------------------------
(* Withdrawals: a request is inserted by handlers that found none pending. *)

WithdrawInv ==
    /\ WithdrawTypeOK /\ OneSlot
    /\ \A s \in Slots :
          At(s, "review") => /\ requests[task[s].id] \in WithdrawalRequest
                             /\ task[s].status \in Verdicts
    /\ "pending" \notin Verdicts => \A d \in Earners : Share(Pending(d), Asking(d))

LEMMA WithdrawFields ==
    ASSUME NEW h \in WithdrawTask \cup {Idle}
    PROVE  /\ h.pc \in {"account", "existing", "request"} =>
                 h \in [pc: {"account", "existing", "request"}, driver: Earners,
                       amount: Int, funds: Int]
           /\ h.pc = "review" =>
                 h \in [pc: {"review"}, id: RequestIds, status: WithdrawalStatus]
           /\ h.pc \in {"open", "change", "close"} => h.driver \in Earners
  BY DEF WithdrawTask, Idle

\* A handler goes on to a step other than an insert or a review, and no request
\* changes; the balances and bank accounts may.
LEMMA WithdrawQuiet ==
    ASSUME WithdrawInv, NEW s \in Slots, NEW h \in WithdrawTask \cup {Idle},
           Resumes(s, h) \/ UNCHANGED task,
           h.pc \notin {"request", "review"}, UNCHANGED requests,
           funds' \in [Earners -> Int], bank' \in [Earners -> BankAccount \cup {None}]
    PROVE  WithdrawInv'
<1>1. /\ OneSlot'
      /\ \A u \in Slots : task'[u] = task[u] \/ (u = s /\ task'[u] = h)
  BY SlotAfter DEF WithdrawInv, OneSlot
<1>2. WithdrawTypeOK'
  BY <1>1 DEF WithdrawInv, WithdrawTypeOK
<1>3. \A d \in Earners : Pending(d)' = Pending(d) /\ Asking(d)' \subseteq Asking(d)
  BY <1>1 DEF Pending, Asking, At
<1>4. "pending" \notin Verdicts => \A d \in Earners : Share(Pending(d)', Asking(d)')
  BY <1>3, ShareLess DEF WithdrawInv
<1>5. \A u \in Slots : At(u, "review")' => At(u, "review") /\ task'[u] = task[u]
  BY <1>1 DEF At
<1> QED
  BY <1>1, <1>2, <1>4, <1>5 DEF WithdrawInv, Share, Room

LEMMA WithdrawStepInv ==
    ASSUME WithdrawInv, WithdrawNext
    PROVE  WithdrawInv'
<1>0. /\ funds \in [Earners -> Int] /\ bank \in [Earners -> BankAccount \cup {None}]
      /\ requests \in [RequestIds -> WithdrawalRequest \cup {None}]
      /\ \A s \in Slots : task[s] \in WithdrawTask \cup {Idle}
      /\ OneSlot /\ Idle \in WithdrawTask \cup {Idle} /\ Idle.pc = "idle"
  BY IdlePc DEF WithdrawInv, WithdrawTypeOK
<1>1. ASSUME NEW d \in Earners, Rest(d) \/ \E amount \in -1 .. MaxFunds : Earn(d, amount)
      PROVE  WithdrawInv'
  <2>1. /\ UNCHANGED <<requests, task>> /\ funds' \in [Earners -> Int]
        /\ bank' \in [Earners -> BankAccount \cup {None}]
    BY <1>0, <1>1 DEF Rest, Earn, BankAccount
  <2>2. CASE Slots # {}
    BY <1>0, <2>1, <2>2, WithdrawQuiet
  <2>3. CASE Slots = {}
    <3>1. WithdrawTypeOK'
      BY <1>0, <2>1, <2>3 DEF WithdrawTypeOK
    <3>2. \A x \in Earners : Pending(x)' = Pending(x) /\ Asking(x)' = Asking(x)
      BY <2>1 DEF Pending, Asking, At
    <3> QED
      BY <2>1, <2>3, <3>1, <3>2 DEF WithdrawInv, OneSlot, Share, Room
  <2> QED
    BY <2>2, <2>3
<1>2. ASSUME NEW s \in Slots, NEW d \in Earners,
             \/ OpenAccount(s, d)
             \/ \E pc \in {"change", "close"} : FindAccount(s, d, pc)
      PROVE  WithdrawInv'
  <2>1. PICK pc \in {"open", "change", "close"} :
            Begin(s, [pc |-> pc, driver |-> d]) /\ UNCHANGED withdrawVars
    BY <1>2 DEF OpenAccount, FindAccount
  <2> DEFINE h == [pc |-> pc, driver |-> d]
  <2>2. h \in WithdrawTask /\ h.pc \notin {"request", "review"}
    BY DEF WithdrawTask
  <2>3. Resumes(s, h) /\ UNCHANGED <<funds, bank, requests>>
    BY <2>1 DEF Begin, Resumes, withdrawVars
  <2> HIDE DEF h
  <2> QED
    BY <1>0, <2>2, <2>3, WithdrawQuiet
<1>3. ASSUME NEW s \in Slots, NEW d \in Earners, NEW amount \in 0 .. MaxFunds,
             AskWithdrawal(s, d, amount)
      PROVE  WithdrawInv'
  <2> DEFINE h == [pc |-> "account", driver |-> d, amount |-> amount, funds |-> funds[d]]
  <2>1. h \in WithdrawTask /\ h.pc = "account"
    BY <1>0 DEF WithdrawTask
  <2>2. Resumes(s, h) /\ UNCHANGED <<funds, bank, requests>>
    BY <1>3 DEF AskWithdrawal, Begin, Resumes, withdrawVars
  <2> HIDE DEF h
  <2> QED
    BY <1>0, <2>1, <2>2, WithdrawQuiet
<1>4. ASSUME NEW s \in Slots, Finish(s), UNCHANGED <<funds, bank, requests>>
      PROVE  WithdrawInv'
  BY <1>0, <1>4, WithdrawQuiet DEF Finish, Resumes
<1>5. ASSUME NEW s \in Slots, InsertAccount(s) \/ ChangeAccount(s) \/ CloseAccount(s)
      PROVE  WithdrawInv'
  <2>1. task[s].driver \in Earners
    BY <1>0, <1>5, WithdrawFields DEF InsertAccount, ChangeAccount, CloseAccount, At
  <2>2. bank' \in [Earners -> BankAccount \cup {None}]
    BY <1>0, <1>5, <2>1 DEF InsertAccount, ChangeAccount, CloseAccount, BankAccount
  <2>3. Resumes(s, Idle) /\ UNCHANGED <<funds, requests>>
    BY <1>5 DEF InsertAccount, ChangeAccount, CloseAccount, Finish, Resumes
  <2> QED
    BY <1>0, <2>2, <2>3, WithdrawQuiet
<1>6. ASSUME NEW s \in Slots, CheckAccount(s)
      PROVE  WithdrawInv'
  <2> DEFINE h == [task[s] EXCEPT !.pc = "existing"]
  <2>1. h \in WithdrawTask /\ h.pc = "existing"
    BY <1>0, <1>6, WithdrawFields DEF CheckAccount, At, WithdrawTask
  <2>2. (Resumes(s, h) \/ Finish(s)) /\ UNCHANGED <<funds, bank, requests>>
    BY <1>6 DEF CheckAccount, Await, Resumes, withdrawVars
  <2> HIDE DEF h
  <2> QED
    BY <1>0, <1>4, <2>1, <2>2, WithdrawQuiet
<1>7. ASSUME NEW s \in Slots, CheckExisting(s)
      PROVE  WithdrawInv'
  <2> DEFINE h == [task[s] EXCEPT !.pc = "request"]
             d == task[s].driver
  <2>1. h \in WithdrawTask /\ h.pc = "request" /\ h.driver = d
    BY <1>0, <1>7, WithdrawFields DEF CheckExisting, At, WithdrawTask
  <2>2. UNCHANGED <<funds, bank, requests>>
    BY <1>7 DEF CheckExisting, withdrawVars
  <2>3. CASE Finish(s)
    BY <1>4, <2>2, <2>3
  <2>4. CASE ~ Finish(s)
    <3>1. Resumes(s, h) /\ Pending(d) = {}
      BY <1>7, <2>4 DEF CheckExisting, Await, Resumes, UnderReview
    <3> HIDE DEF h
    <3>2. OneSlot' /\ task'[s] = h /\ \A u \in Slots \ {s} : task'[u] = task[u]
      BY <1>0, <3>1, SlotAfter
    <3>3. WithdrawTypeOK'
      BY <1>0, <2>1, <2>2, <3>2 DEF WithdrawTypeOK
    <3>4. \A u \in Slots : At(u, "review")' => At(u, "review") /\ task'[u] = task[u]
      BY <2>1, <3>2 DEF At
    <3>5. ASSUME NEW x \in Earners, "pending" \notin Verdicts
          PROVE  Share(Pending(x)', Asking(x)')
      <4>1. Pending(x)' = Pending(x) /\ Asking(x)' \in SUBSET Slots
        BY <2>2 DEF Pending, Asking
      <4>2. CASE x = d
        BY <3>1, <4>1, <4>2, ShareNone
      <4>3. CASE x # d
        <5>1. Asking(x)' \subseteq Asking(x)
          BY <2>1, <3>2, <4>3 DEF Asking, At
        <5> QED
          BY <3>5, <4>1, <5>1, ShareLess DEF WithdrawInv
      <4> QED
        BY <4>2, <4>3
    <3> QED
      BY <2>2, <3>2, <3>3, <3>4, <3>5 DEF WithdrawInv, Share, Room
  <2> QED
    BY <2>3, <2>4
<1>8. ASSUME NEW s \in Slots, InsertRequest(s)
      PROVE  WithdrawInv'
  <2> DEFINE d == task[s].driver
             row == [driver |-> d, amount |-> task[s].amount, status |-> "pending"]
  <2>1. PICK r \in RequestIds : requests[r] = None /\ requests' = [requests EXCEPT ![r] = row]
    BY <1>8 DEF InsertRequest
  <2>2. row \in WithdrawalRequest /\ row.driver = d /\ task[s].pc = "request"
    BY <1>0, <1>8, WithdrawFields DEF InsertRequest, At, WithdrawalRequest, WithdrawalStatus
  <2>3. Resumes(s, Idle) /\ UNCHANGED <<funds, bank>>
    BY <1>8 DEF InsertRequest, Finish, Resumes
  <2> HIDE DEF row
  <2>4. OneSlot' /\ task'[s] = Idle /\ \A u \in Slots \ {s} : task'[u] = task[u]
    BY <1>0, <2>3, SlotAfter
  <2>5. /\ requests'[r] = row /\ \A x \in RequestIds \ {r} : requests'[x] = requests[x]
        /\ requests' \in [RequestIds -> WithdrawalRequest \cup {None}]
    BY <1>0, <2>1, <2>2
  <2>6. WithdrawTypeOK'
    BY <1>0, <2>3, <2>4, <2>5 DEF WithdrawTypeOK
  <2>7. \A u \in Slots : At(u, "review")' =>
            /\ requests'[task'[u].id] \in WithdrawalRequest
            /\ task'[u].status \in Verdicts
    BY <1>0, <2>2, <2>4, <2>5, WithdrawFields DEF At, WithdrawInv
  <2>8. ASSUME NEW x \in Earners, "pending" \notin Verdicts
        PROVE  Share(Pending(x)', Asking(x)')
    <3>1. Asking(x)' \subseteq Asking(x) \ {s} /\ Share(Pending(x), Asking(x))
      BY <1>0, <2>4, <2>8 DEF Asking, At, WithdrawInv
    <3>2. CASE x = d
      <4>1. s \in Asking(x) /\ Pending(x)' \subseteq Pending(x) \cup {r}
        BY <2>2, <2>5, <3>2 DEF Asking, At, Pending
      <4>2. Written(s, r, Pending(x), Asking(x), Pending(x)', Asking(x)')
        BY <3>1, <4>1 DEF Written, Leaves
      <4> QED
        BY <3>1, <4>2, ShareMove
    <3>3. CASE x # d
      <4>1. Pending(x)' \subseteq Pending(x)
        BY <2>2, <2>5, <3>3 DEF Pending
      <4> QED
        BY <3>1, <4>1, ShareLess
    <3> QED
      BY <3>2, <3>3
  <2> QED
    BY <2>4, <2>6, <2>7, <2>8 DEF WithdrawInv, Share, Room
<1>9. ASSUME NEW s \in Slots, NEW r \in RequestIds, NEW status \in Verdicts,
             BeginReview(s, r, status)
      PROVE  WithdrawInv'
  <2> DEFINE h == [pc |-> "review", id |-> r, status |-> status]
  <2>1. h \in WithdrawTask /\ h.pc = "review" /\ h.id = r /\ h.status = status
    BY VerdictsAssumption DEF WithdrawTask
  <2>2. Resumes(s, h) /\ UNCHANGED <<funds, bank, requests>> /\ requests[r] \in WithdrawalRequest
    BY <1>0, <1>9 DEF BeginReview, Begin, Resumes, withdrawVars
  <2> HIDE DEF h
  <2>3. OneSlot' /\ task'[s] = h /\ \A u \in Slots \ {s} : task'[u] = task[u]
    BY <1>0, <2>2, SlotAfter
  <2>4. WithdrawTypeOK'
    BY <1>0, <2>1, <2>2, <2>3 DEF WithdrawTypeOK
  <2>5. \A x \in Earners : Pending(x)' = Pending(x) /\ Asking(x)' \subseteq Asking(x)
    BY <2>1, <2>2, <2>3 DEF Pending, Asking, At
  <2>6. "pending" \notin Verdicts => \A x \in Earners : Share(Pending(x)', Asking(x)')
    BY <2>5, ShareLess DEF WithdrawInv
  <2>7. \A u \in Slots : At(u, "review")' =>
            /\ requests'[task'[u].id] \in WithdrawalRequest
            /\ task'[u].status \in Verdicts
    BY <2>1, <2>2, <2>3 DEF At, WithdrawInv
  <2> QED
    BY <2>3, <2>4, <2>6, <2>7 DEF WithdrawInv, Share, Room
<1>10. ASSUME NEW s \in Slots, Review(s)
       PROVE  WithdrawInv'
  <2> DEFINE r == task[s].id
             row == [requests[r] EXCEPT !.status = task[s].status]
  <2>1. /\ r \in RequestIds /\ task[s].status \in Verdicts /\ task[s].status \in WithdrawalStatus
        /\ requests[r] \in WithdrawalRequest
    BY <1>0, <1>10, WithdrawFields DEF Review, At, WithdrawInv
  <2>2. row \in WithdrawalRequest /\ row.status \in Verdicts
    BY <2>1 DEF WithdrawalRequest
  <2>3. requests' = [requests EXCEPT ![r] = row] /\ Resumes(s, Idle) /\ UNCHANGED <<funds, bank>>
    BY <1>0, <1>10, <2>1 DEF Review, Finish, Resumes
  <2> HIDE DEF row
  <2>4. OneSlot' /\ task'[s] = Idle /\ \A u \in Slots \ {s} : task'[u] = task[u]
    BY <1>0, <2>3, SlotAfter
  <2>5. /\ requests'[r] = row /\ \A x \in RequestIds \ {r} : requests'[x] = requests[x]
        /\ requests' \in [RequestIds -> WithdrawalRequest \cup {None}]
    BY <1>0, <2>1, <2>2, <2>3
  <2>6. WithdrawTypeOK'
    BY <1>0, <2>3, <2>4, <2>5 DEF WithdrawTypeOK
  <2>7. \A u \in Slots : At(u, "review")' =>
            /\ requests'[task'[u].id] \in WithdrawalRequest
            /\ task'[u].status \in Verdicts
    BY <1>0, <2>2, <2>4, <2>5, WithdrawFields DEF At, WithdrawInv
  <2>8. ASSUME NEW x \in Earners, "pending" \notin Verdicts
        PROVE  Share(Pending(x)', Asking(x)')
    <3>1. Asking(x)' \subseteq Asking(x) /\ Pending(x)' \subseteq Pending(x)
      BY <1>0, <2>2, <2>4, <2>5, <2>8 DEF Asking, At, Pending
    <3> QED
      BY <2>8, <3>1, ShareLess DEF WithdrawInv
  <2> QED
    BY <2>4, <2>6, <2>7, <2>8 DEF WithdrawInv, Share, Room
<1>11. ASSUME NEW s \in Slots, WithdrawFails(s)
       PROVE  WithdrawInv'
  BY <1>4, <1>11 DEF WithdrawFails, withdrawVars
<1> QED
  BY <1>1, <1>2, <1>3, <1>5, <1>6, <1>7, <1>8, <1>9, <1>10, <1>11
  DEF WithdrawNext, WithdrawEvent, WithdrawStep

\* A driver never has more requests pending than handlers can be in flight, as long
\* as no review turns one back.
THEOREM PendingBounded == WithdrawSpec => []PendingPerRace
<1>1. RequestsInit /\ WithdrawInit => WithdrawInv
  <2> SUFFICES ASSUME RequestsInit, WithdrawInit PROVE WithdrawInv
    OBVIOUS
  <2>1. OneSlot /\ \A s \in Slots : task[s] = Idle
    BY DEF RequestsInit, OneSlot
  <2>2. WithdrawTypeOK
    BY <2>1 DEF WithdrawInit, WithdrawTypeOK
  <2>3. ASSUME NEW d \in Earners
        PROVE  Share(Pending(d), Asking(d))
    <3>1. Pending(d) = {} /\ Asking(d) \in SUBSET Slots
      BY DEF WithdrawInit, Pending, Asking
    <3> QED
      BY <3>1, ShareNone
  <2> QED
    BY <2>1, <2>2, <2>3, IdlePc DEF WithdrawInv, At
<1>2. WithdrawInv /\ [WithdrawNext]_<<task, withdrawVars>> => WithdrawInv'
  <2>1. WithdrawInv /\ UNCHANGED <<task, withdrawVars>> => WithdrawInv'
    BY DEF WithdrawInv, WithdrawTypeOK, OneSlot, At, Pending, Asking, Share, Room, withdrawVars
  <2> QED
    BY <2>1, WithdrawStepInv
<1>3. WithdrawInv => PendingPerRace
  BY DEF WithdrawInv, PendingPerRace, Share, Room
<1> QED
  BY <1>1, <1>2, <1>3, PTL DEF WithdrawSpec
-----------------------------------------------------------------------------
(* One-time passwords: cleared then inserted, looked up then marked used.  *)

Inserting(u, type) == {s \in Slots : At(s, "insert") /\ task[s].user = u /\ task[s].type = type}
Accepting(t) == {s \in Slots : At(s, "accept") /\ task[s].token = t}

OtpInv ==
    /\ OtpTypeOK /\ OneSlot
    /\ \A u \in Holders, type \in OtpTypes : Share(Live(u, type), Inserting(u, type))
    /\ \A t \in Tokens :
          /\ Room(accepted[t], Accepting(t))
          /\ otps[t] # None /\ ~ otps[t].used => accepted[t] = 0

LEMMA OtpFields ==
    ASSUME NEW h \in OtpTask \cup {Idle}
    PROVE  /\ h.pc \in {"clear", "insert"} =>
                 h \in [pc: {"clear", "insert"}, user: Holders, type: OtpTypes]
           /\ h.pc \in {"accept", "flag"} =>
                 h \in [pc: {"accept", "flag"}, token: Tokens, type: OtpTypes,
                       user: Holders, provider: Provider]
  BY DEF OtpTask, Idle

\* Tokens grow old or are cleared, contacts change, and handlers go on to anything
\* but an insert or an acceptance.
LEMMA OtpQuiet ==
    ASSUME OtpInv, OtpTypeOK', OneSlot',
           \A s \in Slots : task'[s] = task[s] \/ task'[s].pc \notin {"insert", "accept"},
           \A t \in Tokens : otps'[t] # None =>
               /\ otps[t] # None
               /\ otps'[t].user = otps[t].user /\ otps'[t].type = otps[t].type
               /\ otps'[t].used = otps[t].used,
           UNCHANGED accepted
    PROVE  OtpInv'
<1>1. ASSUME NEW u \in Holders, NEW type \in OtpTypes
      PROVE  Share(Live(u, type)', Inserting(u, type)')
  <2>1. Live(u, type)' \subseteq Live(u, type) /\ Inserting(u, type)' \subseteq Inserting(u, type)
    BY DEF Live, Inserting, At
  <2> QED
    BY <2>1, ShareLess DEF OtpInv
<1>2. ASSUME NEW t \in Tokens
      PROVE  Room(accepted[t]', Accepting(t)')
  <2>1. Accepting(t)' \subseteq Accepting(t)
    BY DEF Accepting, At
  <2>2. Room(accepted[t], Accepting(t)) /\ accepted[t] \in Nat
    BY DEF OtpInv, Room
  <2> QED
    BY <2>1, <2>2, RoomLess
<1>3. \A t \in Tokens : otps'[t] # None /\ ~ otps'[t].used => accepted'[t] = 0
  BY DEF OtpInv
<1> QED
  BY <1>1, <1>2, <1>3 DEF OtpInv, Share, Room

LEMMA OtpStepInv ==
    ASSUME OtpInv, OtpNext
    PROVE  OtpInv'
<1>0. /\ otps \in [Tokens -> Otp \cup {None}] /\ contacts \in [Holders -> Contact]
      /\ accepted \in [Tokens -> Nat] /\ \A s \in Slots : task[s] \in OtpTask \cup {Idle}
      /\ OneSlot /\ Idle \in OtpTask \cup {Idle} /\ Idle.pc = "idle"
  BY IdlePc DEF OtpInv, OtpTypeOK
<1>1. ASSUME NEW t \in Tokens, Grow(t)
      PROVE  OtpInv'
  <2> DEFINE row == [otps[t] EXCEPT !.age = Older(otps[t].age)]
  <2>1. otps[t] \in Otp /\ otps[t] # None
    BY <1>0, <1>1 DEF Grow
  <2>2. /\ row \in Otp /\ row.user = otps[t].user /\ row.type = otps[t].type
        /\ row.used = otps[t].used
    BY <2>1 DEF Otp, Older, Age
  <2>3. otps' = [otps EXCEPT ![t] = row] /\ UNCHANGED <<contacts, accepted, task>>
    BY <1>0, <1>1 DEF Grow
  <2> HIDE DEF row
  <2>4. /\ otps'[t] = row /\ \A x \in Tokens \ {t} : otps'[x] = otps[x]
        /\ otps' \in [Tokens -> Otp \cup {None}]
    BY <1>0, <2>2, <2>3
  <2>5. OtpTypeOK' /\ OneSlot'
    BY <1>0, <2>3, <2>4 DEF OtpTypeOK, OneSlot
  <2> QED
    BY <2>1, <2>2, <2>3, <2>4, <2>5, OtpQuiet
<1>2. ASSUME NEW u \in Holders, NEW changed \in SUBSET Provider, NEW provider \in Provider,
             ChangeContact(u, changed, provider)
      PROVE  OtpInv'
  <2> DEFINE row == [provider |-> provider, verified |-> contacts[u].verified \ changed]
  <2>1. row \in Contact
    BY <1>0 DEF Contact
  <2>2. contacts' = [contacts EXCEPT ![u] = row] /\ UNCHANGED <<otps, accepted, task>>
    BY <1>0, <1>2 DEF ChangeContact
  <2> HIDE DEF row
  <2>3. contacts' \in [Holders -> Contact]
    BY <1>0, <2>1, <2>2
  <2>4. OtpTypeOK' /\ OneSlot'
    BY <1>0, <2>2, <2>3 DEF OtpTypeOK, OneSlot
  <2> QED
    BY <2>2, <2>4, OtpQuiet
<1>3. ASSUME NEW s \in Slots, NEW h \in OtpTask \cup {Idle}, Resumes(s, h),
             h.pc \notin {"insert", "accept"},
             UNCHANGED <<otps, accepted>>, contacts' \in [Holders -> Contact]
      PROVE  OtpInv'
  <2>1. OneSlot' /\ task'[s] = h /\ \A u \in Slots \ {s} : task'[u] = task[u]
    BY <1>0, <1>3, SlotAfter
  <2>2. OtpTypeOK'
    BY <1>0, <1>3, <2>1 DEF OtpTypeOK
  <2> QED
    BY <1>3, <2>1, <2>2, OtpQuiet
<1>4. ASSUME NEW s \in Slots, NEW u \in Holders, NEW type \in OtpTypes, SendOtp(s, u, type)
      PROVE  OtpInv'
  <2> DEFINE h == [pc |-> "clear", user |-> u, type |-> type]
  <2>1. h \in OtpTask /\ h.pc = "clear"
    BY DEF OtpTask
  <2>2. Resumes(s, h) /\ UNCHANGED <<otps, contacts, accepted>>
    BY <1>4 DEF SendOtp, Begin, Resumes, otpVars
  <2> HIDE DEF h
  <2> QED
    BY <1>0, <1>3, <2>1, <2>2
<1>5. ASSUME NEW s \in Slots, ClearOtps(s)
      PROVE  OtpInv'
  <2> DEFINE h == [task[s] EXCEPT !.pc = "insert"]
             v == task[s].user
             x == task[s].type
  <2>1. /\ v \in Holders /\ x \in OtpTypes /\ h \in OtpTask
        /\ h.pc = "insert" /\ h.user = v /\ h.type = x
    BY <1>0, <1>5, OtpFields DEF ClearOtps, At, OtpTask
  <2>2. /\ otps' = [t \in Tokens |-> IF t \in Cleared(v, x) THEN None ELSE otps[t]]
        /\ Resumes(s, h) /\ UNCHANGED <<contacts, accepted>>
    BY <1>5 DEF ClearOtps, Await, Resumes
  <2> HIDE DEF h, v, x
  <2>3. OneSlot' /\ task'[s] = h /\ \A u \in Slots \ {s} : task'[u] = task[u]
    BY <1>0, <2>2, SlotAfter
  <2>4. OtpTypeOK'
    BY <1>0, <2>1, <2>2, <2>3 DEF OtpTypeOK
  <2>5. ASSUME NEW u \in Holders, NEW type \in OtpTypes
        PROVE  Share(Live(u, type)', Inserting(u, type)')
    <3>1. CASE u = v /\ type = x
      <4>1. Live(u, type)' = {} /\ Inserting(u, type)' \in SUBSET Slots
        BY <2>2, <3>1 DEF Live, Cleared, Inserting
      <4> QED
        BY <4>1, ShareNone
    <3>2. CASE ~ (u = v /\ type = x)
      <4>1. /\ Live(u, type)' \subseteq Live(u, type)
            /\ Inserting(u, type)' \subseteq Inserting(u, type)
        BY <2>1, <2>2, <2>3, <3>2 DEF Live, Inserting, At
      <4> QED
        BY <4>1, ShareLess DEF OtpInv
    <3> QED
      BY <3>1, <3>2
  <2>6. ASSUME NEW t \in Tokens
        PROVE  Room(accepted'[t], Accepting(t)')
    <3>1. Accepting(t)' \subseteq Accepting(t)
      BY <2>1, <2>3 DEF Accepting, At
    <3>2. Room(accepted[t], Accepting(t)) /\ accepted[t] \in Nat /\ accepted' = accepted
      BY <2>2 DEF OtpInv, Room
    <3> QED
      BY <3>1, <3>2, RoomLess
  <2>7. \A t \in Tokens : otps'[t] # None /\ ~ otps'[t].used => accepted'[t] = 0
    BY <2>2 DEF OtpInv
  <2> QED
    BY <2>3, <2>4, <2>5, <2>6, <2>7 DEF OtpInv, Share, Room
<1>6. ASSUME NEW s \in Slots, InsertOtp(s)
      PROVE  OtpInv'
  <2> DEFINE row == [user |-> task[s].user, type |-> task[s].type, used |-> FALSE, age |-> "new"]
  <2>1. /\ task[s].user \in Holders /\ task[s].type \in OtpTypes /\ task[s].pc = "insert"
    BY <1>0, <1>6, OtpFields DEF InsertOtp, At
  <2>2. row \in Otp
    <3>1. FALSE \in BOOLEAN /\ "new" \in Age
      BY DEF Age
    <3> QED
      BY <2>1, <3>1, Zenon DEF Otp
  <2>3. row.user = task[s].user /\ row.type = task[s].type
    OBVIOUS
  <2>4. PICK t \in Tokens : /\ otps[t] = None /\ accepted[t] = 0
                            /\ otps' = [otps EXCEPT ![t] = row]
    BY <1>6 DEF InsertOtp
  <2>5. Resumes(s, Idle) /\ UNCHANGED <<contacts, accepted>>
    BY <1>6 DEF InsertOtp, Finish, Resumes
  <2> HIDE DEF row
  <2>6. OneSlot' /\ task'[s] = Idle /\ \A u \in Slots \ {s} : task'[u] = task[u]
    BY <1>0, <2>5, SlotAfter
  <2>7. /\ otps'[t] = row /\ \A x \in Tokens \ {t} : otps'[x] = otps[x]
        /\ otps' \in [Tokens -> Otp \cup {None}]
    BY <1>0, <2>2, <2>4
  <2>8. OtpTypeOK'
    BY <1>0, <2>5, <2>6, <2>7 DEF OtpTypeOK
  <2>9. ASSUME NEW u \in Holders, NEW type \in OtpTypes
        PROVE  Share(Live(u, type)', Inserting(u, type)')
    <3>1. /\ Inserting(u, type)' \subseteq Inserting(u, type) \ {s}
          /\ Share(Live(u, type), Inserting(u, type))
      BY <1>0, <2>6 DEF Inserting, At, OtpInv
    <3>2. CASE u = task[s].user /\ type = task[s].type
      <4>1. s \in Inserting(u, type) /\ Live(u, type)' \subseteq Live(u, type) \cup {t}
        BY <2>1, <2>7, <3>2 DEF Inserting, At, Live
      <4>2. Written(s, t, Live(u, type), Inserting(u, type), Live(u, type)', Inserting(u, type)')
        BY <3>1, <4>1 DEF Written, Leaves
      <4> QED
        BY <3>1, <4>2, ShareMove
    <3>3. CASE ~ (u = task[s].user /\ type = task[s].type)
      <4>1. Live(u, type)' \subseteq Live(u, type)
        BY <2>3, <2>7, <3>3 DEF Live
      <4> QED
        BY <3>1, <4>1, ShareLess
    <3> QED
      BY <3>2, <3>3
  <2>10. ASSUME NEW x \in Tokens
         PROVE  Room(accepted'[x], Accepting(x)')
    <3>1. Accepting(x)' \subseteq Accepting(x)
      BY <1>0, <2>6 DEF Accepting, At
    <3>2. Room(accepted[x], Accepting(x)) /\ accepted[x] \in Nat /\ accepted' = accepted
      BY <2>5 DEF OtpInv, Room
    <3> QED
      BY <3>1, <3>2, RoomLess
  <2>11. \A x \in Tokens : otps'[x] # None /\ ~ otps'[x].used => accepted'[x] = 0
    BY <2>4, <2>5, <2>7 DEF OtpInv
  <2> QED
    BY <2>6, <2>8, <2>9, <2>10, <2>11 DEF OtpInv, Share, Room
<1>7. ASSUME NEW s \in Slots, NEW t \in Tokens, NEW type \in OtpTypes, VerifyOtp(s, t, type)
      PROVE  OtpInv'
  <2> DEFINE h == [pc |-> "accept", token |-> t, type |-> type, user |-> otps[t].user,
                   provider |-> contacts[otps[t].user].provider]
  <2>1. otps[t] \in Otp /\ otps[t] # None /\ ~ otps[t].used
    BY <1>0, <1>7 DEF VerifyOtp
  <2>2. otps[t].user \in Holders /\ contacts[otps[t].user].provider \in Provider
    BY <1>0, <2>1 DEF Otp, Contact
  <2>3. h \in OtpTask /\ h.pc = "accept" /\ h.token = t
    BY <2>2 DEF OtpTask
  <2>4. Resumes(s, h) /\ UNCHANGED <<otps, contacts, accepted>>
    BY <1>7 DEF VerifyOtp, Begin, Resumes, otpVars
  <2> HIDE DEF h
  <2>5. OneSlot' /\ task'[s] = h /\ \A u \in Slots \ {s} : task'[u] = task[u]
    BY <1>0, <2>4, SlotAfter
  <2>6. OtpTypeOK'
    BY <1>0, <2>3, <2>4, <2>5 DEF OtpTypeOK
  <2>7. ASSUME NEW u \in Holders, NEW x \in OtpTypes
        PROVE  Share(Live(u, x)', Inserting(u, x)')
    <3>1. Live(u, x)' = Live(u, x) /\ Inserting(u, x)' \subseteq Inserting(u, x)
      BY <2>3, <2>4, <2>5 DEF Live, Inserting, At
    <3> QED
      BY <3>1, ShareLess DEF OtpInv
  <2>8. ASSUME NEW x \in Tokens
        PROVE  Room(accepted'[x], Accepting(x)')
    <3>1. CASE x = t
      <4>1. accepted'[x] = 0 /\ Accepting(x)' \in SUBSET Slots
        BY <2>1, <2>4, <3>1 DEF OtpInv, Accepting
      <4> QED
        BY <4>1, RoomNone
    <3>2. CASE x # t
      <4>1. Accepting(x)' \subseteq Accepting(x)
        BY <2>3, <2>5, <3>2 DEF Accepting, At
      <4>2. Room(accepted[x], Accepting(x)) /\ accepted[x] \in Nat /\ accepted' = accepted
        BY <2>4 DEF OtpInv, Room
      <4> QED
        BY <4>1, <4>2, RoomLess
    <3> QED
      BY <3>1, <3>2
  <2> QED
    BY <2>4, <2>5, <2>6, <2>7, <2>8 DEF OtpInv, Share, Room
<1>8. ASSUME NEW s \in Slots, AcceptOtp(s)
      PROVE  OtpInv'
  <2> DEFINE t == task[s].token
             row == [otps[t] EXCEPT !.used = TRUE]
             flag == [task[s] EXCEPT !.pc = "flag"]
  <2>1. /\ t \in Tokens /\ task[s].pc = "accept" /\ flag \in OtpTask /\ flag.pc = "flag"
    BY <1>0, <1>8, OtpFields DEF AcceptOtp, At, OtpTask
  <2>2. CASE otps[t] = None
    <3>1. Resumes(s, Idle) /\ UNCHANGED <<otps, contacts, accepted>>
      BY <1>8, <2>2 DEF AcceptOtp, Finish, Resumes
    <3> QED
      BY <1>0, <1>3, <3>1
  <2>3. CASE otps[t] # None
    <3>1. otps[t] \in Otp
      BY <1>0, <2>1, <2>3
    <3>2. row \in Otp /\ row.used
      BY <3>1 DEF Otp
    <3>3. /\ otps' = [otps EXCEPT ![t] = row]
          /\ accepted' = [accepted EXCEPT ![t] = accepted[t] + 1] /\ UNCHANGED contacts
      BY <1>0, <1>8, <2>1, <2>3 DEF AcceptOtp, MarkedUsed
    <3>4. PICK h \in {Idle, flag} : Resumes(s, h)
      BY <1>8, <2>3 DEF AcceptOtp, Finish, Await, Resumes
    <3>5. h \in OtpTask \cup {Idle} /\ h.pc \notin {"insert", "accept"}
      BY <1>0, <2>1, <3>4
    <3> HIDE DEF row, flag
    <3>6. OneSlot' /\ task'[s] = h /\ \A u \in Slots \ {s} : task'[u] = task[u]
      BY <1>0, <3>4, SlotAfter
    <3>7. /\ otps'[t] = row /\ \A x \in Tokens \ {t} : otps'[x] = otps[x]
          /\ otps' \in [Tokens -> Otp \cup {None}]
      BY <1>0, <2>1, <3>2, <3>3
    <3>8. /\ accepted'[t] = accepted[t] + 1 /\ accepted[t] \in Nat
          /\ \A x \in Tokens \ {t} : accepted'[x] = accepted[x]
          /\ accepted' \in [Tokens -> Nat]
      BY <1>0, <2>1, <3>3
    <3>9. OtpTypeOK'
      BY <1>0, <3>3, <3>5, <3>6, <3>7, <3>8 DEF OtpTypeOK
    <3>10. ASSUME NEW u \in Holders, NEW x \in OtpTypes
           PROVE  Share(Live(u, x)', Inserting(u, x)')
      <4>1. Live(u, x)' \subseteq Live(u, x) /\ Inserting(u, x)' \subseteq Inserting(u, x)
        BY <3>2, <3>5, <3>6, <3>7 DEF Live, Inserting, At
      <4> QED
        BY <4>1, ShareLess DEF OtpInv
    <3>11. ASSUME NEW x \in Tokens
           PROVE  Room(accepted'[x], Accepting(x)')
      <4>1. Accepting(x)' \subseteq Accepting(x) \ {s} /\ Room(accepted[x], Accepting(x))
        BY <3>5, <3>6 DEF Accepting, At, OtpInv
      <4>2. CASE x = t
        <5>1. Leaves(s, Accepting(x), Accepting(x)')
          BY <2>1, <4>1, <4>2 DEF Leaves, Accepting, At
        <5>2. accepted'[x] \in Nat /\ accepted'[x] <= accepted[x] + 1
          BY <3>8, <4>2
        <5> QED
          BY <4>1, <5>1, <5>2, RoomMove
      <4>3. CASE x # t
        <5>1. accepted'[x] \in Nat /\ accepted'[x] <= accepted[x] /\ Accepting(x)' \subseteq Accepting(x)
          BY <1>0, <3>8, <4>1, <4>3
        <5> QED
          BY <4>1, <5>1, RoomLess
      <4> QED
        BY <4>2, <4>3
    <3>12. \A x \in Tokens : otps'[x] # None /\ ~ otps'[x].used => accepted'[x] = 0
      BY <3>2, <3>7, <3>8 DEF OtpInv
    <3> QED
      BY <3>6, <3>9, <3>10, <3>11, <3>12 DEF OtpInv, Share, Room
  <2> QED
    BY <2>2, <2>3
<1>9. ASSUME NEW s \in Slots, FlagVerified(s)
      PROVE  OtpInv'
  <2> DEFINE u == task[s].user
             row == [contacts[u] EXCEPT !.verified = contacts[u].verified \cup {task[s].provider}]
  <2>1. u \in Holders /\ task[s].provider \in Provider
    BY <1>0, <1>9, OtpFields DEF FlagVerified, At
  <2>2. row \in Contact
    BY <1>0, <2>1 DEF Contact
  <2>3. contacts' = [contacts EXCEPT ![u] = row] /\ Resumes(s, Idle) /\ UNCHANGED <<otps, accepted>>
    BY <1>0, <1>9, <2>1 DEF FlagVerified, Finish, Resumes
  <2> HIDE DEF row
  <2>4. contacts' \in [Holders -> Contact]
    BY <1>0, <2>2, <2>3
  <2> QED
    BY <1>0, <1>3, <2>3, <2>4
<1>10. ASSUME NEW s \in Slots, OtpFails(s)
       PROVE  OtpInv'
  BY <1>0, <1>3, <1>10 DEF OtpFails, Finish, Resumes, otpVars
<1> QED
  BY <1>1, <1>2, <1>4, <1>5, <1>6, <1>7, <1>8, <1>9, <1>10 DEF OtpNext

LEMMA OtpInvariant == OtpSpec => []OtpInv
<1>1. RequestsInit /\ OtpInit => OtpInv
  <2> SUFFICES ASSUME RequestsInit, OtpInit PROVE OtpInv
    OBVIOUS
  <2>1. OneSlot /\ \A s \in Slots : task[s] = Idle
    BY DEF RequestsInit, OneSlot
  <2>2. OtpTypeOK
    BY <2>1 DEF OtpInit, OtpTypeOK, Contact, Provider
  <2>3. ASSUME NEW u \in Holders, NEW type \in OtpTypes
        PROVE  Share(Live(u, type), Inserting(u, type))
    <3>1. Live(u, type) = {} /\ Inserting(u, type) \in SUBSET Slots
      BY DEF OtpInit, Live, Inserting
    <3> QED
      BY <3>1, ShareNone
  <2>4. ASSUME NEW t \in Tokens
        PROVE  Room(accepted[t], Accepting(t))
    <3>1. accepted[t] = 0 /\ Accepting(t) \in SUBSET Slots
      BY DEF OtpInit, Accepting
    <3> QED
      BY <3>1, RoomNone
  <2> QED
    BY <2>1, <2>2, <2>3, <2>4 DEF OtpInv, OtpInit
<1>2. OtpInv /\ [OtpNext]_<<task, otpVars>> => OtpInv'
  <2>1. OtpInv /\ UNCHANGED <<task, otpVars>> => OtpInv'
    BY OtpQuiet DEF OtpInv, OtpTypeOK, OneSlot, otpVars
  <2> QED
    BY <2>1, OtpStepInv
<1> QED
  BY <1>1, <1>2, PTL DEF OtpSpec

\* A user never has more live tokens of a type than handlers can be in flight.
THEOREM LiveTokensBounded == OtpSpec => []LiveTokensPerRace
<1>1. OtpInv => LiveTokensPerRace
  BY DEF OtpInv, LiveTokensPerRace, Share, Room, Inserting
<1> QED
  BY <1>1, OtpInvariant, PTL

\* Nor is a token accepted by more.
THEOREM AcceptancesBounded == OtpSpec => []AcceptedPerRace
<1>1. OtpInv => AcceptedPerRace
  BY DEF OtpInv, AcceptedPerRace, Room, Accepting
<1> QED
  BY <1>1, OtpInvariant, PTL
-----------------------------------------------------------------------------
(* Papers: a license is looked up unverified and rewritten later.          *)

Rewriting(l) == {s \in Slots : At(s, "rewrite") /\ task[s].id = l}

PapersInv ==
    /\ OneSlot
    /\ licenses \in Seq(License \cup {None}) /\ Len(licenses) <= MaxLicenses
    /\ rewritten \in [LicenseIds -> Nat]
    /\ \A s \in Slots :
          /\ At(s, "insertLicense") => task[s].owner \in Owners
          /\ At(s, "rewrite") => /\ task[s].id \in DOMAIN licenses
                                 /\ task[s].verdict \in Verification \cup {None}
    /\ \A l \in Licenses :
          licenses[l].verification = "verified" => Room(rewritten[l] + 1, Rewriting(l))

LEMMA LicenseTypes ==
    ASSUME PapersInv
    PROVE  /\ Len(licenses) \in Nat /\ MaxLicenses \in Nat /\ DOMAIN licenses = 1 .. Len(licenses)
           /\ DOMAIN licenses \subseteq LicenseIds
           /\ \A l \in DOMAIN licenses : licenses[l] \in License \cup {None}
           /\ \A l \in Licenses :
                 l \in DOMAIN licenses /\ l \in LicenseIds /\ licenses[l] \in License
<1>1. /\ Len(licenses) \in Nat /\ MaxLicenses \in Nat /\ DOMAIN licenses = 1 .. Len(licenses)
      /\ Len(licenses) <= MaxLicenses
      /\ \A l \in DOMAIN licenses : licenses[l] \in License \cup {None}
  BY PapersAssumption DEF PapersInv
<1>2. DOMAIN licenses \subseteq LicenseIds
  BY <1>1 DEF LicenseIds
<1> QED
  BY <1>1, <1>2 DEF Licenses

\* Handlers that rewrite no license.
LEMMA PapersQuiet ==
    ASSUME PapersInv, OneSlot', UNCHANGED <<licenses, rewritten>>,
           \A s \in Slots :
               \/ task'[s] = task[s]
               \/ /\ task'[s].pc # "rewrite"
                  /\ task'[s].pc = "insertLicense" => task'[s].owner \in Owners
    PROVE  PapersInv'
<1>1. ASSUME NEW l \in Licenses, licenses[l].verification = "verified"
      PROVE  Room(rewritten[l] + 1, Rewriting(l)')
  <2>1. Room(rewritten[l] + 1, Rewriting(l)) /\ rewritten[l] + 1 \in Nat
    BY <1>1 DEF PapersInv, Room
  <2>2. Rewriting(l)' \subseteq Rewriting(l)
    BY DEF Rewriting, At
  <2> QED
    BY <2>1, <2>2, RoomLess
<1>2. \A s \in Slots :
          /\ At(s, "rewrite")' => At(s, "rewrite") /\ task'[s] = task[s]
          /\ At(s, "insertLicense")' => task'[s].owner \in Owners
  BY DEF At, PapersInv
<1>3. \A l \in Licenses' : l \in Licenses
  BY DEF Licenses
<1> QED
  BY <1>1, <1>2, <1>3 DEF PapersInv, Room

LEMMA PapersStepInv ==
    ASSUME PapersInv, PapersNext
    PROVE  PapersInv'
<1>0. /\ OneSlot /\ licenses \in Seq(License \cup {None}) /\ Len(licenses) <= MaxLicenses
      /\ rewritten \in [LicenseIds -> Nat] /\ Idle.pc = "idle"
  BY IdlePc DEF PapersInv
<1>1. ASSUME NEW s \in Slots, NEW h, Resumes(s, h), h.pc # "rewrite",
             h.pc = "insertLicense" => h.owner \in Owners, UNCHANGED <<licenses, rewritten>>
      PROVE  PapersInv'
  <2>1. OneSlot' /\ task'[s] = h /\ \A u \in Slots \ {s} : task'[u] = task[u]
    BY <1>0, <1>1, SlotAfter
  <2> QED
    BY <1>1, <2>1, PapersQuiet
<1>2. ASSUME NEW l \in LicenseIds, RemoveLicense(l)
      PROVE  PapersInv'
  <2>1. /\ l \in DOMAIN licenses /\ licenses' = [licenses EXCEPT ![l] = None]
        /\ UNCHANGED <<task, rewritten>>
    BY <1>2 DEF RemoveLicense, Licenses
  <2>2. /\ licenses' \in Seq(License \cup {None}) /\ Len(licenses') = Len(licenses)
        /\ DOMAIN licenses' = DOMAIN licenses
    BY <1>0, <2>1, ExceptSeq
  <2>3. \A x \in Licenses' : x \in Licenses /\ licenses'[x] = licenses[x]
    BY <2>1 DEF Licenses
  <2>4. \A x \in Licenses : Rewriting(x)' = Rewriting(x)
    BY <2>1 DEF Rewriting, At
  <2> QED
    BY <1>0, <2>1, <2>2, <2>3, <2>4 DEF PapersInv, OneSlot, At, Room
<1>3. ASSUME NEW v \in VehicleIds, RemoveVehicle(v)
      PROVE  PapersInv'
  BY <1>0, <1>3, PapersQuiet DEF RemoveVehicle, OneSlot
<1>4. ASSUME NEW k \in VehicleKinds, RemoveType(k) \/ \E span \in Span : ChangeYears(k, span)
      PROVE  PapersInv'
  BY <1>0, <1>4, PapersQuiet DEF RemoveType, ChangeYears, OneSlot
<1>5. ASSUME NEW s \in Slots, NEW h, Begin(s, h), h.pc # "rewrite",
             h.pc = "insertLicense" => h.owner \in Owners, UNCHANGED papersVars
      PROVE  PapersInv'
  BY <1>1, <1>5 DEF Begin, Resumes, papersVars
<1>6. ASSUME NEW s \in Slots, NEW d \in Owners,
             \/ CreateLicense(s, d)
             \/ \E year \in Year : RegisterVehicle(s, d, year)
             \/ \E k \in VehicleKinds : SwitchType(s, d, k)
      PROVE  PapersInv'
  <2>1. CASE CreateLicense(s, d)
    <3>1. Begin(s, [pc |-> "insertLicense", owner |-> d]) /\ UNCHANGED papersVars
      BY <2>1 DEF CreateLicense
    <3> QED
      BY <1>5, <3>1
  <2>2. ASSUME NEW year \in Year, RegisterVehicle(s, d, year)
        PROVE  PapersInv'
    <3>1. /\ Begin(s, [pc |-> "type", id |-> None, owner |-> d, manufactured |-> year])
          /\ UNCHANGED papersVars
      BY <2>2 DEF RegisterVehicle
    <3> QED
      BY <1>5, <3>1
  <2>3. ASSUME NEW k \in VehicleKinds, SwitchType(s, d, k)
        PROVE  PapersInv'
    <3>1. /\ Begin(s, [pc |-> "owned", owner |-> d, type |-> k, minimum |-> years[k].minimum])
          /\ UNCHANGED papersVars
      BY <2>3 DEF SwitchType
    <3> QED
      BY <1>5, <3>1
  <2> QED
    BY <1>6, <2>1, <2>2, <2>3
<1>7. ASSUME NEW s \in Slots, NEW v \in VehicleIds, NEW year \in Year, UpdateVehicle(s, v, year)
      PROVE  PapersInv'
  <2>1. /\ Begin(s, [pc |-> "type", id |-> v, owner |-> vehicles[v].owner, manufactured |-> year])
        /\ UNCHANGED papersVars
    BY <1>7 DEF UpdateVehicle
  <2> QED
    BY <1>5, <2>1
<1>8. ASSUME NEW s \in Slots, NEW l \in LicenseIds, NEW verdict \in Verification \cup {None},
             FindLicense(s, l, verdict)
      PROVE  PapersInv'
  <2> DEFINE h == [pc |-> "rewrite", id |-> l, verdict |-> verdict]
  <2>1. h.pc = "rewrite" /\ h.id = l /\ h.verdict = verdict
    OBVIOUS
  <2>2. /\ l \in DOMAIN licenses /\ licenses[l].verification # "verified"
        /\ Resumes(s, h) /\ UNCHANGED <<licenses, rewritten>>
    BY <1>8 DEF FindLicense, Begin, Resumes, Licenses, Open, papersVars
  <2> HIDE DEF h
  <2>3. OneSlot' /\ task'[s] = h /\ \A u \in Slots \ {s} : task'[u] = task[u]
    BY <1>0, <2>2, SlotAfter
  <2>4. ASSUME NEW x \in Licenses, licenses[x].verification = "verified"
        PROVE  Room(rewritten[x] + 1, Rewriting(x)')
    <3>1. Room(rewritten[x] + 1, Rewriting(x)) /\ rewritten[x] + 1 \in Nat
      BY <2>4 DEF PapersInv, Room
    <3>2. Rewriting(x)' \subseteq Rewriting(x)
      BY <2>1, <2>2, <2>3, <2>4 DEF Rewriting, At
    <3> QED
      BY <3>1, <3>2, RoomLess
  <2>5. \A u \in Slots :
            /\ At(u, "insertLicense")' => task'[u].owner \in Owners
            /\ At(u, "rewrite")' => /\ task'[u].id \in DOMAIN licenses
                                    /\ task'[u].verdict \in Verification \cup {None}
    BY <2>1, <2>2, <2>3 DEF PapersInv, At
  <2>6. Licenses' = Licenses
    BY <2>2 DEF Licenses
  <2> QED
    BY <1>0, <2>2, <2>3, <2>4, <2>5, <2>6 DEF PapersInv, Room
<1>9. ASSUME NEW s \in Slots, InsertLicense(s)
      PROVE  PapersInv'
  <2> DEFINE row == [owner |-> task[s].owner, verification |-> "pending"]
  <2>1. Resumes(s, Idle) /\ UNCHANGED rewritten /\ Len(licenses) < MaxLicenses
    BY <1>9 DEF InsertLicense, Finish, Resumes
  <2>2. CASE licenses' = licenses
    BY <1>0, <1>1, <2>1, <2>2
  <2>3. CASE licenses' # licenses
    <3>1. licenses' = Append(licenses, row)
      BY <1>9, <2>3 DEF InsertLicense
    <3>2. row.verification = "pending"
      OBVIOUS
    <3>3. row \in License \cup {None}
      BY <1>9 DEF PapersInv, InsertLicense, License, Verification
    <3> HIDE DEF row
    <3>4. /\ licenses' \in Seq(License \cup {None}) /\ Len(licenses') = Len(licenses) + 1
          /\ \A x \in 1 .. Len(licenses) : licenses'[x] = licenses[x]
          /\ licenses'[Len(licenses) + 1] = row
      BY <1>0, <3>1, <3>3, AppendProperties
    <3>5. /\ DOMAIN licenses = 1 .. Len(licenses) /\ Len(licenses) \in Nat /\ MaxLicenses \in Nat
          /\ DOMAIN licenses' = 1 .. (Len(licenses) + 1)
      BY <1>0, <3>4, LicenseTypes
    <3>6. /\ Len(licenses') <= MaxLicenses /\ DOMAIN licenses \subseteq DOMAIN licenses'
          /\ \A x \in DOMAIN licenses' : x \in DOMAIN licenses \/ x = Len(licenses) + 1
      BY <2>1, <3>4, <3>5
    <3>7. OneSlot' /\ task'[s] = Idle /\ \A u \in Slots \ {s} : task'[u] = task[u]
      BY <1>0, <2>1, SlotAfter
    <3>8. \A u \in Slots :
              /\ At(u, "insertLicense")' => task'[u].owner \in Owners
              /\ At(u, "rewrite")' => /\ task'[u].id \in DOMAIN licenses'
                                      /\ task'[u].verdict \in Verification \cup {None}
      BY <1>0, <3>6, <3>7 DEF PapersInv, At
    <3>9. ASSUME NEW x \in Licenses', licenses'[x].verification = "verified"
          PROVE  Room(rewritten[x] + 1, Rewriting(x)')
      <4>1. x \in Licenses /\ licenses'[x] = licenses[x]
        BY <3>2, <3>4, <3>5, <3>6, <3>9 DEF Licenses
      <4>2. Room(rewritten[x] + 1, Rewriting(x)) /\ rewritten[x] + 1 \in Nat
        BY <3>9, <4>1 DEF PapersInv, Room
      <4>3. Rewriting(x)' \subseteq Rewriting(x)
        BY <1>0, <3>7 DEF Rewriting, At
      <4> QED
        BY <4>2, <4>3, RoomLess
    <3> QED
      BY <1>0, <2>1, <3>4, <3>6, <3>7, <3>8, <3>9 DEF PapersInv, Room
  <2> QED
    BY <2>2, <2>3
<1>10. ASSUME NEW s \in Slots, RewriteLicense(s)
       PROVE  PapersInv'
  <2> DEFINE l == task[s].id
             old == licenses[l]
             verdict == task[s].verdict
             new == IF verdict = None THEN old ELSE [old EXCEPT !.verification = verdict]
             times == IF {old.verification, new.verification} = {"verified"}
                      THEN rewritten[l] + 1 ELSE 0
  <2>1. /\ l \in DOMAIN licenses /\ verdict \in Verification \cup {None} /\ s \in Rewriting(l)
        /\ Resumes(s, Idle)
    BY <1>10 DEF RewriteLicense, At, PapersInv, Rewriting, Finish, Resumes
  <2>2. CASE old = None
    <3>1. UNCHANGED <<licenses, rewritten>>
      BY <1>10, <2>2 DEF RewriteLicense
    <3> QED
      BY <1>0, <1>1, <2>1, <3>1
  <2>3. CASE old # None
    <3>1. l \in Licenses /\ l \in LicenseIds /\ old \in License
      BY <2>1, <2>3, LicenseTypes DEF Licenses
    <3>2. new \in License
      BY <2>1, <3>1 DEF License
    <3>3. licenses' = [licenses EXCEPT ![l] = new] /\ rewritten' = [rewritten EXCEPT ![l] = times]
      BY <1>0, <1>10, <2>3, <3>1 DEF RewriteLicense
    <3>4. rewritten[l] \in Nat /\ times \in Nat
      BY <1>0, <3>1
    <3>5. new.verification = "verified" /\ old.verification = "verified" =>
              times = rewritten[l] + 1
      OBVIOUS
    <3>6. old.verification # "verified" => times = 0
      OBVIOUS
    <3> HIDE DEF new, times
    <3>7. /\ licenses' \in Seq(License \cup {None}) /\ Len(licenses') = Len(licenses)
          /\ DOMAIN licenses' = DOMAIN licenses
          /\ licenses'[l] = new /\ \A x \in DOMAIN licenses \ {l} : licenses'[x] = licenses[x]
      BY <1>0, <2>1, <3>2, <3>3, ExceptSeq
    <3>8. /\ rewritten' \in [LicenseIds -> Nat] /\ rewritten'[l] = times
          /\ \A x \in LicenseIds \ {l} : rewritten'[x] = rewritten[x]
      BY <1>0, <3>1, <3>3, <3>4
    <3>9. OneSlot' /\ task'[s] = Idle /\ \A u \in Slots \ {s} : task'[u] = task[u]
      BY <1>0, <2>1, SlotAfter
    <3>10. \A u \in Slots :
              /\ At(u, "insertLicense")' => task'[u].owner \in Owners
              /\ At(u, "rewrite")' => /\ task'[u].id \in DOMAIN licenses'
                                      /\ task'[u].verdict \in Verification \cup {None}
      BY <1>0, <3>7, <3>9 DEF PapersInv, At
    <3>11. ASSUME NEW x \in Licenses', licenses'[x].verification = "verified"
           PROVE  Room(rewritten'[x] + 1, Rewriting(x)')
      <4>0. Rewriting(x)' \subseteq Rewriting(x) \ {s}
        BY <1>0, <3>9 DEF Rewriting, At
      <4>1. CASE x # l
        <5>1. x \in Licenses /\ licenses'[x] = licenses[x] /\ x \in LicenseIds
          BY <3>7, <3>11, <4>1, LicenseTypes DEF Licenses
        <5>2. /\ Room(rewritten[x] + 1, Rewriting(x)) /\ rewritten[x] + 1 \in Nat
              /\ rewritten'[x] = rewritten[x]
          BY <3>8, <3>11, <4>1, <5>1 DEF PapersInv, Room
        <5> QED
          BY <4>0, <5>2, RoomLess
      <4>2. CASE x = l /\ old.verification = "verified"
        <5>1. Room(rewritten[l] + 1, Rewriting(l)) /\ rewritten'[l] = rewritten[l] + 1
          BY <3>1, <3>5, <3>7, <3>8, <3>11, <4>2 DEF PapersInv
        <5>2. Leaves(s, Rewriting(l), Rewriting(x)')
          BY <2>1, <4>0, <4>2 DEF Leaves
        <5>3. rewritten'[l] + 1 \in Nat /\ rewritten'[l] + 1 <= (rewritten[l] + 1) + 1
          BY <3>4, <5>1
        <5> QED
          BY <4>2, <5>1, <5>2, <5>3, RoomMove
      <4>3. CASE x = l /\ old.verification # "verified"
        <5>1. Room(0, Rewriting(l)) /\ rewritten'[l] = 0
          BY <3>6, <3>8, <4>3, RoomNone DEF Rewriting
        <5>2. Leaves(s, Rewriting(l), Rewriting(x)')
          BY <2>1, <4>0, <4>3 DEF Leaves
        <5> QED
          BY <4>3, <5>1, <5>2, RoomMove
      <4> QED
        BY <4>1, <4>2, <4>3
    <3> QED
      BY <1>0, <3>7, <3>8, <3>9, <3>10, <3>11 DEF PapersInv, Room
  <2> QED
    BY <2>2, <2>3
<1>11. ASSUME NEW s \in Slots, GetVehicleType(s) \/ CanSwitch(s)
       PROVE  PapersInv'
  <2>1. /\ UNCHANGED <<licenses, rewritten>>
        /\ \E h : Resumes(s, h) /\ h.pc \in {"idle", "vehicle", "switch"}
    BY <1>0, <1>11 DEF GetVehicleType, CanSwitch, Finish, Await, Resumes, papersVars
  <2> QED
    BY <1>1, <2>1
<1>12. ASSUME NEW s \in Slots, WriteVehicle(s) \/ WriteType(s) \/ PapersFail(s)
       PROVE  PapersInv'
  <2>1. UNCHANGED <<licenses, rewritten>> /\ Resumes(s, Idle)
    BY <1>12 DEF WriteVehicle, WriteType, PapersFail, Finish, Resumes, papersVars
  <2> QED
    BY <1>0, <1>1, <2>1
<1> QED
  BY <1>2, <1>3, <1>4, <1>6, <1>7, <1>8, <1>9, <1>10, <1>11, <1>12
  DEF PapersNext, PapersEvent, PapersStep

\* A verified license is written again by handlers alone that were in flight before.
THEOREM VerifiedBounded == PapersSpec => []VerifiedPerRace
<1>1. RequestsInit /\ PapersInit => PapersInv
  <2> SUFFICES ASSUME RequestsInit, PapersInit PROVE PapersInv
    OBVIOUS
  <2>1. OneSlot /\ \A s \in Slots : task[s] = Idle
    BY DEF RequestsInit, OneSlot
  <2>2. /\ licenses \in Seq(License \cup {None}) /\ Len(licenses) = 0 /\ DOMAIN licenses = {}
        /\ rewritten \in [LicenseIds -> Nat]
    BY DEF PapersInit
  <2>3. Len(licenses) <= MaxLicenses /\ Licenses = {}
    BY <2>2, PapersAssumption DEF Licenses
  <2> QED
    BY <2>1, <2>2, <2>3, IdlePc DEF PapersInv, At
<1>2. PapersInv /\ [PapersNext]_<<task, papersVars>> => PapersInv'
  <2>1. PapersInv /\ UNCHANGED <<task, papersVars>> => PapersInv'
    BY PapersQuiet DEF PapersInv, OneSlot, papersVars
  <2> QED
    BY <2>1, PapersStepInv
<1>3. PapersInv => VerifiedPerRace
  <2> SUFFICES ASSUME PapersInv, NEW l \in Licenses, licenses[l].verification = "verified"
               PROVE  rewritten[l] + Cardinality(Rewriting(l)) < Cardinality(Slots)
    BY DEF VerifiedPerRace, Rewriting
  <2>1. Room(rewritten[l] + 1, Rewriting(l)) /\ rewritten[l] \in Nat
    BY LicenseTypes DEF PapersInv
  <2>2. rewritten[l] + 1 + Cardinality(Rewriting(l)) <= Cardinality(Slots)
    BY <2>1 DEF Room
  <2> QED
    BY <2>1, <2>2, SlotCount DEF Rewriting
<1> QED
  BY <1>1, <1>2, <1>3, PTL DEF PapersSpec
-----------------------------------------------------------------------------
(* Registration: the unique phone decides between registrations that       *)
(* overlap; officers are picked by loads that may be old when assigned.    *)

Assigned(m) == {p \in People : officerOf[p] = m}
Assigning(m) == {s \in Slots : At(s, "assign") /\ task[s].officer = m}
NeedsOfficer == {"officers", "assign"}

\* Nobody else assigns an officer to the account this handler has made.
OwnAccount(s) ==
    task[s].pc \in NeedsOfficer =>
        /\ people[task[s].id] # None /\ officerOf[task[s].id] = None
        /\ \A u \in Slots :
              task[u].pc \in NeedsOfficer /\ task[u].id = task[s].id => u = s

OnePerson == \A p, q \in People :
    people[p] # None /\ people[q] # None /\ people[p].phone = people[q].phone => p = q

RegisterInv ==
    /\ RegisterTypeOK /\ OneSlot
    /\ OnePerson
    /\ \A p \in People : people[p] = None => officerOf[p] = None
    /\ \A s \in Slots : OwnAccount(s) /\ (At(s, "role") => people[task[s].id] # None)
    /\ \A m \in AccountOfficers : IsFiniteSet(Assigned(m))
    /\ \A m, n \in AccountOfficers :
          Load(m) + Cardinality(Assigning(m)) <= Load(n) + Cardinality(Slots)

LEMMA RegisterFields ==
    ASSUME NEW h \in RegisterTask \cup {Idle}
    PROVE  /\ h.pc = "person" => h \in [pc: {"person"}, phone: Phones, role: PublicRoles]
           /\ h.pc = "role" => h \in [pc: {"role"}, id: People, role: PublicRoles]
           /\ h.pc = "officers" => h \in [pc: {"officers"}, id: People]
           /\ h.pc = "assign" => h \in [pc: {"assign"}, id: People, officer: AccountOfficers]
           /\ h.pc = "supervise" =>
                 h \in [pc: {"supervise"}, supervisor: Supervisors, managers: SUBSET AccountOfficers]
  BY DEF RegisterTask, Idle

LEMMA Loads ==
    ASSUME RegisterInv
    PROVE  /\ \A m \in AccountOfficers : Load(m) = Cardinality(Assigned(m)) /\ Load(m) \in Nat
           /\ \A m \in AccountOfficers :
                 Cardinality(Assigning(m)) \in Nat /\ Cardinality(Assigning(m)) <= Cardinality(Slots)
           /\ Cardinality(Slots) \in Nat
<1>1. \A m \in AccountOfficers : Load(m) = Cardinality(Assigned(m)) /\ IsFiniteSet(Assigned(m))
  BY DEF Load, Assigned, RegisterInv
<1>2. \A m \in AccountOfficers : Assigning(m) \in SUBSET Slots
  BY DEF Assigning
<1> QED
  BY <1>1, <1>2, SlotCount, FS_CardinalityType

\* A handler goes on to a step before its account is made, or ends; accounts may gain
\* roles and officers supervisors.
LEMMA RegisterQuiet ==
    ASSUME RegisterInv, NEW s \in Slots, NEW h \in RegisterTask \cup {Idle}, Resumes(s, h),
           h.pc \notin NeedsOfficer, h.pc = "role" => people[h.id] # None,
           people' \in [People -> Person \cup {None}],
           \A p \in People :
               /\ people'[p] = None <=> people[p] = None
               /\ people[p] # None => people'[p].phone = people[p].phone,
           UNCHANGED officerOf,
           supervisorOf' \in [AccountOfficers -> Supervisors \cup {None}]
    PROVE  RegisterInv'
<1>1. OneSlot' /\ task'[s] = h /\ \A u \in Slots \ {s} : task'[u] = task[u]
  BY SlotAfter DEF RegisterInv
<1>2. RegisterTypeOK'
  BY <1>1 DEF RegisterInv, RegisterTypeOK
<1>3. /\ OnePerson' /\ \A p \in People : people'[p] = None => officerOf'[p] = None
  BY DEF RegisterInv, OnePerson
<1>4. \A u \in Slots : task[u].pc \in NeedsOfficer \cup {"role"} => task[u].id \in People
  BY RegisterFields DEF RegisterInv, RegisterTypeOK, NeedsOfficer
<1>5. \A u \in Slots : OwnAccount(u)'
  BY <1>1, <1>4 DEF RegisterInv, OwnAccount
<1>6. \A u \in Slots : At(u, "role")' => people'[task'[u].id] # None
  <2>1. h.pc = "role" => h.id \in People
    BY RegisterFields
  <2> QED
    BY <1>1, <1>4, <2>1 DEF RegisterInv, At
<1>7. \A m \in AccountOfficers : Assigned(m)' = Assigned(m) /\ Load(m)' = Load(m)
  BY DEF Assigned, Load
<1>8. ASSUME NEW m \in AccountOfficers
      PROVE  /\ Cardinality(Assigning(m)') \in Nat
             /\ Cardinality(Assigning(m)') <= Cardinality(Assigning(m))
  <2>1. Assigning(m)' \in SUBSET Assigning(m) /\ Assigning(m) \in SUBSET Slots
    BY <1>1 DEF Assigning, At, NeedsOfficer
  <2> QED
    BY <2>1, SlotCount, FS_Subset, FS_CardinalityType
<1>9. ASSUME NEW m \in AccountOfficers, NEW n \in AccountOfficers
      PROVE  Load(m)' + Cardinality(Assigning(m)') <= Load(n)' + Cardinality(Slots)
  <2>1. Load(m) + Cardinality(Assigning(m)) <= Load(n) + Cardinality(Slots)
    BY DEF RegisterInv
  <2> QED
    BY <1>7, <1>8, <2>1, Loads
<1> QED
  BY <1>1, <1>2, <1>3, <1>5, <1>6, <1>7, <1>9 DEF RegisterInv

LEMMA RegisterStepInv ==
    ASSUME RegisterInv, RegisterNext
    PROVE  RegisterInv'
<1>0. /\ people \in [People -> Person \cup {None}]
      /\ officerOf \in [People -> AccountOfficers \cup {None}]
      /\ supervisorOf \in [AccountOfficers -> Supervisors \cup {None}]
      /\ \A s \in Slots : task[s] \in RegisterTask \cup {Idle}
      /\ OneSlot /\ Idle \in RegisterTask \cup {Idle} /\ Idle.pc = "idle"
  BY IdlePc DEF RegisterInv, RegisterTypeOK
<1>1. ASSUME NEW s \in Slots, NEW h \in RegisterTask \cup {Idle}, Resumes(s, h),
             h.pc \notin NeedsOfficer, h.pc = "role" => people[h.id] # None,
             UNCHANGED <<people, officerOf>>,
             supervisorOf' \in [AccountOfficers -> Supervisors \cup {None}]
      PROVE  RegisterInv'
  BY <1>0, <1>1, RegisterQuiet
<1>2. ASSUME NEW s \in Slots, Finish(s), UNCHANGED <<people, officerOf, supervisorOf>>
      PROVE  RegisterInv'
  BY <1>0, <1>1, <1>2 DEF Finish, Resumes, NeedsOfficer
<1>3. ASSUME NEW s \in Slots, NEW phone \in Phones, NEW role \in PublicRoles,
             Register(s, phone, role)
      PROVE  RegisterInv'
  <2>0. UNCHANGED <<people, officerOf, supervisorOf>>
    BY <1>3 DEF Register, registerVars
  <2>1. CASE WithPhone(phone) = {} /\ Begin(s, [pc |-> "person", phone |-> phone, role |-> role])
    <3> DEFINE h == [pc |-> "person", phone |-> phone, role |-> role]
    <3>1. h \in RegisterTask /\ h.pc = "person"
      BY DEF RegisterTask
    <3>2. Resumes(s, h)
      BY <2>1 DEF Begin, Resumes
    <3> HIDE DEF h
    <3> QED
      BY <1>0, <1>1, <2>0, <3>1, <3>2 DEF NeedsOfficer
  <2>2. ASSUME NEW p \in WithPhone(phone), Begin(s, [pc |-> "role", id |-> p, role |-> role])
        PROVE  RegisterInv'
    <3> DEFINE h == [pc |-> "role", id |-> p, role |-> role]
    <3>1. p \in People /\ people[p] # None
      BY DEF WithPhone
    <3>2. h \in RegisterTask /\ h.pc = "role" /\ h.id = p
      BY <3>1 DEF RegisterTask
    <3>3. Resumes(s, h)
      BY <2>2 DEF Begin, Resumes
    <3> HIDE DEF h
    <3> QED
      BY <1>0, <1>1, <2>0, <3>1, <3>2, <3>3 DEF NeedsOfficer
  <2> QED
    BY <1>3, <2>1, <2>2 DEF Register
<1>4. ASSUME NEW s \in Slots, NEW v \in Supervisors, NEW managers \in SUBSET AccountOfficers,
             FindManagers(s, v, managers)
      PROVE  RegisterInv'
  <2> DEFINE h == [pc |-> "supervise", supervisor |-> v, managers |-> managers]
  <2>1. h \in RegisterTask /\ h.pc = "supervise"
    BY DEF RegisterTask
  <2>2. Resumes(s, h) /\ UNCHANGED <<people, officerOf, supervisorOf>>
    BY <1>4 DEF FindManagers, Begin, Resumes, registerVars
  <2> HIDE DEF h
  <2> QED
    BY <1>0, <1>1, <2>1, <2>2 DEF NeedsOfficer
<1>5. ASSUME NEW s \in Slots, AddRole(s)
      PROVE  RegisterInv'
  <2> DEFINE p == task[s].id
             row == [people[p] EXCEPT !.roles = people[p].roles \cup {task[s].role}]
  <2>1. p \in People /\ task[s].role \in PublicRoles /\ people[p] # None
    BY <1>0, <1>5, RegisterFields DEF AddRole, At, RegisterInv
  <2>2. people[p] \in Person
    BY <1>0, <2>1
  <2>3. row \in Person /\ row # None /\ row.phone = people[p].phone
    BY <2>1, <2>2, NoneIsNoAccount DEF Person
  <2>4. /\ people' = [people EXCEPT ![p] = row] /\ Resumes(s, Idle)
        /\ UNCHANGED <<officerOf, supervisorOf>>
    BY <1>0, <1>5, <2>1 DEF AddRole, Finish, Resumes
  <2> HIDE DEF row, p
  <2>5. /\ people'[p] = row /\ \A x \in People \ {p} : people'[x] = people[x]
        /\ people' \in [People -> Person \cup {None}]
    BY <1>0, <2>1, <2>3, <2>4
  <2>6. \A x \in People :
            /\ people'[x] = None <=> people[x] = None
            /\ people[x] # None => people'[x].phone = people[x].phone
    BY <2>1, <2>3, <2>5
  <2> QED
    BY <1>0, <2>4, <2>5, <2>6, RegisterQuiet DEF NeedsOfficer
<1>6. ASSUME NEW s \in Slots, AssignManagers(s)
      PROVE  RegisterInv'
  <2>1. task[s].supervisor \in Supervisors
    BY <1>0, <1>6, RegisterFields DEF AssignManagers, At
  <2>2. /\ supervisorOf' \in [AccountOfficers -> Supervisors \cup {None}]
        /\ Resumes(s, Idle) /\ UNCHANGED <<people, officerOf>>
    BY <1>0, <1>6, <2>1 DEF AssignManagers, Finish, Resumes
  <2> QED
    BY <1>0, <1>1, <2>2 DEF NeedsOfficer
<1>7. ASSUME NEW s \in Slots, RegisterFails(s)
      PROVE  RegisterInv'
  BY <1>2, <1>7 DEF RegisterFails, registerVars
<1>8. ASSUME NEW s \in Slots, InsertUser(s)
      PROVE  RegisterInv'
  <2>1. CASE PhoneTaken(task[s].phone)
    BY <1>2, <1>8, <2>1 DEF InsertUser
  <2>2. CASE ~ PhoneTaken(task[s].phone)
    <3> DEFINE row == [phone |-> task[s].phone, roles |-> {task[s].role}]
    <3>1. PICK p \in People : /\ people[p] = None /\ people' = [people EXCEPT ![p] = row]
                              /\ \/ Await(s, [pc |-> "officers", id |-> p])
                                 \/ Finish(s)
      BY <1>8, <2>2 DEF InsertUser
    <3>2. /\ row \in Person /\ row # None /\ row.phone = task[s].phone
          /\ UNCHANGED <<officerOf, supervisorOf>>
      BY <1>0, <1>8, RegisterFields, NoneIsNoAccount DEF InsertUser, At, Person
    <3> DEFINE asks == [pc |-> "officers", id |-> p]
    <3>3. asks \in RegisterTask /\ asks.pc = "officers" /\ asks.id = p
      BY DEF RegisterTask
    <3>4. PICK h \in {Idle, asks} : Resumes(s, h)
      BY <3>1 DEF Await, Finish, Resumes
    <3>5. h \in RegisterTask \cup {Idle} /\ (h.pc = "idle" \/ (h.pc = "officers" /\ h.id = p))
      BY <1>0, <3>3
    <3> HIDE DEF row, asks
    <3>6. OneSlot' /\ task'[s] = h /\ \A u \in Slots \ {s} : task'[u] = task[u]
      BY <1>0, <3>4, SlotAfter
    <3>7. /\ people'[p] = row /\ \A x \in People \ {p} : people'[x] = people[x]
          /\ people' \in [People -> Person \cup {None}]
      BY <1>0, <3>1, <3>2
    <3>8. RegisterTypeOK'
      BY <1>0, <3>2, <3>5, <3>6, <3>7 DEF RegisterTypeOK
    <3>9. \A x \in People : people[x] # None => people[x].phone # task[s].phone
      BY <2>2 DEF PhoneTaken, WithPhone
    <3>10. OnePerson'
      BY <3>2, <3>7, <3>9 DEF RegisterInv, OnePerson
    <3>11. \A x \in People : people'[x] = None => officerOf'[x] = None
      BY <3>2, <3>7 DEF RegisterInv
    <3>12. \A u \in Slots : task[u].pc \in NeedsOfficer \cup {"role"} => task[u].id \in People \ {p}
      BY <1>0, <3>1, RegisterFields DEF NeedsOfficer, RegisterInv, OwnAccount, At
    <3>13. OwnAccount(s)'
      <4>1. h.pc \in NeedsOfficer => h.id = p
        BY <3>5 DEF NeedsOfficer
      <4>2. people'[p] # None /\ officerOf'[p] = None
        BY <3>1, <3>2, <3>7 DEF RegisterInv
      <4> QED
        BY <3>6, <3>12, <4>1, <4>2 DEF OwnAccount
    <3>14. \A u \in Slots \ {s} : OwnAccount(u)'
      <4> SUFFICES ASSUME NEW u \in Slots \ {s}, task[u].pc \in NeedsOfficer
                   PROVE  OwnAccount(u)'
        BY <3>6 DEF OwnAccount
      <4>1. OwnAccount(u) /\ task[u].id \in People \ {p}
        BY <3>12 DEF RegisterInv
      <4>2. h.pc \in NeedsOfficer => h.id = p
        BY <3>5 DEF NeedsOfficer
      <4> QED
        BY <3>2, <3>6, <3>7, <4>1, <4>2 DEF OwnAccount
    <3>15. \A u \in Slots : At(u, "role")' => people'[task'[u].id] # None
      BY <3>5, <3>6, <3>7, <3>12 DEF RegisterInv, At
    <3>16. \A m \in AccountOfficers : Assigned(m)' = Assigned(m) /\ Load(m)' = Load(m)
      BY <3>2 DEF Assigned, Load
    <3>17. ASSUME NEW m \in AccountOfficers
           PROVE  /\ Cardinality(Assigning(m)') \in Nat
                  /\ Cardinality(Assigning(m)') <= Cardinality(Assigning(m))
      <4>1. Assigning(m)' \in SUBSET Assigning(m) /\ Assigning(m) \in SUBSET Slots
        BY <3>5, <3>6 DEF Assigning, At
      <4> QED
        BY <4>1, SlotCount, FS_Subset, FS_CardinalityType
    <3>18. ASSUME NEW m \in AccountOfficers, NEW n \in AccountOfficers
           PROVE  Load(m)' + Cardinality(Assigning(m)') <= Load(n)' + Cardinality(Slots)
      <4>1. Load(m) + Cardinality(Assigning(m)) <= Load(n) + Cardinality(Slots)
        BY DEF RegisterInv
      <4> QED
        BY <3>16, <3>17, <4>1, Loads
    <3> QED
      BY <3>6, <3>8, <3>10, <3>11, <3>13, <3>14, <3>15, <3>16, <3>18 DEF RegisterInv
  <2> QED
    BY <2>1, <2>2
<1>9. ASSUME NEW s \in Slots, PickOfficer(s)
      PROVE  RegisterInv'
  <2>1. PICK k \in LeastLoaded :
            Await(s, [pc |-> "assign", id |-> task[s].id, officer |-> k])
    BY <1>9 DEF PickOfficer
  <2> DEFINE h == [pc |-> "assign", id |-> task[s].id, officer |-> k]
  <2>2. task[s].pc = "officers" /\ task[s].id \in People /\ k \in AccountOfficers
    BY <1>0, <1>9, RegisterFields DEF PickOfficer, At, LeastLoaded
  <2>3. h \in RegisterTask /\ h.pc = "assign" /\ h.id = task[s].id /\ h.officer = k
    BY <2>2 DEF RegisterTask
  <2>4. Resumes(s, h) /\ UNCHANGED <<people, officerOf, supervisorOf>>
    BY <1>9, <2>1 DEF PickOfficer, Await, Resumes, registerVars
  <2> HIDE DEF h
  <2>5. OneSlot' /\ task'[s] = h /\ \A u \in Slots \ {s} : task'[u] = task[u]
    BY <1>0, <2>4, SlotAfter
  <2>6. RegisterTypeOK'
    BY <1>0, <2>3, <2>4, <2>5 DEF RegisterTypeOK
  <2>7. \A u \in Slots : OwnAccount(u)'
    BY <2>2, <2>3, <2>4, <2>5 DEF RegisterInv, OwnAccount, NeedsOfficer
  <2>8. \A u \in Slots : At(u, "role")' => people'[task'[u].id] # None
    BY <2>3, <2>4, <2>5 DEF RegisterInv, At
  <2>9. \A m \in AccountOfficers : Assigned(m)' = Assigned(m) /\ Load(m)' = Load(m)
    BY <2>4 DEF Assigned, Load
  <2>10. ASSUME NEW m \in AccountOfficers
         PROVE  /\ Cardinality(Assigning(m)') \in Nat
                /\ Cardinality(Assigning(m)') <= Cardinality(Slots)
                /\ m # k => Cardinality(Assigning(m)') <= Cardinality(Assigning(m))
    <3>1. Assigning(m)' \in SUBSET Slots /\ Assigning(m) \in SUBSET Slots
      BY DEF Assigning
    <3>2. m # k => Assigning(m)' \in SUBSET Assigning(m)
      BY <2>3, <2>5 DEF Assigning, At
    <3> QED
      BY <3>1, <3>2, SlotCount, FS_Subset
  <2>11. ASSUME NEW m \in AccountOfficers, NEW n \in AccountOfficers
         PROVE  Load(m)' + Cardinality(Assigning(m)') <= Load(n)' + Cardinality(Slots)
    <3>1. Load(m) + Cardinality(Assigning(m)) <= Load(n) + Cardinality(Slots)
      BY DEF RegisterInv
    <3>2. m = k => Load(m) <= Load(n)
      BY DEF LeastLoaded
    <3> QED
      BY <2>9, <2>10, <3>1, <3>2, Loads
  <2> QED
    BY <2>4, <2>5, <2>6, <2>7, <2>8, <2>9, <2>11 DEF RegisterInv, OnePerson
<1>10. ASSUME NEW s \in Slots, AssignOfficer(s)
       PROVE  RegisterInv'
  <2>0. task[s].pc = "assign" /\ task[s].id \in People /\ task[s].officer \in AccountOfficers
    BY <1>0, <1>10, RegisterFields DEF AssignOfficer, At
  <2>1. PICK p \in People, k \in AccountOfficers :
            task[s].pc = "assign" /\ task[s].id = p /\ task[s].officer = k
    BY <2>0
  <2>2. /\ people[p] # None /\ officerOf[p] = None /\ k # None
        /\ \A u \in Slots \ {s} : task[u].pc \in NeedsOfficer => task[u].id # p
    BY <2>1, NoneIsNoAccount DEF RegisterInv, OwnAccount, NeedsOfficer
  <2>3. /\ officerOf' = [officerOf EXCEPT ![p] = k] /\ Resumes(s, Idle)
        /\ UNCHANGED <<people, supervisorOf>>
    BY <1>10, <2>1 DEF AssignOfficer, Finish, Resumes
  <2>4. OneSlot' /\ task'[s] = Idle /\ \A u \in Slots \ {s} : task'[u] = task[u]
    BY <1>0, <2>3, SlotAfter
  <2>5. /\ officerOf'[p] = k /\ \A x \in People \ {p} : officerOf'[x] = officerOf[x]
        /\ officerOf' \in [People -> AccountOfficers \cup {None}]
    BY <1>0, <2>1, <2>3
  <2>6. RegisterTypeOK'
    BY <1>0, <2>3, <2>4, <2>5 DEF RegisterTypeOK
  <2>7. \A u \in Slots : task[u].pc \in NeedsOfficer => task[u].id \in People
    BY <1>0, RegisterFields DEF NeedsOfficer
  <2>8. \A u \in Slots : OwnAccount(u)'
    BY <1>0, <2>2, <2>3, <2>4, <2>5, <2>7 DEF RegisterInv, OwnAccount, NeedsOfficer
  <2>9. /\ \A u \in Slots : At(u, "role")' => people'[task'[u].id] # None
        /\ \A x \in People : people'[x] = None => officerOf'[x] = None
    BY <1>0, <2>2, <2>3, <2>4, <2>5 DEF RegisterInv, At
  <2>10. /\ Assigned(k)' = Assigned(k) \cup {p} /\ p \notin Assigned(k)
         /\ \A m \in AccountOfficers \ {k} : Assigned(m)' = Assigned(m)
    <3>1. p \notin Assigned(k)
      BY <2>1, <2>2, NoneIsNoAccount DEF Assigned
    <3>2. \A x \in People : x \in Assigned(k)' <=> x \in Assigned(k) \cup {p}
      BY <2>1, <2>5 DEF Assigned
    <3>3. Assigned(k)' = Assigned(k) \cup {p}
      BY <2>1, <3>2 DEF Assigned
    <3>4. ASSUME NEW m \in AccountOfficers \ {k}
          PROVE  Assigned(m)' = Assigned(m)
      <4>1. \A x \in People : x \in Assigned(m)' <=> x \in Assigned(m)
        BY <2>1, <2>2, <2>5, NoneIsNoAccount DEF Assigned
      <4> QED
        BY <4>1 DEF Assigned
    <3> QED
      BY <3>1, <3>3, <3>4
  <2>11. IsFiniteSet(Assigned(k)') /\ Cardinality(Assigned(k)') = Cardinality(Assigned(k)) + 1
    <3>1. IsFiniteSet(Assigned(k))
      BY <2>1 DEF RegisterInv
    <3>2. IsFiniteSet(Assigned(k) \cup {p})
      BY <3>1, FS_AddElement
    <3>3. Cardinality(Assigned(k) \cup {p}) = Cardinality(Assigned(k)) + 1
      BY <2>10, <3>1, FS_AddElement
    <3> QED
      BY <2>10, <3>2, <3>3
  <2>12. \A m \in AccountOfficers :
            /\ IsFiniteSet(Assigned(m)')
            /\ Load(m)' = IF m = k THEN Load(m) + 1 ELSE Load(m)
    <3>1. \A m \in AccountOfficers : Load(m)' = Cardinality(Assigned(m)')
      BY DEF Load, Assigned
    <3> QED
      BY <2>10, <2>11, <3>1, Loads DEF RegisterInv
  <2>13. ASSUME NEW m \in AccountOfficers
         PROVE  /\ Cardinality(Assigning(m)') \in Nat
                /\ Cardinality(Assigning(m)') <= Cardinality(Assigning(m))
                /\ m = k => Cardinality(Assigning(m)') + 1 <= Cardinality(Assigning(m))
    <3>1. Assigning(m)' \in SUBSET Assigning(m) /\ Assigning(m) \in SUBSET Slots
      BY <1>0, <2>4 DEF Assigning, At
    <3>2. m = k => s \in Assigning(m) /\ Assigning(m)' \in SUBSET (Assigning(m) \ {s})
      BY <1>0, <2>1, <2>4 DEF Assigning, At
    <3>3. /\ IsFiniteSet(Assigning(m)) /\ Cardinality(Assigning(m)) \in Nat
          /\ IsFiniteSet(Assigning(m) \ {s})
      BY <3>1, SlotCount, FS_RemoveElement
    <3>4. s \in Assigning(m) => Cardinality(Assigning(m) \ {s}) = Cardinality(Assigning(m)) - 1
      BY <3>3, FS_RemoveElement
    <3>5. m = k => Cardinality(Assigning(m)') <= Cardinality(Assigning(m) \ {s})
      BY <3>2, <3>3, FS_Subset
    <3>6. Cardinality(Assigning(m)') \in Nat /\ Cardinality(Assigning(m)') <= Cardinality(Assigning(m))
      BY <3>1, <3>3, FS_Subset, FS_CardinalityType
    <3> QED
      BY <3>2, <3>3, <3>4, <3>5, <3>6
  <2>14. ASSUME NEW m \in AccountOfficers, NEW n \in AccountOfficers
         PROVE  Load(m)' + Cardinality(Assigning(m)') <= Load(n)' + Cardinality(Slots)
    <3>1. Load(m) + Cardinality(Assigning(m)) <= Load(n) + Cardinality(Slots)
      BY DEF RegisterInv
    <3> QED
      BY <2>12, <2>13, <3>1, Loads
  <2> QED
    BY <2>3, <2>4, <2>6, <2>8, <2>9, <2>12, <2>14 DEF RegisterInv, OnePerson
<1> QED
  BY <1>3, <1>4, <1>5, <1>6, <1>7, <1>8, <1>9, <1>10 DEF RegisterNext, RegisterStep

LEMMA RegisterInvariant == RegisterSpec => []RegisterInv
<1>1. RequestsInit /\ RegisterInit => RegisterInv
  <2> SUFFICES ASSUME RequestsInit, RegisterInit PROVE RegisterInv
    OBVIOUS
  <2>1. OneSlot /\ \A s \in Slots : task[s] = Idle
    BY DEF RequestsInit, OneSlot
  <2>2. RegisterTypeOK /\ OnePerson
    BY <2>1 DEF RegisterInit, RegisterTypeOK, OnePerson
  <2>3. \A s \in Slots : OwnAccount(s) /\ ~ At(s, "role")
    BY <2>1, IdlePc DEF OwnAccount, NeedsOfficer, At
  <2>4. ASSUME NEW m \in AccountOfficers
        PROVE  /\ Assigned(m) = {} /\ IsFiniteSet(Assigned(m)) /\ Load(m) = 0
               /\ Cardinality(Assigning(m)) \in Nat /\ Cardinality(Assigning(m)) <= Cardinality(Slots)
    <3>1. Assigned(m) = {} /\ Load(m) = Cardinality(Assigned(m))
      BY NoneIsNoAccount DEF RegisterInit, Assigned, Load
    <3>2. Assigning(m) \in SUBSET Slots
      BY DEF Assigning
    <3> QED
      BY <3>1, <3>2, FS_EmptySet, SlotCount
  <2>5. \A m, n \in AccountOfficers :
            Load(m) + Cardinality(Assigning(m)) <= Load(n) + Cardinality(Slots)
    BY <2>4, SlotsAreFinite, FS_CardinalityType
  <2> QED
    BY <2>1, <2>2, <2>3, <2>4, <2>5 DEF RegisterInv, RegisterInit
<1>2. RegisterInv /\ [RegisterNext]_<<task, registerVars>> => RegisterInv'
  <2>1. RegisterInv /\ UNCHANGED <<task, registerVars>> => RegisterInv'
    BY DEF RegisterInv, RegisterTypeOK, OneSlot, OnePerson, OwnAccount, At, Assigned, Assigning,
           Load, registerVars
  <2> QED
    BY <2>1, RegisterStepInv
<1> QED
  BY <1>1, <1>2, PTL DEF RegisterSpec

\* However registrations overlap, a phone belongs to one account.
THEOREM PhonesUnique == RegisterSpec => []OneAccountPerPhone
<1>1. RegisterInv => OneAccountPerPhone
  <2> SUFFICES ASSUME RegisterInv, NEW phone \in Phones
               PROVE  Cardinality(WithPhone(phone)) <= 1
    BY DEF OneAccountPerPhone
  <2>1. \A p, q \in WithPhone(phone) : p = q
    BY DEF RegisterInv, OnePerson, WithPhone
  <2>2. CASE WithPhone(phone) = {}
    BY <2>2, FS_EmptySet
  <2>3. CASE WithPhone(phone) # {}
    <3>1. PICK p : WithPhone(phone) = {p}
      BY <2>1, <2>3
    <3>2. Cardinality({p}) = 1
      BY FS_Singleton
    <3> QED
      BY <3>1, <3>2
  <2> QED
    BY <2>2, <2>3
<1> QED
  BY <1>1, RegisterInvariant, PTL

\* The loads of the officers differ by no more than the handlers in flight.
THEOREM DriversShared == RegisterSpec => []OfficersShareDrivers
<1>1. RegisterInv => OfficersShareDrivers
  <2> SUFFICES ASSUME RegisterInv, NEW m \in AccountOfficers, NEW n \in AccountOfficers
               PROVE  Load(m) <= Load(n) + Cardinality(Slots)
    BY DEF OfficersShareDrivers
  <2>1. Load(m) + Cardinality(Assigning(m)) <= Load(n) + Cardinality(Slots)
    BY DEF RegisterInv
  <2> QED
    BY <2>1, Loads
<1> QED
  BY <1>1, RegisterInvariant, PTL
-----------------------------------------------------------------------------
(* Administered tables: a look for the name, then the row is written.      *)

\* Two rows of the same name, and group where updates compare it.
Alike(row, other) == Same("update", row, other)
RowsLike(row) == {i \in Present : Alike(row, rows[i])}

\* The handlers about to write a row like row, but those that write over a row of kept.
Naming(row, kept) ==
    {s \in Slots : \/ At(s, "insert") /\ Alike(row, task[s].row)
                   \/ /\ At(s, "write") /\ task[s].row # None /\ Alike(row, task[s].row)
                      /\ task[s].id \notin kept}

\* An update that looks past its own row is not counted while that row has the name;
\* another may rename that row meanwhile, and then it is.  So whichever rows like row
\* are kept, the slots have room for them and for the handlers that add to them.
CatalogInv ==
    /\ OneSlot /\ table \in DOMAIN Tables /\ rows \in Seq(Row \cup {None})
    /\ \A s \in Slots : task[s] \in CatalogTask \cup {Idle}
    /\ \A row \in Row : \A kept \in SUBSET RowsLike(row) : Share(kept, Naming(row, kept))
    /\ Tables[table].unique =>
           \A i, j \in Present : rows[i].name = rows[j].name => i = j

\* Like is like: the operator compares fields of both rows.
LEMMA AlikeRows ==
    ASSUME NEW a, NEW b, NEW c
    PROVE  /\ Alike(a, a)
           /\ Alike(a, b) => Alike(b, a)
           /\ Alike(a, b) /\ Alike(b, c) => Alike(a, c)
           /\ Alike(a, b) <=> a.name = b.name /\ ("update" \in Tables[table].grouped => a.group = b.group)
           /\ a.name = b.name /\ a.group = b.group => (Alike(a, c) <=> Alike(b, c))
                                                      /\ (Alike(c, a) <=> Alike(c, b))
  BY DEF Alike, Same

\* A step after which no row has a new name, and no handler is about to write one that
\* was not.
LEMMA CatalogQuiet ==
    ASSUME CatalogInv, OneSlot', table' = table, rows' \in Seq(Row \cup {None}),
           \A s \in Slots : task'[s] \in CatalogTask \cup {Idle},
           Present' \subseteq Present,
           \A i \in Present' : rows'[i].name = rows[i].name /\ rows'[i].group = rows[i].group,
           \A s \in Slots :
               \/ task'[s] = task[s]
               \/ task'[s].pc \notin {"insert", "write"}
               \/ task'[s].pc = "write" /\ task'[s].row = None
    PROVE  CatalogInv'
<1> SUFFICES ASSUME NEW row \in Row, NEW kept \in SUBSET RowsLike(row)'
             PROVE  Share(kept, Naming(row, kept)')
  <2>1. Tables[table].unique =>
            \A i, j \in Present' : rows'[i].name = rows'[j].name => i = j
    BY DEF CatalogInv
  <2>2. \A row \in Row : \A kept \in SUBSET RowsLike(row)' : Share(kept, Naming(row, kept)')
    OBVIOUS
  <2> QED
    BY <2>1, <2>2 DEF CatalogInv, Share, Room
<1>1. RowsLike(row)' \subseteq RowsLike(row)
  BY AlikeRows DEF RowsLike, Alike, Same
<1>2. Naming(row, kept)' \subseteq Naming(row, kept)
  BY DEF Naming, At, Alike, Same
<1>3. Share(kept, Naming(row, kept))
  BY <1>1 DEF CatalogInv
<1> QED
  BY <1>2, <1>3, ShareLess

\* A handler that knows which row it is to write: nothing like it is there, but the
\* row it writes over.
LEMMA CatalogLook ==
    ASSUME CatalogInv, UNCHANGED catalogVars, NEW s \in Slots, NEW h \in CatalogTask,
           task[s] = Idle, Resumes(s, h),
           \/ h.pc = "insert" /\ RowsLike(h.row) = {}
           \/ h.pc = "write" /\ h.row # None /\ RowsLike(h.row) \subseteq {h.id}
    PROVE  CatalogInv'
<1>0. /\ OneSlot' /\ task'[s] = h /\ \A u \in Slots \ {s} : task'[u] = task[u]
      /\ Present' = Present /\ rows' = rows /\ table' = table
  BY SlotAfter DEF CatalogInv, catalogVars, Present
<1> SUFFICES ASSUME NEW row \in Row, NEW kept \in SUBSET RowsLike(row)
             PROVE  Share(kept, Naming(row, kept)')
  <2>1. \A row : RowsLike(row)' = RowsLike(row)
    BY <1>0 DEF RowsLike, Alike, Same
  <2>2. \A row \in Row : \A kept \in SUBSET RowsLike(row)' : Share(kept, Naming(row, kept)')
    BY <2>1
  <2>3. \A u \in Slots : task'[u] \in CatalogTask \cup {Idle}
    BY <1>0 DEF CatalogInv
  <2> QED
    BY <1>0, <2>2, <2>3 DEF CatalogInv, Share, Room
<1>1. Share(kept, Naming(row, kept)) /\ Naming(row, kept)' \in SUBSET Slots
  BY DEF CatalogInv, Naming
<1>2. \A u \in Slots \ {s} : u \in Naming(row, kept)' => u \in Naming(row, kept)
  BY <1>0 DEF Naming, At, Alike, Same
<1>3. CASE s \notin Naming(row, kept)'
  <2>1. Naming(row, kept)' \subseteq Naming(row, kept)
    BY <1>1, <1>2, <1>3
  <2> QED
    BY <1>1, <2>1, ShareLess
<1>4. CASE s \in Naming(row, kept)'
  <2>1. Alike(row, h.row) /\ (h.pc = "write" => h.id \notin kept)
    BY <1>0, <1>4 DEF Naming, At, Alike, Same
  <2>2. RowsLike(row) \subseteq RowsLike(h.row)
    BY <2>1, AlikeRows DEF RowsLike
  <2>3. kept = {}
    BY <2>1, <2>2
  <2> QED
    BY <1>1, <2>3, ShareNone
<1> QED
  BY <1>3, <1>4

\* The look of Create and Update finds what the later count is about.
LEMMA LookFinds ==
    ASSUME NEW op \in {"create", "update"}, table \in DOMAIN Tables,
           NEW row \in Row, NEW self, Clash(op, row, self) = {}
    PROVE  RowsLike(row) \subseteq self
<1>1. op \in Tables[table].grouped => "update" \in Tables[table].grouped
  BY DEF Tables, Table, VehicleTypes, VehicleBrands, Faqs, CancelReasons, TermsOfServices,
         SupportCategories, SupportQuestions, Incentives, MailTemplates
<1>2. ASSUME NEW i \in Present, Alike(row, rows[i]), i \notin self
      PROVE  FALSE
  BY <1>1, <1>2 DEF Clash, Alike, Same
<1> QED
  BY <1>2 DEF RowsLike

\* The row with index i is written like row by the handler in slot s, over another
\* row or as a new one.
LEMMA CatalogWrites ==
    ASSUME CatalogInv, NEW s \in Slots, NEW i \in Ids, NEW new \in Row,
           table' = table, rows' \in Seq(Row \cup {None}), Resumes(s, Idle),
           \/ At(s, "insert") /\ i \notin Present
           \/ At(s, "write") /\ task[s].row # None /\ task[s].id = i,
           Alike(new, task[s].row), rows'[i] = new, Present' = Present \cup {i},
           \A j \in Present \ {i} : rows'[j] = rows[j],
           Tables[table].unique => \A j \in Present \ {i} : rows[j].name # new.name
    PROVE  CatalogInv'
<1>0. /\ OneSlot' /\ task'[s] = Idle /\ task'[s].pc = "idle"
      /\ \A u \in Slots \ {s} : task'[u] = task[u]
  BY SlotAfter, IdlePc DEF CatalogInv
<1>1. Tables[table].unique =>
          \A j, k \in Present' : rows'[j].name = rows'[k].name => j = k
  BY DEF CatalogInv
<1> SUFFICES ASSUME NEW row \in Row, NEW kept \in SUBSET RowsLike(row)'
             PROVE  Share(kept, Naming(row, kept)')
  <2>1. \A row \in Row : \A kept \in SUBSET RowsLike(row)' : Share(kept, Naming(row, kept)')
    OBVIOUS
  <2>2. \A u \in Slots : task'[u] \in CatalogTask \cup {Idle}
    BY <1>0 DEF CatalogInv
  <2> QED
    BY <1>0, <1>1, <2>1, <2>2 DEF CatalogInv, Share, Room
<1> DEFINE before == kept \ {i}
<1>2. \A j \in RowsLike(row)' : j \in RowsLike(row) \/ j = i
  BY DEF RowsLike, Alike, Same
<1>3. i \in RowsLike(row)' => Alike(row, new)
  BY DEF RowsLike, Alike, Same
<1>4. Naming(row, kept)' \subseteq Naming(row, kept) \ {s}
  BY <1>0 DEF Naming, At, Alike, Same
<1>5. CASE kept \subseteq RowsLike(row)
  BY <1>4, <1>5, ShareLess DEF CatalogInv
<1>6. CASE ~ (kept \subseteq RowsLike(row))
  <2>1. i \in kept /\ i \notin RowsLike(row) /\ before \in SUBSET RowsLike(row)
    BY <1>2, <1>6
  <2>2. Alike(row, task[s].row)
    BY <1>3, <2>1, AlikeRows
  <2>3. s \in Naming(row, before)
    BY <2>2 DEF Naming, At
  <2>4. Naming(row, kept) \subseteq Naming(row, before)
    BY DEF Naming
  <2>5. Written(s, i, before, Naming(row, before), kept, Naming(row, kept)')
    BY <1>4, <2>3, <2>4 DEF Written, Leaves
  <2>6. Share(before, Naming(row, before))
    BY <2>1 DEF CatalogInv
  <2> QED
    BY <2>5, <2>6, ShareMove
<1> QED
  BY <1>5, <1>6

\* What a handler holds.
LEMMA CatalogFields ==
    ASSUME CatalogInv, NEW s \in Slots
    PROVE  /\ At(s, "insert") => task[s].row \in Row
           /\ At(s, "write") => task[s].id \in Ids /\ task[s].row \in Row \cup {None}
           /\ At(s, "activate") => task[s].active \in BOOLEAN
  BY DEF CatalogInv, CatalogTask, At, Idle

\* A request in a table begins: the slot was free, and what it holds is typed.
LEMMA CatalogBegins ==
    ASSUME CatalogInv, NEW s \in Slots, NEW h \in CatalogTask, Begin(s, h),
           UNCHANGED catalogVars,
           h.pc \notin {"insert", "write"} \/ (h.pc = "write" /\ h.row = None)
    PROVE  CatalogInv'
<1>1. /\ OneSlot' /\ task'[s] = h /\ \A u \in Slots \ {s} : task'[u] = task[u]
      /\ UNCHANGED <<table, rows, Present>>
  BY SlotAfter DEF Begin, Resumes, CatalogInv, catalogVars, Present
<1>2. /\ rows' \in Seq(Row \cup {None})
      /\ \A u \in Slots : task'[u] \in CatalogTask \cup {Idle}
      /\ \A u \in Slots : \/ task'[u] = task[u]
                          \/ task'[u].pc \notin {"insert", "write"}
                          \/ task'[u].pc = "write" /\ task'[u].row = None
  BY <1>1 DEF CatalogInv
<1> QED
  BY <1>1, <1>2, CatalogQuiet

\* A handler returns, and no row has a new name.
LEMMA CatalogEnds ==
    ASSUME CatalogInv, NEW s \in Slots, Finish(s), table' = table,
           rows' \in Seq(Row \cup {None}), Present' \subseteq Present,
           \A i \in Present' : rows'[i].name = rows[i].name /\ rows'[i].group = rows[i].group
    PROVE  CatalogInv'
<1>1. /\ OneSlot' /\ task'[s] = Idle /\ task'[s].pc = "idle"
      /\ \A u \in Slots \ {s} : task'[u] = task[u]
  BY SlotAfter, IdlePc DEF Finish, Resumes, CatalogInv
<1>2. /\ \A u \in Slots : task'[u] \in CatalogTask \cup {Idle}
      /\ \A u \in Slots : task'[u] = task[u] \/ task'[u].pc \notin {"insert", "write"}
  BY <1>1 DEF CatalogInv
<1> QED
  BY <1>1, <1>2, CatalogQuiet

\* A new row.
LEMMA CatalogInserts ==
    ASSUME CatalogInv, NEW s \in Slots, Insert(s)
    PROVE  CatalogInv'
<1> DEFINE new == task[s].row
           n == Len(rows) + 1
<1>0. /\ rows \in Seq(Row \cup {None}) /\ new \in Row /\ At(s, "insert")
      /\ table' = table /\ Finish(s) /\ Resumes(s, Idle) /\ Len(rows) < MaxRows
  BY CatalogFields DEF CatalogInv, Insert, Finish, Resumes
<1>1. CASE Refused(new, {})
  <2>1. rows' = rows /\ Present' = Present
    BY <1>1 DEF Insert, Present
  <2> QED
    BY <1>0, <2>1, CatalogEnds
<1>2. CASE ~ Refused(new, {})
  <2>1. rows' = Append(rows, new)
    BY <1>2 DEF Insert
  <2>2. new # None
    BY <1>0, CatalogAssumption
  <2>3. /\ rows' \in Seq(Row \cup {None}) /\ Len(rows') = n /\ rows'[n] = new
        /\ DOMAIN rows = 1 .. Len(rows) /\ DOMAIN rows' = 1 .. n
        /\ \A j \in DOMAIN rows : rows'[j] = rows[j]
    BY <1>0, <2>1, AppendProperties
  <2>4. /\ n \in Nat /\ n \notin DOMAIN rows /\ DOMAIN rows' = DOMAIN rows \cup {n}
        /\ n \in Ids
    BY <1>0, <2>3, CatalogAssumption, LenProperties DEF Ids
  <2> HIDE DEF n, new
  <2>5. Present' = Present \cup {n} /\ n \notin Present
    BY <2>2, <2>3, <2>4 DEF Present
  <2>6. \A j \in Present \ {n} : rows'[j] = rows[j]
    BY <2>3 DEF Present
  <2>7. Tables[table].unique => \A j \in Present \ {n} : rows[j].name # new.name
    BY <1>2 DEF Refused
  <2>8. Alike(new, task[s].row)
    BY AlikeRows DEF new
  <2> QED
    BY <1>0, <2>3, <2>4, <2>5, <2>6, <2>7, <2>8, CatalogWrites
<1> QED
  BY <1>1, <1>2

\* A row is written over, or the update throws.
LEMMA CatalogOverwrites ==
    ASSUME CatalogInv, NEW s \in Slots, Write(s)
    PROVE  CatalogInv'
<1> DEFINE i == task[s].id
           row == task[s].row
<1>0. /\ rows \in Seq(Row \cup {None}) /\ i \in Ids /\ row \in Row \cup {None}
      /\ At(s, "write") /\ table' = table /\ Finish(s) /\ Resumes(s, Idle)
  BY CatalogFields DEF CatalogInv, Write, Finish, Resumes
<1>1. CASE row = None \/ i \notin Present \/ Refused(row, {i})
  <2>1. rows' = rows /\ Present' = Present
    BY <1>1 DEF Write, Present
  <2> QED
    BY <1>0, <2>1, CatalogEnds
<1>2. CASE ~ (row = None \/ i \notin Present \/ Refused(row, {i}))
  <2> DEFINE new == IF row.previous # None
                    THEN row ELSE [row EXCEPT !.previous = rows[i].previous]
  <2>1. row \in Row /\ i \in DOMAIN rows /\ rows[i] \in Row
    BY <1>0, <1>2 DEF Present
  <2>2. rows' = [rows EXCEPT ![i] = new]
    BY <1>2, <2>1 DEF Write
  <2>3. new \in Row /\ new.name = row.name /\ new.group = row.group
    BY <2>1 DEF Row
  <2>4. new # None
    BY <2>3, CatalogAssumption
  <2> HIDE DEF new
  <2>5. /\ rows' \in Seq(Row \cup {None}) /\ DOMAIN rows' = DOMAIN rows /\ rows'[i] = new
        /\ \A j \in DOMAIN rows \ {i} : rows'[j] = rows[j]
    BY <1>0, <2>1, <2>2, <2>3, ExceptSeq
  <2>6. Present' = Present \cup {i} /\ \A j \in Present \ {i} : rows'[j] = rows[j]
    BY <2>1, <2>4, <2>5 DEF Present
  <2>7. Tables[table].unique => \A j \in Present \ {i} : rows[j].name # new.name
    BY <1>2, <2>3 DEF Refused
  <2>8. Alike(new, task[s].row)
    BY <2>3, AlikeRows
  <2> QED
    BY <1>0, <1>2, <2>3, <2>5, <2>6, <2>7, <2>8, CatalogWrites
<1> QED
  BY <1>1, <1>2

\* A template is made active or not, under its name.
LEMMA CatalogActivates ==
    ASSUME CatalogInv, NEW s \in Slots, WriteActive(s)
    PROVE  CatalogInv'
<1> DEFINE i == task[s].id
<1>0. rows \in Seq(Row \cup {None}) /\ At(s, "activate") /\ table' = table /\ Finish(s)
      /\ task[s].active \in BOOLEAN
  BY CatalogFields DEF CatalogInv, WriteActive
<1>1. CASE i \notin Present
  <2>1. rows' = rows /\ Present' = Present
    BY <1>1 DEF WriteActive, Present
  <2> QED
    BY <1>0, <2>1, CatalogEnds
<1>2. CASE i \in Present
  <2> DEFINE new == [rows[i] EXCEPT !.active = task[s].active]
  <2>1. i \in DOMAIN rows /\ rows[i] \in Row
    BY <1>0, <1>2 DEF Present
  <2>2. rows' = [rows EXCEPT ![i] = new]
    BY <1>2, <2>1 DEF WriteActive
  <2>3. new \in Row /\ new.name = rows[i].name /\ new.group = rows[i].group
    BY <1>0, <2>1 DEF Row
  <2> HIDE DEF new
  <2>4. /\ rows' \in Seq(Row \cup {None}) /\ DOMAIN rows' = DOMAIN rows /\ rows'[i] = new
        /\ \A j \in DOMAIN rows \ {i} : rows'[j] = rows[j]
    BY <1>0, <2>1, <2>2, <2>3, ExceptSeq
  <2>5. Present' \subseteq Present
    BY <1>2, <2>4 DEF Present
  <2>6. \A j \in Present' : rows'[j].name = rows[j].name /\ rows'[j].group = rows[j].group
    BY <2>3, <2>4, <2>5 DEF Present
  <2> QED
    BY <1>0, <2>4, <2>5, <2>6, CatalogEnds
<1> QED
  BY <1>1, <1>2

\* Rows are removed, whichever the cascade takes along.
LEMMA CatalogDeletes ==
    ASSUME CatalogInv, NEW s \in Slots, Delete(s)
    PROVE  CatalogInv'
<1>0. rows \in Seq(Row \cup {None}) /\ table' = table /\ Finish(s)
  BY DEF CatalogInv, Delete
<1>1. PICK gone : rows' = [i \in DOMAIN rows |-> IF i \in gone THEN None ELSE rows[i]]
  BY DEF Delete
<1>2. /\ DOMAIN rows' = DOMAIN rows
      /\ \A i \in DOMAIN rows : rows'[i] \in {None, rows[i]} /\ rows'[i] \in Row \cup {None}
  BY <1>0, <1>1
<1>3. /\ Len(rows) \in Nat /\ DOMAIN rows = 1 .. Len(rows)
  BY <1>0, LenProperties
<1>4. rows' \in [1 .. Len(rows) -> Row \cup {None}]
  BY <1>1, <1>2, <1>3
<1>5. rows' \in Seq(Row \cup {None})
  BY <1>3, <1>4
<1>6. Present' \subseteq Present /\ \A i \in Present' : rows'[i] = rows[i]
  BY <1>2 DEF Present
<1> QED
  BY <1>0, <1>5, <1>6, CatalogEnds

\* Every step of a handler keeps CatalogInv.
LEMMA CatalogStepInv ==
    ASSUME CatalogInv, CatalogNext
    PROVE  CatalogInv'
<1>1. ASSUME NEW s \in Slots, NEW row \in Row, Create(s, row)
      PROVE  CatalogInv'
  <2> DEFINE h == [pc |-> "insert", row |-> row]
  <2>1. /\ Begin(s, h) /\ h \in CatalogTask /\ h.pc = "insert" /\ h.row = row
        /\ Clash("create", row, {}) = {} /\ UNCHANGED catalogVars
    BY <1>1 DEF Create, CatalogTask
  <2> HIDE DEF h
  <2>2. RowsLike(row) = {}
    BY <2>1, LookFinds DEF CatalogInv
  <2> QED
    BY <2>1, <2>2, CatalogLook DEF Begin, Resumes
<1>2. ASSUME NEW s \in Slots, NEW i \in Ids, NEW row \in Row, Update(s, i, row)
      PROVE  CatalogInv'
  <2> DEFINE h == [pc |-> "write", id |-> i, row |-> row]
  <2>1. /\ Begin(s, h) /\ h \in CatalogTask /\ h.pc = "write" /\ h.row = row /\ h.id = i
        /\ \E self \in SUBSET {i} : Clash("update", row, self) = {}
        /\ UNCHANGED catalogVars
    BY <1>2 DEF Update, CatalogTask
  <2> HIDE DEF h
  <2>2. RowsLike(row) \subseteq {i}
    BY <2>1, LookFinds DEF CatalogInv
  <2>3. row # None
    BY CatalogAssumption
  <2> QED
    BY <2>1, <2>2, <2>3, CatalogLook DEF Begin, Resumes
<1>3. ASSUME NEW s \in Slots, NEW i \in Ids, UpdateRest(s, i)
      PROVE  CatalogInv'
  <2> DEFINE h == [pc |-> "write", id |-> i, row |-> None]
  <2>1. /\ Begin(s, h) /\ h \in CatalogTask /\ h.pc = "write" /\ h.row = None
        /\ UNCHANGED catalogVars
    BY <1>3 DEF UpdateRest, CatalogTask
  <2> HIDE DEF h
  <2> QED
    BY <2>1, CatalogBegins
<1>4. ASSUME NEW s \in Slots, NEW i \in Ids, NEW active \in BOOLEAN, SetActive(s, i, active)
      PROVE  CatalogInv'
  <2> DEFINE h == [pc |-> "activate", id |-> i, active |-> active]
  <2>1. Begin(s, h) /\ h \in CatalogTask /\ h.pc = "activate" /\ UNCHANGED catalogVars
    BY <1>4 DEF SetActive, CatalogTask
  <2> HIDE DEF h
  <2> QED
    BY <2>1, CatalogBegins
<1>5. ASSUME NEW s \in Slots, NEW i \in Ids, Remove(s, i)
      PROVE  CatalogInv'
  <2> DEFINE h == [pc |-> "delete", id |-> i]
  <2>1. Begin(s, h) /\ h \in CatalogTask /\ h.pc = "delete" /\ UNCHANGED catalogVars
    BY <1>5 DEF Remove, CatalogTask
  <2> HIDE DEF h
  <2> QED
    BY <2>1, CatalogBegins
<1> QED
  BY <1>1, <1>2, <1>3, <1>4, <1>5, CatalogInserts, CatalogOverwrites, CatalogActivates,
     CatalogDeletes
  DEF CatalogNext

\* However many requests for the same name overlap, and however rows are renamed and
\* removed in between, a name is given at most once per handler in flight; once where
\* a unique key stands behind the look.
THEOREM NamesBounded == CatalogSpec => []SameNamePerRace
<1>1. RequestsInit /\ CatalogInit => CatalogInv
  <2> SUFFICES ASSUME RequestsInit, CatalogInit PROVE CatalogInv
    OBVIOUS
  <2>1. OneSlot /\ Present = {} /\ \A s \in Slots : task[s] = Idle
    BY DEF RequestsInit, CatalogInit, OneSlot, Present
  <2>2. \A row \in Row : \A kept \in SUBSET RowsLike(row) : Share(kept, Naming(row, kept))
    <3> SUFFICES ASSUME NEW row \in Row, NEW kept \in SUBSET RowsLike(row)
                 PROVE  Share(kept, Naming(row, kept))
      OBVIOUS
    <3>1. kept = {} /\ Naming(row, kept) \in SUBSET Slots
      BY <2>1 DEF RowsLike, Naming
    <3> QED
      BY <3>1, ShareNone
  <2> QED
    BY <2>1, <2>2 DEF CatalogInit, CatalogInv
<1>2. CatalogInv /\ UNCHANGED <<task, catalogVars>> => CatalogInv'
  <2> SUFFICES ASSUME CatalogInv, UNCHANGED <<task, catalogVars>> PROVE CatalogInv'
    OBVIOUS
  <2> QED
    BY CatalogQuiet DEF CatalogInv, OneSlot, catalogVars, Present
<1>3. CatalogInv => SameNamePerRace
  <2> SUFFICES ASSUME CatalogInv, NEW i \in Present
               PROVE  Cardinality({j \in Present : Same("update", rows[i], rows[j])}) <=
                          IF Tables[table].unique THEN 1 ELSE Cardinality(Slots)
    BY DEF SameNamePerRace
  <2>1. rows[i] \in Row
    BY DEF CatalogInv, Present
  <2> DEFINE like == RowsLike(rows[i])
  <2>2. Share(like, Naming(rows[i], like))
    BY <2>1 DEF CatalogInv
  <2>3. Cardinality(like) <= Cardinality(Slots)
    <3>1. /\ Cardinality(like) \in Nat /\ Naming(rows[i], like) \in SUBSET Slots
          /\ Cardinality(like) + Cardinality(Naming(rows[i], like)) <= Cardinality(Slots)
      BY <2>2 DEF Share, Room
    <3> QED
      BY <3>1, SlotCount
  <2>4. Tables[table].unique => like = {i}
    BY DEF CatalogInv, RowsLike, Alike, Same
  <2>5. like = {j \in Present : Same("update", rows[i], rows[j])}
    BY DEF RowsLike, Alike
  <2>6. Cardinality({i}) = 1
    BY FS_Singleton
  <2> HIDE DEF like
  <2>7. Tables[table].unique => Cardinality(like) <= 1
    BY <2>4, <2>6
  <2> QED
    BY <2>3, <2>5, <2>7
<1> QED
  BY <1>1, <1>2, <1>3, CatalogStepInv, PTL DEF CatalogSpec
=============================================================================
