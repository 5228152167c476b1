------------------------------ MODULE OnlineUsers ------------------------------
(***************************************************************************)
(* The entities of one user in Redis, one command at a time: how connect,  *)
(* disconnect and updateLocation of RidesGatewayService use                *)
(* UsersOnlineRepository, whose update is a search, a remove and a push.   *)
(* RideDispatch takes that update for a single write.  No handler touches  *)
(* the entity of another user.                                             *)
(***************************************************************************)
EXTENDS Requests, Naturals, FiniteSets

CONSTANTS
    RideSockets,   \* the sockets the user opens
    EntityKeys       \* keys of entities there may be

VARIABLES
    rideSocket,    \* is the socket new, open or closed?
    online,        \* Redis: the entity under each key, or None
    timeSave,      \* MapStore.timeSave: the times known of the user
    timeOnline,    \* table time_online: the sign of the minutes in its rows
    disturbed      \* history: handlers have overlapped or failed, or a restart

onlineVars == <<rideSocket, online, timeSave, timeOnline, disturbed>>

Online == [is_online: BOOLEAN, socket: RideSockets]
OnlineHandler == {"connect", "disconnect", "updateLocation"}

OnlineTask ==
    [pc: {"get"}, by: OnlineHandler, socket: RideSockets]
    \cup [pc: {"update", "pushEntity"}, by: OnlineHandler, data: Online]
    \cup [pc: {"drop"}, by: OnlineHandler, data: Online, key: EntityKeys]
    \cup [pc: {"saveTime"}, by: OnlineHandler]

OnlineTypeOK ==
    /\ rideSocket \in [RideSockets -> {"new", "open", "closed"}]
    /\ online \in [EntityKeys -> Online \cup {None}]
    /\ timeSave \subseteq {"online", "offline"}
    /\ timeOnline \subseteq {"negative", "zero"}
    /\ disturbed \in BOOLEAN
    /\ \A s \in Slots : task[s] \in OnlineTask \cup {Idle}

OnlineInit ==
    /\ rideSocket = [k \in RideSockets |-> "new"]
    /\ online = [e \in EntityKeys |-> None]
    /\ timeSave = {} /\ timeOnline = {}
    /\ disturbed = FALSE

Held == {e \in EntityKeys : online[e] # None}

-----------------------------------------------------------------------------
\* A handler arrives by a change of its socket.
Arrive(s, by, k, before, after) ==
    /\ rideSocket[k] = before
    /\ rideSocket' = [rideSocket EXCEPT ![k] = after]
    /\ Begin(s, [pc |-> "get", by |-> by, socket |-> k])
    /\ disturbed' = (disturbed \/ ~ Alone(s))
    /\ UNCHANGED <<online, timeSave, timeOnline>>

ConnectUser(s, k) == Arrive(s, "connect", k, "new", "open")
DisconnectUser(s, k) == Arrive(s, "disconnect", k, "open", "closed")
MoveUser(s, k) == Arrive(s, "updateLocation", k, "open", "open")

\* For contrast, a disconnect that saves the user as it found it.
StillOnline(user) == user

GoneOffline(user) == [user EXCEPT !.is_online = FALSE]

\* The handler once it has found the entity of key e.
FoundOnline(handler, e) ==
    LET user == online[e] IN
    CASE handler.by = "connect" ->
            IF user.is_online THEN Idle     \* and keeps the socket saved before
            ELSE [pc |-> "drop", by |-> "connect", key |-> e,
                  data |-> [is_online |-> TRUE, socket |-> handler.socket]]
      [] handler.by = "disconnect" ->
            [pc |-> "update", by |-> "disconnect", data |-> GoneOffline(user)]
      [] handler.by = "updateLocation" ->
            [pc |-> "update", by |-> "updateLocation",
             data |-> [user EXCEPT !.socket = handler.socket]]

\* Without one a connect makes the first; the others return or throw.
NotFoundOnline(handler) ==
    IF handler.by = "connect"
    THEN [pc |-> "pushEntity", by |-> "connect",
          data |-> [is_online |-> TRUE, socket |-> handler.socket]]
    ELSE Idle

GetUser(s) ==
    /\ At(s, "get")
    /\ IF Held = {} THEN Await(s, NotFoundOnline(task[s]))
       ELSE \E e \in Held : Await(s, FoundOnline(task[s], e))
    /\ UNCHANGED onlineVars

\* update looks for the key again, and throws when there is none by now.
UpdateGet(s) ==
    /\ At(s, "update")
    /\ IF Held = {} THEN Finish(s)
       ELSE \E e \in Held : Await(s, [pc |-> "drop", by |-> task[s].by,
                                      data |-> task[s].data, key |-> e])
    /\ UNCHANGED onlineVars

\* Until it is pushed again the user is not found.
DropEntity(s) ==
    /\ At(s, "drop")
    /\ online' = [online EXCEPT ![task[s].key] = None]
    /\ Await(s, [pc |-> "pushEntity", by |-> task[s].by, data |-> task[s].data])
    /\ UNCHANGED <<rideSocket, timeSave, timeOnline, disturbed>>

PushEntity(s) ==
    /\ At(s, "pushEntity")
    /\ \E e \in EntityKeys \ Held : online' = [online EXCEPT ![e] = task[s].data]
    /\ IF task[s].by = "updateLocation" THEN Finish(s)
       ELSE Await(s, [pc |-> "saveTime", by |-> task[s].by])
    /\ UNCHANGED <<rideSocket, timeSave, timeOnline, disturbed>>

\* The minutes are those from the end of the session to its start.
MinutesOnline(saved) == IF "online" \in saved THEN "negative" ELSE "zero"

SaveTime(s) ==
    /\ At(s, "saveTime")
    /\ IF task[s].by = "connect"
       THEN timeSave' = timeSave \cup {"online"} /\ UNCHANGED timeOnline
       ELSE timeSave' = timeSave \cup {"offline"}
            /\ timeOnline' = timeOnline \cup {MinutesOnline(timeSave)}
    /\ Finish(s)
    /\ UNCHANGED <<rideSocket, online, disturbed>>

\* Also a location outside all areas.
OnlineFails(s) ==
    /\ task[s] \in OnlineTask
    /\ Finish(s)
    /\ disturbed' = TRUE
    /\ UNCHANGED <<rideSocket, online, timeSave, timeOnline>>

OnlineRestart ==
    /\ task' = [s \in Slots |-> Idle]
    /\ rideSocket' = [k \in RideSockets |->
          IF rideSocket[k] = "open" THEN "closed" ELSE rideSocket[k]]
    /\ timeSave' = {}
    /\ disturbed' = TRUE
    /\ UNCHANGED <<online, timeOnline>>

-----------------------------------------------------------------------------
OnlineNext ==
    \/ OnlineRestart
    \/ \E s \in Slots :
        \/ \E k \in RideSockets : ConnectUser(s, k) \/ DisconnectUser(s, k) \/ MoveUser(s, k)
        \/ GetUser(s) \/ UpdateGet(s) \/ DropEntity(s) \/ PushEntity(s) \/ SaveTime(s)
        \/ OnlineFails(s)

OnlineSpec == RequestsInit /\ OnlineInit /\ [][OnlineNext]_<<task, onlineVars>>

-----------------------------------------------------------------------------
\* The entity outlives its socket and its key changes at every update.  As long as
\* no two handlers of the user have overlapped, a user at rest has at most one, and
\* it says online only if one of the sockets opened is still open.
GoneIsOffline ==
    ~ disturbed /\ (\A s \in Slots : task[s] = Idle) =>
        /\ Cardinality(Held) <= 1
        /\ (\E e \in Held : online[e].is_online) => \E k \in RideSockets : rideSocket[k] = "open"
=============================================================================
