------------------------------- MODULE Requests -------------------------------
(***************************************************************************)
(* The handlers of the REST API.  A handler is an asynchronous function of *)
(* the one event loop of the process: between two awaits it runs alone, at *)
(* an await any other handler may run.  Each handler in flight occupies a  *)
(* slot; its record holds what it has read so far, and in pc the step it   *)
(* takes when its await returns.                                           *)
(***************************************************************************)
EXTENDS FiniteSets

CONSTANTS
    Slots,      \* handlers in flight at once
    None        \* undefined, null or no row

ASSUME SlotsAreFinite == IsFiniteSet(Slots)

VARIABLE task   \* the handler in each slot

Idle == [pc |-> "idle"]

RequestsInit == task = [s \in Slots |-> Idle]

\* A request arrives at a free slot.
Begin(s, handler) == task[s] = Idle /\ task' = [task EXCEPT ![s] = handler]

\* No other handler is in flight.
Alone(s) == \A other \in Slots \ {s} : task[other] = Idle

\* The handler of slot s resumes at step pc.
At(s, pc) == task[s].pc = pc

\* It awaits again, with what it knows by then.
Await(s, handler) == task' = [task EXCEPT ![s] = handler]

\* It returns, or throws: either way nothing it has written is undone.
Finish(s) == task' = [task EXCEPT ![s] = Idle]
=============================================================================
