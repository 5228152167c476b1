------------------------------ MODULE Settlement ------------------------------
(***************************************************************************)
(* What the end of a trip promises about money, whatever handlers, retries *)
(* and failures lie behind it: a trip that has started is charged at most  *)
(* once, its commission is then due, and is credited to one driver.  A     *)
(* lossless settlement never takes a commission back or forgets it; any    *)
(* other may, but what is lost is never charged or credited again.         *)
(***************************************************************************)
CONSTANTS
    Trips,
    Payees,      \* the drivers
    Lossless     \* does every commission due reach a balance and stay there?

VARIABLES
    started,     \* trips that have ever been under way
    charged,     \* trips that have a fare
    due,         \* trips whose commission is on its way to a balance
    credits      \* trips with the driver in whose balance the commission is

settlementVars == <<started, charged, due, credits>>

Init == started = {} /\ charged = {} /\ due = {} /\ credits = {}

Start(t) ==
    /\ started' = started \cup {t}
    /\ UNCHANGED <<charged, due, credits>>

Charge(t) ==
    /\ t \in started \ charged
    /\ charged' = charged \cup {t}
    /\ due' = due \cup {t}
    /\ UNCHANGED <<started, credits>>

\* Balances are written whole: others of the driver's commissions may get lost.
Credit(t, payee) ==
    /\ t \in due
    /\ due' = due \ {t}
    /\ \E lost \in SUBSET (credits \cap (Trips \X {payee})) :
        /\ Lossless => lost = {}
        /\ credits' = (credits \ lost) \cup {<<t, payee>>}
    /\ UNCHANGED <<started, charged>>

\* A handler stops before it has written.
Drop ==
    /\ ~ Lossless
    /\ due' \in SUBSET due
    /\ credits' \in SUBSET credits
    /\ UNCHANGED <<started, charged>>

Next ==
    \/ \E t \in Trips :
        \/ Start(t)
        \/ Charge(t)
        \/ \E payee \in Payees : Credit(t, payee)
    \/ Drop

Spec == Init /\ [][Next]_settlementVars
=============================================================================
