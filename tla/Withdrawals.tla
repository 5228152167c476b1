------------------------------ MODULE Withdrawals ------------------------------
(***************************************************************************)
(* Paying drivers out: BankAccountService and WithdrawalRequestService.    *)
(* A request is checked against what four awaits have read, then inserted; *)
(* the review of a request changes its status and nothing else.            *)
(***************************************************************************)
EXTENDS Requests, Integers, FiniteSets

CONSTANTS
    Earners,           \* the drivers
    RequestIds,        \* rows of withdrawal_requests there may be
    MaxFunds,          \* bound on a balance
    MinWithdrawal,     \* settings MINIMUM_ and MAXIMUM_WITHDRAWAL_AMOUNT
    MaxWithdrawal,
    Verdicts           \* statuses a review sets: any is accepted

VARIABLES
    funds,             \* users.account_balance, which settlements change
    bank,              \* bank_accounts, by driver: None, or how old its last change is
    requests           \* table withdrawal_requests

withdrawVars == <<funds, bank, requests>>

WithdrawalStatus == {"pending", "approved", "rejected"}

\* A day is all that is told of updated_at.
BankAccount == {"fresh", "rested"}
WithdrawalRequest == [driver: Earners, amount: Int, status: WithdrawalStatus]

ASSUME VerdictsAssumption == Verdicts \subseteq WithdrawalStatus

\* None is no row.
ASSUME NoneIsNoRequest == None \notin WithdrawalRequest

WithdrawTask ==
    [pc: {"account", "existing", "request"}, driver: Earners, amount: Int, funds: Int]
    \cup [pc: {"review"}, id: RequestIds, status: WithdrawalStatus]
    \cup [pc: {"open", "change", "close"}, driver: Earners]

WithdrawTypeOK ==
    /\ funds \in [Earners -> Int]
    /\ bank \in [Earners -> BankAccount \cup {None}]
    /\ requests \in [RequestIds -> WithdrawalRequest \cup {None}]
    /\ \A s \in Slots : task[s] \in WithdrawTask \cup {Idle}

WithdrawInit ==
    /\ funds = [d \in Earners |-> 0]
    /\ bank = [d \in Earners |-> None]
    /\ requests = [r \in RequestIds |-> None]

Pending(d) ==
    {r \in RequestIds :
        requests[r] # None /\ requests[r].driver = d /\ requests[r].status = "pending"}

\* A settled trip changes the balance of its driver, to below zero by a debt.
Earn(d, amount) ==
    /\ amount # funds[d]
    /\ funds' = [funds EXCEPT ![d] = amount]
    /\ UNCHANGED <<bank, requests, task>>

\* Twenty-four hours pass since the last change of the account.
Rest(d) ==
    /\ bank[d] = "fresh"
    /\ bank' = [bank EXCEPT ![d] = "rested"]
    /\ UNCHANGED <<funds, requests, task>>

-----------------------------------------------------------------------------
(* Bank accounts, one per driver: create after a look, update and remove   *)
(* after findOne.  The unique user_id refuses a second insert.             *)

OpenAccount(s, d) ==
    /\ bank[d] = None                       \* else it throws
    /\ Begin(s, [pc |-> "open", driver |-> d])
    /\ UNCHANGED withdrawVars

InsertAccount(s) ==
    /\ At(s, "open")
    /\ bank' = [bank EXCEPT ![task[s].driver] = IF @ = None THEN "fresh" ELSE @]
    /\ Finish(s)
    /\ UNCHANGED <<funds, requests>>

FindAccount(s, d, pc) ==
    /\ pc \in {"change", "close"}
    /\ bank[d] # None                       \* else it throws
    /\ Begin(s, [pc |-> pc, driver |-> d])
    /\ UNCHANGED withdrawVars

\* The row may be gone by now: then the update throws.
ChangeAccount(s) ==
    /\ At(s, "change")
    /\ bank' = [bank EXCEPT ![task[s].driver] = IF @ = None THEN None ELSE "fresh"]
    /\ Finish(s)
    /\ UNCHANGED <<funds, requests>>

CloseAccount(s) ==
    /\ At(s, "close")
    /\ bank' = [bank EXCEPT ![task[s].driver] = None]
    /\ Finish(s)
    /\ UNCHANGED <<funds, requests>>

-----------------------------------------------------------------------------
(* A withdrawal: withdrawalConstraints, then the insert.                   *)

\* The balance is read first, with the user, and compared at the end.
AskWithdrawal(s, d, amount) ==
    /\ Begin(s, [pc |-> "account", driver |-> d, amount |-> amount, funds |-> funds[d]])
    /\ UNCHANGED withdrawVars

CheckAccount(s) ==
    /\ At(s, "account")
    /\ IF bank[task[s].driver] = "rested"
       THEN Await(s, [task[s] EXCEPT !.pc = "existing"])
       ELSE Finish(s)
    /\ UNCHANGED withdrawVars

\* What follows the look for a pending request compares values that do not change.
Allowed(h) == h.amount \in MinWithdrawal .. MaxWithdrawal /\ h.amount <= h.funds

\* For contrast, a handler that does not look.
NeverUnderReview(d) == FALSE

UnderReview(d) == Pending(d) # {}

CheckExisting(s) ==
    /\ At(s, "existing")
    /\ IF ~ UnderReview(task[s].driver) /\ Allowed(task[s])
       THEN Await(s, [task[s] EXCEPT !.pc = "request"])
       ELSE Finish(s)
    /\ UNCHANGED withdrawVars

InsertRequest(s) ==
    /\ At(s, "request")
    /\ \E r \in RequestIds :
        /\ requests[r] = None
        /\ requests' = [requests EXCEPT ![r] =
              [driver |-> task[s].driver, amount |-> task[s].amount, status |-> "pending"]]
    /\ Finish(s)
    /\ UNCHANGED <<funds, bank>>

\* PATCH: the row is looked up and its status overwritten, whatever it was.  The
\* code that would pay an approved request is a comment.
BeginReview(s, r, status) ==
    /\ requests[r] # None
    /\ Begin(s, [pc |-> "review", id |-> r, status |-> status])
    /\ UNCHANGED withdrawVars

Review(s) ==
    /\ At(s, "review")
    /\ requests' = [requests EXCEPT ![task[s].id].status = task[s].status]
    /\ Finish(s)
    /\ UNCHANGED <<funds, bank>>

WithdrawFails(s) ==
    /\ task[s] \in WithdrawTask
    /\ Finish(s)
    /\ UNCHANGED withdrawVars

-----------------------------------------------------------------------------
WithdrawEvent ==
    \E d \in Earners :
        \/ Rest(d)
        \/ \E amount \in -1 .. MaxFunds : Earn(d, amount)
        \/ \E s \in Slots :
            \/ OpenAccount(s, d)
            \/ \E pc \in {"change", "close"} : FindAccount(s, d, pc)
            \/ \E amount \in 0 .. MaxFunds : AskWithdrawal(s, d, amount)

WithdrawStep(s) ==
    \/ InsertAccount(s) \/ ChangeAccount(s) \/ CloseAccount(s)
    \/ CheckAccount(s) \/ CheckExisting(s) \/ InsertRequest(s)
    \/ \E r \in RequestIds, status \in Verdicts : BeginReview(s, r, status)
    \/ Review(s)

WithdrawNext == WithdrawEvent \/ \E s \in Slots : WithdrawStep(s) \/ WithdrawFails(s)

WithdrawSpec == RequestsInit /\ WithdrawInit /\ [][WithdrawNext]_<<task, withdrawVars>>

-----------------------------------------------------------------------------
\* Handlers of driver d that have found no request under review.
Asking(d) == {s \in Slots : At(s, "request") /\ task[s].driver = d}

\* Requests under review never pile up: a driver has at most as many as handlers
\* can be in flight at once, since the look and the insert are apart by one await
\* and no more, as long as no review turns a request back to pending.
PendingPerRace ==
    "pending" \notin Verdicts =>
        \A d \in Earners : Cardinality(Pending(d)) + Cardinality(Asking(d)) <= Cardinality(Slots)
=============================================================================
