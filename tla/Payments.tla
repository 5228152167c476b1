------------------------------- MODULE Payments -------------------------------
(***************************************************************************)
(* Paying for a trip by card: GatewayService, PaystackGateway,             *)
(* FlutterWaveGateway, TransactionService and the webhooks.  The server    *)
(* records a transaction, asks a provider to charge the rider, and learns  *)
(* of the outcome only when somebody asks it to verify the transaction.    *)
(***************************************************************************)
EXTENDS Requests

CONSTANTS
    PaidTrips,    \* the trips that are priced and paid
    References    \* transaction references: the millisecond of the request

VARIABLES
    gateway,      \* the setting ACTIVE_PAYMENT_GATEWAY
    fare,         \* trip_fare of each trip, or None
    transactions, \* table transaction, by reference
    charges       \* external: what the providers know of each reference

payVars == <<gateway, fare, transactions, charges>>

Providers == {"paystack", "flutterwave"}
Modes == {"card", "cash"}

\* "declined" stands for declined and abandoned, which are treated alike.
TransactionStatus == {"pending", "success", "failed", "declined"}
Outcomes == {"pending", "success", "declined"}

Fare == [mode: Modes, paid: BOOLEAN]
TransactionRow == [gateway: Providers, status: TransactionStatus]
Charge == [trip: PaidTrips, provider: Providers, outcome: Outcomes]

ASSUME NoneIsNoPayment == None \notin Fare \cup TransactionRow \cup Charge

PayTask ==
    [pc: {"insert", "post"}, trip: PaidTrips, ref: References, provider: Providers]
    \cup [pc: {"ask"}, ref: References, provider: Providers]
    \cup [pc: {"pay", "record"}, ref: References, answer: TransactionStatus]

PaymentsTypeOK ==
    /\ gateway \in Providers
    /\ fare \in [PaidTrips -> Fare \cup {None}]
    /\ transactions \in [References -> TransactionRow \cup {None}]
    /\ charges \in [References -> Charge \cup {None}]
    /\ \A s \in Slots : task[s] \in PayTask \cup {Idle}

PaymentsInit ==
    /\ gateway = "paystack"
    /\ fare = [t \in PaidTrips |-> None]
    /\ transactions = [r \in References |-> None]
    /\ charges = [r \in References |-> None]

-----------------------------------------------------------------------------
(* The trip is priced, and the administrator picks a gateway.              *)

\* createTripFare at the end of the trip: cash counts as paid.
PriceTrip(t, mode) ==
    /\ fare[t] = None
    /\ fare' = [fare EXCEPT ![t] = [mode |-> mode, paid |-> mode = "cash"]]
    /\ UNCHANGED <<gateway, transactions, charges, task>>

ChooseGateway(provider) ==
    /\ gateway # provider
    /\ gateway' = provider
    /\ UNCHANGED <<fare, transactions, charges, task>>

-----------------------------------------------------------------------------
(* POST transactions/init: the trip is read, a row is inserted, then the   *)
(* provider is asked to charge.  Neither the mode nor paid is looked at.   *)

Initialize(s, t, ref, provider) ==
    /\ gateway = provider
    /\ fare[t] # None                  \* else reading its total throws
    /\ Begin(s, [pc |-> "insert", trip |-> t, ref |-> ref, provider |-> provider])
    /\ UNCHANGED payVars

InitPaystack(s, t, ref) == Initialize(s, t, ref, "paystack")
InitFlutterwave(s, t, ref) == Initialize(s, t, ref, "flutterwave")

\* The row names Paystack whichever provider it is for.  A reference is unique:
\* of two requests in one millisecond the second insert is refused.
InsertTransaction(s) ==
    /\ At(s, "insert")
    /\ IF transactions[task[s].ref] = None
       THEN /\ transactions' = [transactions EXCEPT ![task[s].ref] =
                                   [gateway |-> "paystack", status |-> "pending"]]
            /\ Await(s, [task[s] EXCEPT !.pc = "post"])
       ELSE UNCHANGED transactions /\ Finish(s)
    /\ UNCHANGED <<gateway, fare, charges>>

PostCharge(s, provider) ==
    /\ At(s, "post") /\ task[s].provider = provider
    /\ charges' = [charges EXCEPT ![task[s].ref] =
           [trip |-> task[s].trip, provider |-> provider, outcome |-> "pending"]]
    /\ Finish(s)
    /\ UNCHANGED <<gateway, fare, transactions>>

PostPaystack(s) == PostCharge(s, "paystack")
PostFlutterwave(s) == PostCharge(s, "flutterwave")

\* External: the rider pays, is declined or gives up; having failed, may yet
\* pay on the same page.
Settle(ref, outcome) ==
    /\ charges[ref] # None
    /\ charges[ref].outcome \notin {"success", outcome}
    /\ charges' = [charges EXCEPT ![ref].outcome = outcome]
    /\ UNCHANGED <<gateway, fare, transactions, task>>

-----------------------------------------------------------------------------
(* Verification, by the app (POST transactions/verify) or by the webhook of*)
(* Flutterwave, to which JwtGuard admits whoever has a token.  The webhook *)
(* of Paystack has no action: the check of its signature throws whether or *)
(* not the signature is right.                                             *)

\* The gateway column decides whom to ask; every row says Paystack.
VerifyByApp(s, ref) ==
    /\ transactions[ref] # None
    /\ Begin(s, [pc |-> "ask", ref |-> ref, provider |-> transactions[ref].gateway])
    /\ UNCHANGED payVars

FlutterwaveHook(s, ref) ==
    /\ transactions[ref] # None
    /\ Begin(s, [pc |-> "ask", ref |-> ref, provider |-> "flutterwave"])
    /\ UNCHANGED payVars

\* What the server takes an outcome for: one that is still pending has failed.
Answer(outcome) == IF outcome = "pending" THEN "failed" ELSE outcome

\* For contrast, a faulty verification that marks the trip before it looks at the
\* answer.
PaysWhenAsked(answer) == "pay"

\* For contrast, one that records the success and leaves the trip.
RecordsOnly(answer) == "record"

\* A success is first written to the trip, then to the transaction.
AfterAnswer(answer) == IF answer = "success" THEN "pay" ELSE "record"

\* A provider that does not know the reference answers with an error.
AskProvider(s, provider) ==
    /\ At(s, "ask") /\ task[s].provider = provider
    /\ LET ref == task[s].ref
           answer == Answer(charges[ref].outcome)
       IN  IF charges[ref] # None /\ charges[ref].provider = provider
           THEN Await(s, [pc |-> AfterAnswer(answer), ref |-> ref, answer |-> answer])
           ELSE Finish(s)
    /\ UNCHANGED payVars

AskPaystack(s) == AskProvider(s, "paystack")
AskFlutterwave(s) == AskProvider(s, "flutterwave")

\* updateTripPay, for the trip the charge carries in its metadata.
MarkPaid(s) ==
    /\ At(s, "pay")
    /\ fare' = [fare EXCEPT ![charges[task[s].ref].trip].paid = TRUE]
    /\ Await(s, [task[s] EXCEPT !.pc = "record"])
    /\ UNCHANGED <<gateway, transactions, charges>>

\* The status is overwritten with the answer this handler got.
RecordStatus(s) ==
    /\ At(s, "record")
    /\ transactions' = [transactions EXCEPT ![task[s].ref].status = task[s].answer]
    /\ Finish(s)
    /\ UNCHANGED <<gateway, fare, charges>>

\* An await of any of these handlers throws, or the process restarts.
PaymentFails(s) ==
    /\ task[s] \in PayTask
    /\ Finish(s)
    /\ UNCHANGED payVars

-----------------------------------------------------------------------------
\* What the apps, the providers and the administrator do.
PaymentEvent ==
    \/ \E t \in PaidTrips, mode \in Modes : PriceTrip(t, mode)
    \/ \E provider \in Providers : ChooseGateway(provider)
    \/ \E ref \in References, outcome \in Outcomes \ {"pending"} : Settle(ref, outcome)
    \/ \E s \in Slots, ref \in References :
        \/ \E t \in PaidTrips : InitPaystack(s, t, ref) \/ InitFlutterwave(s, t, ref)
        \/ VerifyByApp(s, ref)
        \/ FlutterwaveHook(s, ref)

PaymentStep(s) ==
    \/ InsertTransaction(s)
    \/ PostPaystack(s) \/ PostFlutterwave(s)
    \/ AskPaystack(s) \/ AskFlutterwave(s)
    \/ MarkPaid(s)
    \/ RecordStatus(s)

PaymentsNext ==
    \/ PaymentEvent
    \/ \E s \in Slots : PaymentStep(s) \/ PaymentFails(s)

PaymentsSpec == RequestsInit /\ PaymentsInit /\ [][PaymentsNext]_<<task, payVars>>

-----------------------------------------------------------------------------
\* A transaction recorded as successful has paid its trip, however many
\* verifications of it are in flight and whichever of them stops half-way: the
\* trip is marked before the transaction.
SuccessIsPaid ==
    \A ref \in References :
        transactions[ref] # None /\ transactions[ref].status = "success" =>
            charges[ref] # None /\ fare[charges[ref].trip].paid

\* A trip to be paid by card counts as paid only when some provider has charged
\* the rider for that very trip, although the outcome that a handler writes may
\* be an old one.
PaidOnlyIfCharged ==
    \A t \in PaidTrips :
        fare[t] # None /\ fare[t].mode = "card" /\ fare[t].paid =>
            \E ref \in References :
                /\ charges[ref] # None
                /\ charges[ref].trip = t /\ charges[ref].outcome = "success"
=============================================================================
