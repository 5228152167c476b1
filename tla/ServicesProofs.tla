---------------------------- MODULE ServicesProofs ----------------------------
(***************************************************************************)
(* Proofs about the components that MCServices checks together: what each  *)
(* handler that overlaps with others records is so, and every variable and *)
(* handler of the thirteen keeps its type.                                 *)
(***************************************************************************)
EXTENDS MCServices, FiniteSetTheorems, TLAPS

-----------------------------------------------------------------------------
(* What Begin, Await and Finish keep: a handler of one of the types T, or  *)
(* none, in each slot.                                                     *)

LEMMA HandlersKept ==
    ASSUME NEW T, task \in [Slots -> T \cup {Idle}], NEW s \in Slots, NEW h \in T
    PROVE  /\ Begin(s, h) => task' \in [Slots -> T \cup {Idle}]
           /\ Await(s, h) => task' \in [Slots -> T \cup {Idle}]
  BY DEF Begin, Await

LEMMA HandlersFinish ==
    ASSUME NEW T, task \in [Slots -> T \cup {Idle}], NEW s \in Slots, Finish(s)
    PROVE  task' \in [Slots -> T \cup {Idle}]
  BY DEF Finish

\* Who is at a step is a handler.
LEMMA HandlerAt ==
    ASSUME NEW T, task \in [Slots -> T \cup {Idle}], NEW s \in Slots, NEW pc,
           At(s, pc), pc # "idle"
    PROVE  task[s] \in T /\ task[s].pc = pc
  BY DEF At, Idle

-----------------------------------------------------------------------------
(* Payments are recorded truthfully whichever verifications overlap, for   *)
(* any trips, references and slots.  The invariant says what a handler may *)
(* rely on that has waited: prices and charges do not disappear, a success *)
(* is final, and one handler only charges under a reference.               *)

\* Before the charge: the trip is priced; the reference is this handler's alone,
\* and no provider knows it yet.
Priced(s) == task[s].pc \in {"insert", "post"} => fare[task[s].trip] # None
Charging(s) ==
    task[s].pc = "post" =>
        /\ transactions[task[s].ref] # None /\ charges[task[s].ref] = None
        /\ \A u \in Slots : task[u].pc = "post" /\ task[u].ref = task[s].ref => u = s

\* After the answer: what it said of a success is still so.
Answered(s) ==
    task[s].pc \in {"pay", "record"} =>
        /\ transactions[task[s].ref] # None
        /\ task[s].pc = "pay" => task[s].answer = "success"
        /\ task[s].answer = "success" =>
              /\ charges[task[s].ref] # None
              /\ charges[task[s].ref].outcome = "success"
              /\ task[s].pc = "record" => fare[charges[task[s].ref].trip].paid

ChargesPriced ==
    \A ref \in References :
        charges[ref] # None => transactions[ref] # None /\ fare[charges[ref].trip] # None

PaymentsInv ==
    /\ PaymentsTypeOK
    /\ task \in [Slots -> PayTask \cup {Idle}]
    /\ ChargesPriced
    /\ \A s \in Slots : Priced(s) /\ Charging(s) /\ Answered(s)
    /\ SuccessIsPaid /\ PaidOnlyIfCharged

\* The fields of a handler at each of its steps.
LEMMA PayTaskFields ==
    ASSUME NEW h \in PayTask \cup {Idle}
    PROVE  /\ h.pc \in {"insert", "post"} =>
                 h \in [pc: {"insert", "post"}, trip: PaidTrips, ref: References, provider: Providers]
           /\ h.pc = "ask" => h \in [pc: {"ask"}, ref: References, provider: Providers]
           /\ h.pc \in {"pay", "record"} =>
                 h \in [pc: {"pay", "record"}, ref: References, answer: TransactionStatus]
  BY DEF PayTask, Idle

\* A step of slot s that leaves fares, transactions and charges alone preserves
\* the invariant when the slot's new handler may rely on them.
LEMMA QuietStep ==
    ASSUME PaymentsInv, NEW s \in Slots, NEW h \in PayTask \cup {Idle},
           task' = [task EXCEPT ![s] = h],
           UNCHANGED payVars,
           h.pc \in {"insert", "post"} => fare[h.trip] # None,
           h.pc # "post",
           h.pc \in {"pay", "record"} =>
               /\ transactions[h.ref] # None
               /\ h.pc = "pay" => h.answer = "success"
               /\ h.pc = "record" => h.answer # "success"
               /\ h.answer = "success" =>
                     charges[h.ref] # None /\ charges[h.ref].outcome = "success"
    PROVE  PaymentsInv'
<1>1. /\ task'[s] = h /\ \A u \in Slots \ {s} : task'[u] = task[u]
      /\ task' \in [Slots -> PayTask \cup {Idle}]
  BY DEF PaymentsInv
<1>2. PaymentsTypeOK'
  BY <1>1 DEF PaymentsInv, PaymentsTypeOK, payVars
<1>3. ChargesPriced' /\ SuccessIsPaid' /\ PaidOnlyIfCharged'
  BY DEF PaymentsInv, ChargesPriced, SuccessIsPaid, PaidOnlyIfCharged, payVars
<1>4. \A u \in Slots : Priced(u)'
  BY <1>1 DEF PaymentsInv, Priced, payVars
<1>5. \A u \in Slots : Charging(u)'
  BY <1>1 DEF PaymentsInv, Charging, payVars
<1>6. \A u \in Slots : Answered(u)'
  BY <1>1 DEF PaymentsInv, Answered, payVars
<1> QED
  BY <1>1, <1>2, <1>3, <1>4, <1>5, <1>6 DEF PaymentsInv

LEMMA EventStep ==
    ASSUME PaymentsInv, PaymentEvent
    PROVE  PaymentsInv'
<1>0. /\ fare \in [PaidTrips -> Fare \cup {None}]
      /\ charges \in [References -> Charge \cup {None}]
      /\ transactions \in [References -> TransactionRow \cup {None}]
      /\ task \in [Slots -> PayTask \cup {Idle}]
  BY DEF PaymentsInv, PaymentsTypeOK
<1>1. ASSUME NEW t \in PaidTrips, NEW mode \in Modes, PriceTrip(t, mode)
      PROVE  PaymentsInv'
  <2> DEFINE row == [mode |-> mode, paid |-> mode = "cash"]
  <2>1. row \in Fare /\ row # None /\ (row.mode = "card" => ~ row.paid)
    <3>1. (mode = "cash") \in BOOLEAN /\ (mode = "card" => ~ (mode = "cash"))
      OBVIOUS
    <3>2. row \in Fare
      BY <3>1 DEF Fare
    <3>3. row.mode = mode /\ row.paid = (mode = "cash")
      OBVIOUS
    <3> QED
      BY <3>1, <3>2, <3>3, NoneIsNoPayment
  <2>2. /\ fare[t] = None /\ fare' = [fare EXCEPT ![t] = row]
        /\ UNCHANGED <<gateway, transactions, charges, task>>
    BY <1>1 DEF PriceTrip
  <2> HIDE DEF row
  <2>3. /\ fare'[t] = row /\ \A x \in PaidTrips \ {t} : fare'[x] = fare[x]
        /\ fare' \in [PaidTrips -> Fare \cup {None}]
    BY <1>0, <2>1, <2>2
  <2>4. PaymentsTypeOK'
    BY <2>2, <2>3 DEF PaymentsInv, PaymentsTypeOK
  <2>5. \A ref \in References : charges[ref] # None => charges[ref].trip \in PaidTrips \ {t}
    BY <1>0, <2>2 DEF PaymentsInv, ChargesPriced, Charge
  <2>6. ChargesPriced' /\ SuccessIsPaid'
    BY <2>2, <2>3, <2>5 DEF PaymentsInv, ChargesPriced, SuccessIsPaid
  <2>7. PaidOnlyIfCharged'
    BY <2>1, <2>2, <2>3 DEF PaymentsInv, PaidOnlyIfCharged
  <2>8. \A s \in Slots : Priced(s)'
    BY <1>0, <2>1, <2>2, <2>3, PayTaskFields DEF PaymentsInv, Priced
  <2>9. \A s \in Slots : Charging(s)'
    BY <2>2 DEF PaymentsInv, Charging
  <2>10. \A s \in Slots : Answered(s)'
    BY <1>0, <2>2, <2>3, <2>5, PayTaskFields DEF PaymentsInv, Answered
  <2> QED
    BY <1>0, <2>2, <2>4, <2>6, <2>7, <2>8, <2>9, <2>10 DEF PaymentsInv
<1>2. ASSUME NEW provider \in Providers, ChooseGateway(provider)
      PROVE  PaymentsInv'
  BY <1>2 DEF ChooseGateway, PaymentsInv, PaymentsTypeOK, ChargesPriced, SuccessIsPaid,
              PaidOnlyIfCharged, Priced, Charging, Answered
<1>3. ASSUME NEW ref \in References, NEW outcome \in Outcomes \ {"pending"}, Settle(ref, outcome)
      PROVE  PaymentsInv'
  <2> DEFINE row == [charges[ref] EXCEPT !.outcome = outcome]
  <2>1. /\ charges[ref] \in Charge /\ charges[ref] # None /\ charges[ref].outcome # "success"
        /\ row \in Charge /\ row.trip = charges[ref].trip
    BY <1>0, <1>3 DEF Settle, Charge, Outcomes
  <2>2. /\ charges' = [charges EXCEPT ![ref] = row]
        /\ UNCHANGED <<gateway, fare, transactions, task>>
    BY <1>0, <1>3 DEF Settle
  <2> HIDE DEF row
  <2>3. /\ charges'[ref] = row /\ row # None
        /\ \A x \in References \ {ref} : charges'[x] = charges[x]
        /\ charges' \in [References -> Charge \cup {None}]
    BY <1>0, <2>1, <2>2, NoneIsNoPayment
  <2>4. PaymentsTypeOK'
    BY <2>2, <2>3 DEF PaymentsInv, PaymentsTypeOK
  <2>5. ChargesPriced' /\ SuccessIsPaid'
    BY <2>1, <2>2, <2>3 DEF PaymentsInv, ChargesPriced, SuccessIsPaid
  <2>6. PaidOnlyIfCharged'
    BY <2>1, <2>2, <2>3 DEF PaymentsInv, PaidOnlyIfCharged
  <2>7. \A s \in Slots : Priced(s)'
    BY <2>2 DEF PaymentsInv, Priced
  <2>8. \A s \in Slots : Charging(s)'
    BY <1>0, <2>1, <2>2, <2>3, PayTaskFields DEF PaymentsInv, Charging
  <2>9. \A s \in Slots : Answered(s)'
    BY <1>0, <2>1, <2>2, <2>3, PayTaskFields DEF PaymentsInv, Answered
  <2> QED
    BY <1>0, <2>2, <2>4, <2>5, <2>6, <2>7, <2>8, <2>9 DEF PaymentsInv
<1>4. ASSUME NEW s \in Slots, NEW t \in PaidTrips, NEW ref \in References,
             InitPaystack(s, t, ref) \/ InitFlutterwave(s, t, ref)
      PROVE  PaymentsInv'
  <2>1. PICK provider \in Providers : Initialize(s, t, ref, provider)
    BY <1>4 DEF InitPaystack, InitFlutterwave, Providers
  <2> DEFINE h == [pc |-> "insert", trip |-> t, ref |-> ref, provider |-> provider]
  <2>2. h \in PayTask /\ h.pc = "insert" /\ h.trip = t
    BY DEF PayTask
  <2>3. task' = [task EXCEPT ![s] = h] /\ UNCHANGED payVars /\ fare[t] # None
    BY <2>1 DEF Initialize, Begin
  <2> HIDE DEF h
  <2> QED
    BY <2>2, <2>3, QuietStep
<1>5. ASSUME NEW s \in Slots, NEW ref \in References,
             VerifyByApp(s, ref) \/ FlutterwaveHook(s, ref)
      PROVE  PaymentsInv'
  <2>1. PICK provider \in Providers :
            Begin(s, [pc |-> "ask", ref |-> ref, provider |-> provider]) /\ UNCHANGED payVars
    BY <1>0, <1>5 DEF VerifyByApp, FlutterwaveHook, TransactionRow, Providers
  <2> DEFINE h == [pc |-> "ask", ref |-> ref, provider |-> provider]
  <2>2. h \in PayTask /\ h.pc = "ask"
    BY DEF PayTask
  <2>3. task' = [task EXCEPT ![s] = h] /\ UNCHANGED payVars
    BY <2>1 DEF Begin
  <2> HIDE DEF h
  <2> QED
    BY <2>2, <2>3, QuietStep
<1> QED
  BY <1>1, <1>2, <1>3, <1>4, <1>5 DEF PaymentEvent
LEMMA StepStep ==
    ASSUME PaymentsInv, NEW s \in Slots, PaymentStep(s) \/ PaymentFails(s)
    PROVE  PaymentsInv'
<1>0. /\ fare \in [PaidTrips -> Fare \cup {None}]
      /\ charges \in [References -> Charge \cup {None}]
      /\ transactions \in [References -> TransactionRow \cup {None}]
      /\ task \in [Slots -> PayTask \cup {Idle}]
      /\ Idle.pc = "idle" /\ Idle \in PayTask \cup {Idle}
      /\ Priced(s) /\ Charging(s) /\ Answered(s)
  BY DEF PaymentsInv, PaymentsTypeOK, Idle
<1>1. ASSUME Finish(s), UNCHANGED payVars
      PROVE  PaymentsInv'
  BY <1>0, <1>1, QuietStep DEF Finish
<1>2. CASE InsertTransaction(s)
  <2> DEFINE h == [task[s] EXCEPT !.pc = "post"]
             row == [gateway |-> "paystack", status |-> "pending"]
             ref == task[s].ref
  <2>1. /\ ref \in References /\ h \in PayTask /\ h.pc = "post"
        /\ h.ref = ref /\ h.trip = task[s].trip /\ h.trip \in PaidTrips
        /\ task[s].pc = "insert"
    BY <1>0, <1>2, PayTaskFields DEF InsertTransaction, At, PayTask
  <2>2. row \in TransactionRow /\ row # None /\ row.status # "success"
    BY NoneIsNoPayment DEF TransactionRow, Providers, TransactionStatus
  <2>3. CASE transactions[ref] # None
    BY <1>1, <1>2, <2>3 DEF InsertTransaction, payVars
  <2>4. CASE transactions[ref] = None
    <3>1. /\ transactions' = [transactions EXCEPT ![ref] = row]
          /\ task' = [task EXCEPT ![s] = h]
          /\ UNCHANGED <<gateway, fare, charges>>
      BY <1>2, <2>4 DEF InsertTransaction, Await
    <3> HIDE DEF h, row
    <3>2. /\ task'[s] = h /\ \A u \in Slots \ {s} : task'[u] = task[u]
          /\ task' \in [Slots -> PayTask \cup {Idle}]
      BY <1>0, <2>1, <3>1
    <3>3. /\ transactions'[ref] = row /\ \A x \in References \ {ref} : transactions'[x] = transactions[x]
          /\ transactions' \in [References -> TransactionRow \cup {None}]
      BY <1>0, <2>1, <2>2, <3>1
    <3>4. charges[ref] = None
      BY <2>1, <2>4 DEF PaymentsInv, ChargesPriced
    <3>5. PaymentsTypeOK'
      BY <3>1, <3>2, <3>3 DEF PaymentsInv, PaymentsTypeOK
    <3>6. ChargesPriced' /\ SuccessIsPaid' /\ PaidOnlyIfCharged'
      BY <2>1, <2>2, <3>1, <3>3
      DEF PaymentsInv, ChargesPriced, SuccessIsPaid, PaidOnlyIfCharged
    <3>7. \A u \in Slots : Priced(u)'
      BY <1>0, <2>1, <3>1, <3>2 DEF PaymentsInv, Priced
    <3>8. \A u \in Slots \ {s} : task[u].pc = "post" => task[u].ref \in References \ {ref}
      <4> SUFFICES ASSUME NEW u \in Slots \ {s}, task[u].pc = "post"
                   PROVE  task[u].ref \in References \ {ref}
        OBVIOUS
      <4>1. task[u].ref \in References
        BY <1>0, PayTaskFields
      <4>2. transactions[task[u].ref] # None
        BY DEF PaymentsInv, Charging
      <4> QED
        BY <2>4, <4>1, <4>2
    <3>9. \A u \in Slots : Charging(u)'
      BY <2>1, <2>2, <3>1, <3>2, <3>3, <3>4, <3>8 DEF PaymentsInv, Charging
    <3>10. \A u \in Slots : task[u].pc \in {"pay", "record"} => task[u].ref \in References \ {ref}
      BY <1>0, <2>4, PayTaskFields DEF PaymentsInv, Answered
    <3>11. \A u \in Slots : Answered(u)'
      BY <2>1, <2>2, <3>1, <3>2, <3>3, <3>10 DEF PaymentsInv, Answered
    <3> QED
      BY <3>2, <3>5, <3>6, <3>7, <3>9, <3>11 DEF PaymentsInv
  <2> QED
    BY <2>3, <2>4
<1>3. CASE PostPaystack(s) \/ PostFlutterwave(s)
  <2> DEFINE ref == task[s].ref
             row == [trip |-> task[s].trip, provider |-> task[s].provider, outcome |-> "pending"]
  <2>1. At(s, "post") /\ charges' = [charges EXCEPT ![ref] = row] /\ Finish(s)
        /\ UNCHANGED <<gateway, fare, transactions>>
    BY <1>3 DEF PostPaystack, PostFlutterwave, PostCharge
  <2>2. /\ task[s].pc = "post" /\ ref \in References /\ task[s].trip \in PaidTrips
        /\ row \in Charge /\ row # None /\ row.trip = task[s].trip
    BY <1>0, <2>1, PayTaskFields, NoneIsNoPayment DEF At, Charge, Outcomes
  <2>3. fare[row.trip] # None /\ transactions[ref] # None /\ charges[ref] = None
    BY <1>0, <2>2 DEF Priced, Charging
  <2> HIDE DEF row
  <2>4. /\ charges'[ref] = row /\ \A x \in References \ {ref} : charges'[x] = charges[x]
        /\ charges' \in [References -> Charge \cup {None}]
    BY <1>0, <2>1, <2>2
  <2>5. /\ task'[s] = Idle /\ \A u \in Slots \ {s} : task'[u] = task[u]
        /\ task' \in [Slots -> PayTask \cup {Idle}]
    BY <1>0, <2>1 DEF Finish
  <2>6. PaymentsTypeOK'
    BY <2>1, <2>4, <2>5 DEF PaymentsInv, PaymentsTypeOK
  <2>7. ChargesPriced' /\ SuccessIsPaid' /\ PaidOnlyIfCharged'
    BY <2>1, <2>2, <2>3, <2>4 DEF PaymentsInv, ChargesPriced, SuccessIsPaid, PaidOnlyIfCharged
  <2>8. \A u \in Slots : Priced(u)'
    BY <1>0, <2>1, <2>5 DEF PaymentsInv, Priced
  <2>9. \A u \in Slots \ {s} : task[u].pc = "post" => task[u].ref \in References \ {ref}
    BY <1>0, <2>2, PayTaskFields DEF PaymentsInv, Charging
  <2>10. \A u \in Slots : Charging(u)'
    BY <1>0, <2>1, <2>4, <2>5, <2>9 DEF PaymentsInv, Charging
  <2>11. \A u \in Slots : Answered(u)'
    BY <1>0, <2>1, <2>2, <2>3, <2>4, <2>5, PayTaskFields DEF PaymentsInv, Answered
  <2> QED
    BY <2>5, <2>6, <2>7, <2>8, <2>10, <2>11 DEF PaymentsInv
<1>4. CASE AskPaystack(s) \/ AskFlutterwave(s)
  <2> DEFINE ref == task[s].ref
             answer == Answer(charges[ref].outcome)
             h == [pc |-> AfterAnswer(answer), ref |-> ref, answer |-> answer]
  <2>1. PICK provider \in Providers : AskProvider(s, provider)
    BY <1>4 DEF AskPaystack, AskFlutterwave, Providers
  <2>2. UNCHANGED payVars /\ ref \in References
    BY <1>0, <2>1, PayTaskFields DEF AskProvider, At
  <2>3. CASE Finish(s)
    BY <1>1, <2>2, <2>3
  <2>4. CASE ~ Finish(s)
    <3>1. charges[ref] # None /\ task' = [task EXCEPT ![s] = h]
      BY <2>1, <2>4 DEF AskProvider, Await
    <3>2. transactions[ref] # None /\ charges[ref] \in Charge
      BY <1>0, <2>2, <3>1 DEF PaymentsInv, ChargesPriced
    <3>3. charges[ref].outcome \in Outcomes
      BY <3>2 DEF Charge
    <3>4. answer \in TransactionStatus /\ (answer = "success" => charges[ref].outcome = "success")
      BY <3>3 DEF Answer, Outcomes, TransactionStatus
    <3> HIDE DEF answer
    <3>5. /\ h \in PayTask /\ h.ref = ref /\ h.answer = answer
          /\ h.pc \in {"pay", "record"} /\ (h.pc = "pay" <=> answer = "success")
      BY <2>2, <3>4 DEF PayTask, AfterAnswer
    <3> HIDE DEF h
    <3> QED
      BY <2>2, <3>1, <3>2, <3>4, <3>5, QuietStep
  <2> QED
    BY <2>3, <2>4
<1>5. CASE MarkPaid(s)
  <2> DEFINE ref == task[s].ref
             t == charges[ref].trip
             row == [fare[t] EXCEPT !.paid = TRUE]
             h == [task[s] EXCEPT !.pc = "record"]
  <2>1. /\ task[s].pc = "pay" /\ ref \in References /\ h \in PayTask
        /\ h.pc = "record" /\ h.ref = ref /\ h.answer = task[s].answer
    BY <1>0, <1>5, PayTaskFields DEF MarkPaid, At, PayTask
  <2>2. /\ transactions[ref] # None /\ charges[ref] # None /\ task[s].answer = "success"
        /\ charges[ref].outcome = "success"
    BY <1>0, <2>1 DEF Answered
  <2>3. t \in PaidTrips /\ fare[t] \in Fare
    BY <1>0, <2>1, <2>2 DEF PaymentsInv, ChargesPriced, Charge
  <2>4. row \in Fare /\ row # None /\ row.paid
    BY <2>3, NoneIsNoPayment DEF Fare
  <2>5. /\ fare' = [fare EXCEPT ![t] = row] /\ task' = [task EXCEPT ![s] = h]
        /\ UNCHANGED <<gateway, transactions, charges>>
    BY <1>0, <1>5, <2>3 DEF MarkPaid, Await
  <2> HIDE DEF row, h
  <2>6. /\ fare'[t] = row /\ \A x \in PaidTrips \ {t} : fare'[x] = fare[x]
        /\ fare' \in [PaidTrips -> Fare \cup {None}]
    BY <1>0, <2>3, <2>4, <2>5
  <2>7. /\ task'[s] = h /\ \A u \in Slots \ {s} : task'[u] = task[u]
        /\ task' \in [Slots -> PayTask \cup {Idle}]
    BY <1>0, <2>1, <2>5
  <2>8. PaymentsTypeOK'
    BY <2>5, <2>6, <2>7 DEF PaymentsInv, PaymentsTypeOK
  <2>9. \A x \in PaidTrips : (fare[x] # None => fare'[x] # None) /\ (fare[x].paid => fare'[x].paid)
    BY <2>4, <2>6
  <2>10. ChargesPriced' /\ SuccessIsPaid'
    <3>1. \A x \in References : charges[x] # None => charges[x].trip \in PaidTrips
      BY <1>0 DEF Charge
    <3> QED
      BY <2>5, <2>9, <3>1 DEF PaymentsInv, ChargesPriced, SuccessIsPaid
  <2>11. PaidOnlyIfCharged'
    BY <2>1, <2>2, <2>5, <2>6 DEF PaymentsInv, PaidOnlyIfCharged
  <2>12. \A u \in Slots : Priced(u)'
    BY <1>0, <2>1, <2>7, <2>9, PayTaskFields DEF PaymentsInv, Priced
  <2>13. \A u \in Slots : Charging(u)'
    BY <2>1, <2>5, <2>7 DEF PaymentsInv, Charging
  <2>14. Answered(s)'
    BY <2>1, <2>2, <2>4, <2>5, <2>6, <2>7 DEF Answered
  <2>15. \A u \in Slots \ {s} : Answered(u)'
    <3> SUFFICES ASSUME NEW u \in Slots \ {s} PROVE Answered(u)'
      OBVIOUS
    <3>1. task[u].pc \in {"pay", "record"} => task[u].ref \in References
      BY <1>0, PayTaskFields
    <3>2. \A x \in References : charges[x] # None => charges[x].trip \in PaidTrips
      BY <1>0 DEF Charge
    <3> QED
      BY <2>5, <2>7, <2>9, <3>1, <3>2 DEF PaymentsInv, Answered
  <2> QED
    BY <2>7, <2>8, <2>10, <2>11, <2>12, <2>13, <2>14, <2>15 DEF PaymentsInv
<1>6. CASE RecordStatus(s)
  <2> DEFINE ref == task[s].ref
             row == [transactions[ref] EXCEPT !.status = task[s].answer]
  <2>1. task[s].pc = "record" /\ ref \in References /\ task[s].answer \in TransactionStatus
    BY <1>0, <1>6, PayTaskFields DEF RecordStatus, At
  <2>2. transactions[ref] \in TransactionRow
    BY <1>0, <2>1 DEF Answered
  <2>3. row \in TransactionRow /\ row # None /\ row.status = task[s].answer
    BY <2>1, <2>2, NoneIsNoPayment DEF TransactionRow
  <2>4. /\ transactions' = [transactions EXCEPT ![ref] = row] /\ task' = [task EXCEPT ![s] = Idle]
        /\ UNCHANGED <<gateway, fare, charges>>
    BY <1>0, <1>6, <2>1 DEF RecordStatus, Finish
  <2> HIDE DEF row
  <2>5. /\ transactions'[ref] = row /\ \A x \in References \ {ref} : transactions'[x] = transactions[x]
        /\ transactions' \in [References -> TransactionRow \cup {None}]
    BY <1>0, <2>1, <2>3, <2>4
  <2>6. /\ task'[s] = Idle /\ \A u \in Slots \ {s} : task'[u] = task[u]
        /\ task' \in [Slots -> PayTask \cup {Idle}]
    BY <1>0, <2>4
  <2>7. PaymentsTypeOK'
    BY <2>4, <2>5, <2>6 DEF PaymentsInv, PaymentsTypeOK
  <2>8. ChargesPriced' /\ PaidOnlyIfCharged'
    BY <2>3, <2>4, <2>5 DEF PaymentsInv, ChargesPriced, PaidOnlyIfCharged
  <2>9. SuccessIsPaid'
    BY <1>0, <2>1, <2>3, <2>4, <2>5 DEF PaymentsInv, SuccessIsPaid, Answered
  <2>10. \A u \in Slots : Priced(u)'
    BY <1>0, <2>4, <2>6 DEF PaymentsInv, Priced
  <2>11. \A x \in References : transactions[x] # None => transactions'[x] # None
    BY <2>3, <2>5
  <2>12. \A u \in Slots : Charging(u)'
    BY <1>0, <2>4, <2>6, <2>11, PayTaskFields DEF PaymentsInv, Charging
  <2>13. \A u \in Slots : Answered(u)'
    BY <1>0, <2>4, <2>6, <2>11, PayTaskFields DEF PaymentsInv, Answered
  <2> QED
    BY <2>6, <2>7, <2>8, <2>9, <2>10, <2>12, <2>13 DEF PaymentsInv
<1>7. CASE PaymentFails(s)
  BY <1>1, <1>7 DEF PaymentFails
<1> QED
  BY <1>2, <1>3, <1>4, <1>5, <1>6, <1>7 DEF PaymentStep

-----------------------------------------------------------------------------
LEMMA PaymentsBegin == RequestsInit /\ PaymentsInit => PaymentsInv
BY DEF RequestsInit, PaymentsInit, PaymentsInv, PaymentsTypeOK, ChargesPriced, Priced,
       Charging, Answered, SuccessIsPaid, PaidOnlyIfCharged, Idle, Providers

\* The invariant is kept, whatever the apps and providers do.
LEMMA PaymentsKept == PaymentsInv /\ [PaymentsNext]_<<task, payVars>> => PaymentsInv'
<1> SUFFICES ASSUME PaymentsInv, [PaymentsNext]_<<task, payVars>>
             PROVE  PaymentsInv'
  OBVIOUS
<1>1. CASE UNCHANGED <<task, payVars>>
  BY <1>1 DEF PaymentsInv, PaymentsTypeOK, ChargesPriced, Priced, Charging, Answered,
              SuccessIsPaid, PaidOnlyIfCharged, payVars
<1> QED
  BY <1>1, EventStep, StepStep DEF PaymentsNext

LEMMA PaymentsInvariant == PaymentsSpec => []PaymentsInv
BY PaymentsBegin, PaymentsKept, PTL DEF PaymentsSpec

\* Every column, charge and handler keeps its type.
THEOREM PaymentsTyped == PaymentsSpec => []PaymentsTypeOK
<1>1. PaymentsInv => PaymentsTypeOK
  BY DEF PaymentsInv
<1> QED
  BY <1>1, PaymentsInvariant, PTL

\* A transaction recorded as successful has paid its trip, however many
\* verifications overlap and whichever of them stop half-way.
THEOREM SuccessPays == PaymentsSpec => []SuccessIsPaid
<1>1. PaymentsInv => SuccessIsPaid
  BY DEF PaymentsInv
<1> QED
  BY <1>1, PaymentsInvariant, PTL

\* No trip counts as paid by card that no provider has charged.
THEOREM NothingPaidUncharged == PaymentsSpec => []PaidOnlyIfCharged
<1>1. PaymentsInv => PaidOnlyIfCharged
  BY DEF PaymentsInv
<1> QED
  BY <1>1, PaymentsInvariant, PTL

-----------------------------------------------------------------------------
(* Nobody is notified twice, for any notices, days and slots, with         *)
(* restarts at any point.  A notice not yet delivered is in one place at   *)
(* most: a handler, or a job that is due.                                  *)

\* The handlers that have notice n, and the days it is due.
Has(s, n) == task[s] \in NoticeTask /\ task[s].notice = n
Due(d, n) == jobs[d] # None /\ jobs[d].due /\ jobs[d].notice = n

OnePlace(n) ==
    /\ \A s, u \in Slots : Has(s, n) /\ Has(u, n) => s = u
    /\ \A d, e \in Days : Due(d, n) /\ Due(e, n) => d = e
    /\ \A s \in Slots, d \in Days : ~ (Has(s, n) /\ Due(d, n))

\* Until it is in the hands of its delivery it has not gone out; a job is of a
\* notice that was asked for.
Undelivered(n) ==
    /\ \A s \in Slots : Has(s, n) /\ task[s].pc # "save" => delivered[n] = 0
    /\ \A s \in Slots : Has(s, n) /\ task[s].pc = "schedule" => n \notin answered
    /\ \A d \in Days : Due(d, n) => delivered[n] = 0 /\ n \in answered

NoticesInv ==
    /\ NoticesTypeOK
    /\ task \in [Slots -> NoticeTask \cup {Idle}]
    /\ DeliveredOnce
    /\ \A n \in NoticeIds : OnePlace(n) /\ Undelivered(n)

LEMMA NoticeFields ==
    ASSUME NEW h \in NoticeTask
    PROVE  /\ h.notice \in NoticeIds /\ h.pc \in {"schedule", "deliver", "save"}
           /\ h.pc = "schedule" => h.day \in Days
           /\ h # Idle
  BY DEF NoticeTask, Idle

LEMMA IdleHasNone == Idle \notin NoticeTask /\ Idle.pc = "idle"
  BY DEF NoticeTask, Idle

\* A request for a notice nobody has asked for is the only place that has it.
LEMMA AskStep ==
    ASSUME NoticesInv, NEW s \in Slots, NEW n \in NoticeIds, Unasked(n),
           NEW h \in NoticeTask, h.notice = n, h.pc \in {"deliver", "schedule"},
           task[s] = Idle, task' = [task EXCEPT ![s] = h], UNCHANGED noticeVars
    PROVE  NoticesInv'
<1>1. /\ task'[s] = h /\ \A u \in Slots \ {s} : task'[u] = task[u]
      /\ task' \in [Slots -> NoticeTask \cup {Idle}]
  BY DEF NoticesInv
<1>2. NoticesTypeOK' /\ DeliveredOnce'
  BY <1>1 DEF NoticesInv, NoticesTypeOK, noticeVars, DeliveredOnce
<1>3. \A d \in Days : ~ Due(d, n)
  BY DEF Unasked, NoticesInv, Undelivered
<1>4. \A u \in Slots : ~ Has(u, n)
  BY DEF Unasked, Has
<1>5. \A m \in NoticeIds, u \in Slots : Has(u, m)' <=> IF u = s THEN m = n ELSE Has(u, m)
  BY <1>1 DEF Has
<1>6. \A m \in NoticeIds \ {n} : ~ Has(s, m)
  BY IdleHasNone DEF Has
<1>7. \A m \in NoticeIds, d \in Days : Due(d, m)' <=> Due(d, m)
  BY DEF Due, noticeVars
<1>8. \A m \in NoticeIds : OnePlace(m)'
  BY <1>3, <1>4, <1>5, <1>6, <1>7 DEF NoticesInv, OnePlace
<1>9. n \notin answered /\ delivered[n] = 0 /\ UNCHANGED <<answered, delivered>>
  BY DEF Unasked, noticeVars
<1>10. \A m \in NoticeIds : Undelivered(m)'
  BY <1>1, <1>3, <1>4, <1>5, <1>6, <1>7, <1>9 DEF NoticesInv, Undelivered
<1> QED
  BY <1>1, <1>2, <1>8, <1>10 DEF NoticesInv

\* AddJob: the notice goes from its handler to a job, or nowhere.
LEMMA AddStep ==
    ASSUME NoticesInv, NEW s \in Slots, AddJob(s)
    PROVE  NoticesInv'
<1> DEFINE n == task[s].notice
           day == task[s].day
           job == [notice |-> n, due |-> TRUE]
<1>0. task \in [Slots -> NoticeTask \cup {Idle}] /\ task[s].pc = "schedule"
  BY DEF NoticesInv, AddJob, At
<1>1. task[s] \in NoticeTask /\ n \in NoticeIds /\ day \in Days /\ Has(s, n)
  BY <1>0, NoticeFields, IdleHasNone DEF Has
<1>2. job \in Job /\ job # None /\ job.notice = n /\ job.due
  <2> HIDE DEF n
  <2>1. job \in Job
    BY <1>1 DEF Job
  <2> QED
    BY <2>1, NoneIsNoJob
<1>3. /\ jobs' = [jobs EXCEPT ![day] = IF jobs[day] = None THEN job ELSE jobs[day]]
      /\ answered' = answered \cup {n} /\ UNCHANGED <<notices, delivered, restarted>>
      /\ task' = [task EXCEPT ![s] = Idle]
  BY <1>1 DEF AddJob, Finish, NoticesInv, NoticesTypeOK
<1>4. delivered[n] = 0 /\ \A d \in Days : ~ Due(d, n)
  BY <1>0, <1>1 DEF NoticesInv, OnePlace, Undelivered
<1> HIDE DEF job, n, day
<1>5. /\ task'[s] = Idle /\ \A u \in Slots \ {s} : task'[u] = task[u]
      /\ task' \in [Slots -> NoticeTask \cup {Idle}]
  BY <1>0, <1>3
<1>6. /\ jobs' \in [Days -> Job \cup {None}]
      /\ \A d \in Days : jobs'[d] = jobs[d] \/ (d = day /\ jobs'[d] = job)
  BY <1>1, <1>2, <1>3 DEF NoticesInv, NoticesTypeOK
<1>7. NoticesTypeOK' /\ DeliveredOnce'
  BY <1>1, <1>3, <1>5, <1>6 DEF NoticesInv, NoticesTypeOK, DeliveredOnce
<1>8. \A m \in NoticeIds, u \in Slots : Has(u, m)' => Has(u, m) /\ u # s
  BY <1>5, IdleHasNone DEF Has
<1>9. \A m \in NoticeIds, d \in Days : Due(d, m)' => Due(d, m) \/ (m = n /\ d = day)
  BY <1>2, <1>6 DEF Due
<1>10. \A u \in Slots \ {s} : ~ Has(u, n)
  BY <1>1 DEF NoticesInv, OnePlace
<1>11. \A m \in NoticeIds : OnePlace(m)'
  <2> SUFFICES ASSUME NEW m \in NoticeIds PROVE OnePlace(m)'
    OBVIOUS
  <2>1. OnePlace(m)
    BY DEF NoticesInv
  <2> QED
    BY <1>1, <1>4, <1>8, <1>9, <1>10, <2>1 DEF OnePlace
<1>12. \A m \in NoticeIds : Undelivered(m)'
  <2> SUFFICES ASSUME NEW m \in NoticeIds PROVE Undelivered(m)'
    OBVIOUS
  <2>1. Undelivered(m)
    BY DEF NoticesInv
  <2> QED
    BY <1>3, <1>4, <1>5, <1>8, <1>9, <1>10, <2>1 DEF Undelivered
<1> QED
  BY <1>5, <1>7, <1>11, <1>12 DEF NoticesInv

\* Tick: it goes from its job to a handler.
LEMMA TickStep ==
    ASSUME NoticesInv, NEW s \in Slots, NEW day \in Days, Tick(s, day)
    PROVE  NoticesInv'
<1> DEFINE n == jobs[day].notice
           h == [pc |-> "deliver", notice |-> n]
           job == [jobs[day] EXCEPT !.due = FALSE]
<1>0. /\ task \in [Slots -> NoticeTask \cup {Idle}] /\ jobs[day] \in Job /\ task[s] = Idle
      /\ jobs \in [Days -> Job \cup {None}]
  BY DEF NoticesInv, NoticesTypeOK, Tick, Begin
<1>1. n \in NoticeIds /\ Due(day, n)
  BY <1>0 DEF Job, Due, Tick
<1>2. job \in Job /\ ~ job.due
  BY <1>0 DEF Job
<1>3. h \in NoticeTask /\ h.notice = n /\ h.pc = "deliver"
  BY <1>1 DEF NoticeTask
<1>4. /\ jobs' = [jobs EXCEPT ![day] = job] /\ task' = [task EXCEPT ![s] = h]
      /\ UNCHANGED <<notices, answered, delivered, restarted>>
  BY <1>0 DEF Tick, Begin, Run
<1>5. delivered[n] = 0 /\ \A u \in Slots : ~ Has(u, n)
  BY <1>1 DEF NoticesInv, OnePlace, Undelivered
<1> HIDE DEF job, h, n
<1>6. /\ task'[s] = h /\ \A u \in Slots \ {s} : task'[u] = task[u]
      /\ task' \in [Slots -> NoticeTask \cup {Idle}]
  BY <1>0, <1>3, <1>4
<1>7. /\ jobs' \in [Days -> Job \cup {None}]
      /\ \A d \in Days \ {day} : jobs'[d] = jobs[d]
      /\ jobs'[day] = job
  BY <1>0, <1>2, <1>4
<1>8. NoticesTypeOK' /\ DeliveredOnce'
  BY <1>4, <1>6, <1>7 DEF NoticesInv, NoticesTypeOK, DeliveredOnce
<1>9. \A m \in NoticeIds, u \in Slots :
          Has(u, m)' => (Has(u, m) /\ u # s) \/ (u = s /\ m = n)
  BY <1>3, <1>6 DEF Has
<1>10. \A m \in NoticeIds, d \in Days : Due(d, m)' => Due(d, m) /\ d # day
  BY <1>2, <1>7 DEF Due
<1>11. \A m \in NoticeIds : OnePlace(m)'
  <2> SUFFICES ASSUME NEW m \in NoticeIds PROVE OnePlace(m)'
    OBVIOUS
  <2>1. OnePlace(m)
    BY DEF NoticesInv
  <2> QED
    BY <1>1, <1>5, <1>9, <1>10, <2>1 DEF OnePlace
<1>12. \A m \in NoticeIds : Undelivered(m)'
  <2> SUFFICES ASSUME NEW m \in NoticeIds PROVE Undelivered(m)'
    OBVIOUS
  <2>1. Undelivered(m)
    BY DEF NoticesInv
  <2> QED
    BY <1>3, <1>4, <1>5, <1>6, <1>9, <1>10, <2>1 DEF Undelivered
<1> QED
  BY <1>6, <1>8, <1>11, <1>12 DEF NoticesInv

LEMMA DeliverStep ==
    ASSUME NoticesInv, NEW s \in Slots, NEW fails \in BOOLEAN, Deliver(s, fails)
    PROVE  NoticesInv'
<1> DEFINE n == task[s].notice
           h == [task[s] EXCEPT !.pc = "save"]
<1>0. /\ task \in [Slots -> NoticeTask \cup {Idle}] /\ task[s].pc = "deliver"
      /\ delivered \in [NoticeIds -> Nat]
  BY DEF NoticesInv, NoticesTypeOK, Deliver, At
<1>1. task[s] \in NoticeTask /\ n \in NoticeIds /\ Has(s, n)
  BY <1>0, NoticeFields, IdleHasNone DEF Has
<1>2. h \in NoticeTask /\ h.notice = n /\ h.pc = "save"
  BY <1>0, <1>1 DEF NoticeTask
<1>3. /\ delivered' = [delivered EXCEPT ![n] = IF fails THEN delivered[n] ELSE delivered[n] + 1]
      /\ task' = [task EXCEPT ![s] = h]
      /\ UNCHANGED <<jobs, notices, answered, restarted>>
  BY <1>0, <1>1 DEF Deliver, Await
<1>4. /\ delivered[n] = 0 /\ \A d \in Days : ~ Due(d, n)
      /\ \A u \in Slots \ {s} : ~ Has(u, n)
  BY <1>0, <1>1 DEF NoticesInv, OnePlace, Undelivered
<1> HIDE DEF h, n
<1>5. /\ task'[s] = h /\ \A u \in Slots \ {s} : task'[u] = task[u]
      /\ task' \in [Slots -> NoticeTask \cup {Idle}]
  BY <1>0, <1>2, <1>3
<1>6. /\ delivered' \in [NoticeIds -> Nat] /\ delivered'[n] <= 1
      /\ \A m \in NoticeIds \ {n} : delivered'[m] = delivered[m]
  BY <1>0, <1>1, <1>3, <1>4
<1>7. NoticesTypeOK' /\ DeliveredOnce'
  BY <1>1, <1>3, <1>5, <1>6 DEF NoticesInv, NoticesTypeOK, DeliveredOnce
<1>8. \A m \in NoticeIds, u \in Slots : Has(u, m)' <=> Has(u, m)
  BY <1>1, <1>2, <1>5 DEF Has, n
<1>9. \A m \in NoticeIds, d \in Days : Due(d, m)' <=> Due(d, m)
  BY <1>3 DEF Due
<1>10. \A m \in NoticeIds : OnePlace(m)'
  BY <1>8, <1>9 DEF NoticesInv, OnePlace
<1>11. \A m \in NoticeIds : Undelivered(m)'
  <2> SUFFICES ASSUME NEW m \in NoticeIds PROVE Undelivered(m)'
    OBVIOUS
  <2>1. Undelivered(m)
    BY DEF NoticesInv
  <2> QED
    BY <1>2, <1>3, <1>4, <1>5, <1>6, <1>8, <1>9, <2>1 DEF Undelivered
<1> QED
  BY <1>5, <1>7, <1>10, <1>11 DEF NoticesInv

\* The rest only loses handlers and jobs.
LEMMA LosingStep ==
    ASSUME NoticesInv, UNCHANGED <<answered, delivered>>,
           task' \in [Slots -> NoticeTask \cup {Idle}],
           \A s \in Slots : task'[s] = task[s] \/ task'[s] = Idle,
           jobs' = jobs \/ jobs' = [d \in Days |-> None],
           notices' \subseteq NoticeIds, restarted' \in BOOLEAN
    PROVE  NoticesInv'
<1>1. \A m \in NoticeIds, s \in Slots : Has(s, m)' => Has(s, m) /\ task'[s] = task[s]
  BY IdleHasNone DEF Has
<1>2. \A m \in NoticeIds, d \in Days : Due(d, m)' => Due(d, m)
  BY DEF Due
<1>3. NoticesTypeOK' /\ DeliveredOnce'
  BY DEF NoticesInv, NoticesTypeOK, DeliveredOnce
<1>4. \A m \in NoticeIds : OnePlace(m)'
  BY <1>1, <1>2 DEF NoticesInv, OnePlace
<1>5. \A m \in NoticeIds : Undelivered(m)'
  BY <1>1, <1>2 DEF NoticesInv, Undelivered
<1> QED
  BY <1>3, <1>4, <1>5 DEF NoticesInv

-----------------------------------------------------------------------------
LEMMA NoticesBegin == RequestsInit /\ NoticesInit => NoticesInv
<1> SUFFICES ASSUME RequestsInit, NoticesInit PROVE NoticesInv
  OBVIOUS
<1>1. \A s \in Slots : task[s] = Idle
  BY DEF RequestsInit
<1>2. /\ task \in [Slots -> NoticeTask \cup {Idle}] /\ jobs \in [Days -> Job \cup {None}]
      /\ delivered \in [NoticeIds -> Nat] /\ \A n \in NoticeIds : delivered[n] <= 1
  BY DEF RequestsInit, NoticesInit
<1>3. NoticesTypeOK /\ DeliveredOnce
  BY <1>2 DEF NoticesInit, NoticesTypeOK, DeliveredOnce
<1>4. \A n \in NoticeIds : (\A s \in Slots : ~ Has(s, n)) /\ (\A d \in Days : ~ Due(d, n))
  BY <1>1, IdleHasNone DEF Has, Due, NoticesInit
<1> QED
  BY <1>2, <1>3, <1>4 DEF NoticesInv, OnePlace, Undelivered

\* The invariant is kept, whatever notices are sent and scheduled.
LEMMA NoticesKept == NoticesInv /\ [NoticesNext]_<<task, noticeVars>> => NoticesInv'
<1> SUFFICES ASSUME NoticesInv, [NoticesNext]_<<task, noticeVars>>
             PROVE  NoticesInv'
  OBVIOUS
<1>0. /\ task \in [Slots -> NoticeTask \cup {Idle}] /\ notices \subseteq NoticeIds
      /\ restarted \in BOOLEAN
  BY DEF NoticesInv, NoticesTypeOK
<1>1. ASSUME NEW n \in NoticeIds, DeleteNotice(n)
      PROVE  NoticesInv'
  BY <1>0, <1>1, LosingStep DEF DeleteNotice
<1>2. CASE RestartJobs
  BY <1>0, <1>2, LosingStep DEF RestartJobs
<1>3. ASSUME NEW s \in Slots, NEW n \in NoticeIds, SendNow(s, n)
      PROVE  NoticesInv'
  <2> DEFINE h == [pc |-> "deliver", notice |-> n]
  <2>1. h \in NoticeTask /\ h.notice = n /\ h.pc = "deliver"
    BY DEF NoticeTask
  <2>2. /\ Unasked(n) /\ task[s] = Idle /\ task' = [task EXCEPT ![s] = h]
        /\ UNCHANGED noticeVars
    BY <1>3 DEF SendNow, Begin
  <2> HIDE DEF h
  <2> QED
    BY <2>1, <2>2, AskStep
<1>4. ASSUME NEW s \in Slots, NEW n \in NoticeIds, NEW day \in Days, Schedule(s, n, day)
      PROVE  NoticesInv'
  <2> DEFINE h == [pc |-> "schedule", notice |-> n, day |-> day]
  <2>1. h \in NoticeTask /\ h.notice = n /\ h.pc = "schedule"
    BY DEF NoticeTask
  <2>2. /\ Unasked(n) /\ task[s] = Idle /\ task' = [task EXCEPT ![s] = h]
        /\ UNCHANGED noticeVars
    BY <1>4 DEF Schedule, Begin
  <2> HIDE DEF h
  <2> QED
    BY <2>1, <2>2, AskStep
<1>5. ASSUME NEW s \in Slots, NEW fails \in BOOLEAN, SaveNotice(s, fails)
      PROVE  NoticesInv'
  <2>1. task' = [task EXCEPT ![s] = Idle] /\ UNCHANGED <<jobs, answered, delivered, restarted>>
    BY <1>5 DEF SaveNotice, Finish
  <2>2. task[s] \in NoticeTask
    BY <1>0, <1>5, IdleHasNone DEF SaveNotice, At
  <2>3. notices' \subseteq NoticeIds
    BY <1>0, <1>5, <2>2, NoticeFields DEF SaveNotice
  <2> QED
    BY <1>0, <2>1, <2>3, LosingStep
<1>6. CASE UNCHANGED <<task, noticeVars>>
  BY <1>0, <1>6, LosingStep DEF noticeVars
<1> QED
  BY <1>1, <1>2, <1>3, <1>4, <1>5, <1>6, AddStep, TickStep, DeliverStep DEF NoticesNext

LEMMA NoticesInvariant == NoticesSpec => []NoticesInv
BY NoticesBegin, NoticesKept, PTL DEF NoticesSpec

\* Every job, notice and handler keeps its type.
THEOREM NoticesTyped == NoticesSpec => []NoticesTypeOK
<1>1. NoticesInv => NoticesTypeOK
  BY DEF NoticesInv
<1> QED
  BY <1>1, NoticesInvariant, PTL

\* Nobody gets a notice twice, whatever jobs and requests overlap and however often
\* the process restarts.
THEOREM NobodyNotifiedTwice == NoticesSpec => []DeliveredOnce
<1>1. NoticesInv => DeliveredOnce
  BY DEF NoticesInv
<1> QED
  BY <1>1, NoticesInvariant, PTL

-----------------------------------------------------------------------------
(* Promos for drivers: no more rides end than were travelled, no more are  *)
(* travelled than accepted, no more accepted than asked.                   *)

Plausible(work) ==
    /\ work \in Work
    /\ work.completed + work.cancelled <= work.trips
    /\ work.trips <= work.accepted /\ work.accepted <= work.asked

WorkInv ==
    /\ DriverPromosTypeOK
    /\ task \in [Slots -> DriverPromoTask \cup {Idle}]
    /\ \A d \in PromoDrivers : taking[d] # None => Plausible(taking[d])
    /\ CompletedByWorking

\* One more ride asked for, travelled or ended keeps the counts plausible.
LEMMA WorkGrows ==
    ASSUME NEW w, Plausible(w)
    PROVE  /\ w.asked < MaxAsked =>
                /\ Plausible([w EXCEPT !.asked = @ + 1, !.accepted = @ + 1])
                /\ Plausible([w EXCEPT !.asked = @ + 1])
           /\ w.trips < w.accepted => Plausible([w EXCEPT !.trips = @ + 1])
           /\ w.completed + w.cancelled < w.trips =>
                /\ Plausible([w EXCEPT !.completed = @ + 1])
                /\ Plausible([w EXCEPT !.cancelled = @ + 1])
<1>1. /\ MaxAsked \in Nat
      /\ w.asked \in 0 .. MaxAsked /\ w.accepted \in 0 .. MaxAsked
      /\ w.trips \in 0 .. MaxAsked /\ w.cancelled \in 0 .. MaxAsked
      /\ w.completed \in 0 .. MaxAsked
      /\ w = [asked |-> w.asked, accepted |-> w.accepted, trips |-> w.trips,
              cancelled |-> w.cancelled, completed |-> w.completed]
  BY GoalsAssumption DEF Plausible, Work, Count
<1>2. /\ w.completed + w.cancelled <= w.trips
      /\ w.trips <= w.accepted /\ w.accepted <= w.asked
  BY DEF Plausible
<1>3. ASSUME w.asked < MaxAsked
      PROVE  /\ Plausible([w EXCEPT !.asked = @ + 1, !.accepted = @ + 1])
             /\ Plausible([w EXCEPT !.asked = @ + 1])
  <2>1. /\ w.asked + 1 \in Count /\ w.accepted + 1 \in Count
        /\ w.trips <= w.accepted + 1 /\ w.accepted + 1 <= w.asked + 1
        /\ w.accepted <= w.asked + 1
    BY <1>1, <1>2, <1>3 DEF Count
  <2>2. Plausible([w EXCEPT !.asked = @ + 1, !.accepted = @ + 1])
    BY <1>1, <1>2, <2>1 DEF Plausible, Work, Count
  <2>3. Plausible([w EXCEPT !.asked = @ + 1])
    BY <1>1, <1>2, <2>1 DEF Plausible, Work, Count
  <2> QED BY <2>2, <2>3
<1>4. ASSUME w.trips < w.accepted
      PROVE  Plausible([w EXCEPT !.trips = @ + 1])
  BY <1>1, <1>2, <1>4 DEF Plausible, Work, Count
<1>5. ASSUME w.completed + w.cancelled < w.trips
      PROVE  /\ Plausible([w EXCEPT !.completed = @ + 1])
             /\ Plausible([w EXCEPT !.cancelled = @ + 1])
  BY <1>1, <1>2, <1>5 DEF Plausible, Work, Count
<1> QED BY <1>3, <1>4, <1>5

LEMMA WorkBegins == RequestsInit /\ DriverPromosInit => WorkInv
BY DEF RequestsInit, DriverPromosInit, WorkInv, DriverPromosTypeOK, CompletedByWorking

\* Only the promo and the handlers change.
LEMMA WorkKept ==
    ASSUME WorkInv, driverPromo' \in DriverPromo \cup {None},
           task' \in [Slots -> DriverPromoTask \cup {Idle}],
           taking' = taking, rewarded' = rewarded
    PROVE  WorkInv'
<1>1. \A s \in Slots : task'[s] \in DriverPromoTask \cup {Idle}
  OBVIOUS
<1>2. DriverPromosTypeOK'
  BY <1>1 DEF WorkInv, DriverPromosTypeOK
<1> QED BY <1>2 DEF WorkInv, CompletedByWorking, Plausible

\* One driver's work changes to what is plausible, or goes.
LEMMA WorkChanges ==
    ASSUME WorkInv, UNCHANGED rewarded, driverPromo' \in DriverPromo \cup {None},
           task' \in [Slots -> DriverPromoTask \cup {Idle}],
           taking' \in [PromoDrivers -> Work \cup {None}],
           \A d \in PromoDrivers :
               taking'[d] = taking[d] \/ taking'[d] = None \/ Plausible(taking'[d])
    PROVE  WorkInv'
<1>1. \A s \in Slots : task'[s] \in DriverPromoTask \cup {Idle}
  OBVIOUS
<1>2. DriverPromosTypeOK'
  BY <1>1 DEF WorkInv, DriverPromosTypeOK
<1>3. \A d \in PromoDrivers : taking'[d] # None => Plausible(taking'[d])
  BY DEF WorkInv
<1> QED BY <1>2, <1>3 DEF WorkInv, CompletedByWorking, Plausible

LEMMA PromoEdited ==
    ASSUME WorkInv, NEW s \in Slots
    PROVE  /\ \A goal \in Goals, areas \in SUBSET PromoAreas :
                CreateDriverPromo(s, goal, areas) => WorkInv'
           /\ \A areas \in SUBSET PromoAreas, on \in BOOLEAN :
                UpdateDriverPromo(s, areas, on) => WorkInv'
           /\ ClearAreas(s) => WorkInv'
           /\ \A unknown \in BOOLEAN : CreateAreas(s, unknown) => WorkInv'
<1>0. /\ task \in [Slots -> DriverPromoTask \cup {Idle}]
      /\ driverPromo \in DriverPromo \cup {None}
  BY DEF WorkInv, DriverPromosTypeOK
<1>1. ASSUME NEW goal \in Goals, NEW areas \in SUBSET PromoAreas,
             CreateDriverPromo(s, goal, areas)
      PROVE  WorkInv'
  <2>1. [pc |-> "createAreas", areas |-> areas] \in DriverPromoTask
    BY DEF DriverPromoTask
  <2>2. task' \in [Slots -> DriverPromoTask \cup {Idle}]
    BY <1>0, <1>1, <2>1, HandlersKept DEF CreateDriverPromo
  <2>3. driverPromo' \in DriverPromo
    BY <1>1 DEF CreateDriverPromo, DriverPromo
  <2> QED BY <1>1, <2>2, <2>3, WorkKept DEF CreateDriverPromo
<1>2. ASSUME NEW areas \in SUBSET PromoAreas, NEW on \in BOOLEAN,
             UpdateDriverPromo(s, areas, on)
      PROVE  WorkInv'
  <2>1. [pc |-> "clearAreas", areas |-> areas] \in DriverPromoTask
    BY DEF DriverPromoTask
  <2>2. task' \in [Slots -> DriverPromoTask \cup {Idle}]
    BY <1>0, <1>2, <2>1, HandlersKept DEF UpdateDriverPromo
  <2>3. driverPromo' \in DriverPromo
    BY <1>0, <1>2 DEF UpdateDriverPromo, DriverPromo
  <2> QED BY <1>2, <2>2, <2>3, WorkKept DEF UpdateDriverPromo
<1>3. ASSUME ClearAreas(s)
      PROVE  WorkInv'
  <2>1. task[s] \in DriverPromoTask /\ task[s].pc = "clearAreas"
    BY <1>0, <1>3, HandlerAt DEF ClearAreas
  <2>2. [task[s] EXCEPT !.pc = "createAreas"] \in DriverPromoTask
    BY <2>1 DEF DriverPromoTask
  <2>3. task' \in [Slots -> DriverPromoTask \cup {Idle}]
    BY <1>0, <1>3, <2>2, HandlersKept DEF ClearAreas
  <2>4. driverPromo' \in DriverPromo \cup {None}
    BY <1>0, <1>3 DEF ClearAreas, DriverPromo
  <2> QED BY <1>3, <2>3, <2>4, WorkKept DEF ClearAreas
<1>4. ASSUME NEW unknown \in BOOLEAN, CreateAreas(s, unknown)
      PROVE  WorkInv'
  <2>1. task[s] \in DriverPromoTask /\ task[s].pc = "createAreas"
    BY <1>0, <1>4, HandlerAt DEF CreateAreas
  <2>2. task[s].areas \in SUBSET PromoAreas
    BY <2>1 DEF DriverPromoTask
  <2>3. task' \in [Slots -> DriverPromoTask \cup {Idle}]
    BY <1>0, <1>4, HandlersFinish DEF CreateAreas
  <2>4. driverPromo' \in DriverPromo \cup {None}
    BY <1>0, <1>4, <2>2 DEF CreateAreas, DriverPromo
  <2> QED BY <1>4, <2>3, <2>4, WorkKept DEF CreateAreas
<1> QED BY <1>1, <1>2, <1>3, <1>4

\* Drivers take part, work, and stop taking part when the promo is removed.
LEMMA WorkDone ==
    ASSUME WorkInv
    PROVE  /\ RemoveDriverPromo => WorkInv'
           /\ \A s \in Slots : TakePart(s) => WorkInv'
           /\ \A d \in PromoDrivers : \A accepts \in BOOLEAN : IsAsked(d, accepts) => WorkInv'
           /\ \A d \in PromoDrivers : Travels(d) => WorkInv'
           /\ \A d \in PromoDrivers : \A how \in {"completed", "cancelled"} :
                EndsTrip(d, how) => WorkInv'
<1>0. /\ task \in [Slots -> DriverPromoTask \cup {Idle}]
      /\ driverPromo \in DriverPromo \cup {None}
      /\ taking \in [PromoDrivers -> Work \cup {None}]
      /\ \A d \in PromoDrivers : taking[d] # None => Plausible(taking[d])
  BY DEF WorkInv, DriverPromosTypeOK
<1>1. ASSUME RemoveDriverPromo
      PROVE  WorkInv'
  BY <1>0, <1>1, WorkChanges DEF RemoveDriverPromo
<1>2. ASSUME NEW s \in Slots, TakePart(s)
      PROVE  WorkInv'
  <2>1. Plausible(NoWork) /\ NoWork \in Work
    BY GoalsAssumption DEF Plausible, NoWork, Work, Count
  <2>2. task' \in [Slots -> DriverPromoTask \cup {Idle}]
    BY <1>0, <1>2, HandlersFinish DEF TakePart
  <2>3. /\ taking' \in [PromoDrivers -> Work \cup {None}]
        /\ \A d \in PromoDrivers : taking'[d] \in {taking[d], NoWork}
    BY <1>0, <1>2, <2>1 DEF TakePart
  <2> QED BY <1>0, <1>2, <2>1, <2>2, <2>3, WorkChanges DEF TakePart
<1>3. ASSUME NEW d \in PromoDrivers, NEW work, Plausible(work), Works(d, work)
      PROVE  WorkInv'
  <2>1. work \in Work
    BY <1>3 DEF Plausible
  <2>2. /\ taking' \in [PromoDrivers -> Work \cup {None}]
        /\ \A e \in PromoDrivers : taking'[e] \in {taking[e], work}
    BY <1>0, <1>3, <2>1 DEF Works
  <2> QED BY <1>0, <1>3, <2>2, WorkChanges DEF Works
<1>4. ASSUME NEW d \in PromoDrivers, NEW accepts \in BOOLEAN, IsAsked(d, accepts)
      PROVE  WorkInv'
  <2>1. Plausible(taking[d]) /\ taking[d].asked < MaxAsked
    BY <1>0, <1>4 DEF IsAsked
  <2>2. CASE accepts
    BY <1>3, <1>4, <2>1, <2>2, WorkGrows DEF IsAsked
  <2>3. CASE ~accepts
    <3>1. [taking[d] EXCEPT !.asked = @ + 1, !.accepted = @]
              = [taking[d] EXCEPT !.asked = @ + 1]
      BY <2>1 DEF Plausible, Work
    <3> QED BY <1>3, <1>4, <2>1, <2>3, <3>1, WorkGrows DEF IsAsked
  <2> QED BY <2>2, <2>3
<1>5. ASSUME NEW d \in PromoDrivers, Travels(d)
      PROVE  WorkInv'
  BY <1>0, <1>3, <1>5, WorkGrows DEF Travels
<1>6. ASSUME NEW d \in PromoDrivers, NEW how \in {"completed", "cancelled"}, EndsTrip(d, how)
      PROVE  WorkInv'
  BY <1>0, <1>3, <1>6, WorkGrows DEF EndsTrip
<1> QED BY <1>1, <1>2, <1>4, <1>5, <1>6

\* The rates are of no nothing: AtLeast and AtMost ask for one ride, and one trip.
LEMMA ProgressRead ==
    ASSUME WorkInv, NEW s \in Slots
    PROVE  /\ \A d \in PromoDrivers, area \in PromoAreas : Participate(s, d, area) => WorkInv'
           /\ CheckAlready(s) => WorkInv'
           /\ \A d \in PromoDrivers : AskProgress(s, d) => WorkInv'
           /\ ReadTrips(s) => WorkInv'
           /\ \A b \in BOOLEAN : ReadRequests(s, b) => WorkInv'
<1>0. /\ task \in [Slots -> DriverPromoTask \cup {Idle}]
      /\ driverPromo \in DriverPromo \cup {None}
      /\ taking \in [PromoDrivers -> Work \cup {None}]
      /\ NoWork \in Work
  BY GoalsAssumption DEF WorkInv, DriverPromosTypeOK, NoWork, Work, Count
<1>1. ASSUME NEW d \in PromoDrivers, NEW area \in PromoAreas, Participate(s, d, area)
      PROVE  WorkInv'
  <2>1. [pc |-> "already", driver |-> d] \in DriverPromoTask
    BY DEF DriverPromoTask
  <2>2. task' \in [Slots -> DriverPromoTask \cup {Idle}]
    BY <1>0, <1>1, <2>1, HandlersKept DEF Participate
  <2> QED BY <1>0, <1>1, <2>2, WorkKept DEF Participate, driverPromoVars
<1>2. ASSUME CheckAlready(s)
      PROVE  WorkInv'
  <2>1. task[s] \in DriverPromoTask /\ task[s].pc = "already"
    BY <1>0, <1>2, HandlerAt DEF CheckAlready
  <2>2. [task[s] EXCEPT !.pc = "take"] \in DriverPromoTask
    BY <2>1 DEF DriverPromoTask
  <2>3. task' \in [Slots -> DriverPromoTask \cup {Idle}]
    BY <1>0, <1>2, <2>2, HandlersKept, HandlersFinish DEF CheckAlready
  <2> QED BY <1>0, <1>2, <2>3, WorkKept DEF CheckAlready, driverPromoVars
<1>3. ASSUME NEW d \in PromoDrivers, AskProgress(s, d)
      PROVE  WorkInv'
  <2>1. driverPromo.goal \in Goals
    BY <1>0, <1>3 DEF AskProgress, DriverPromo
  <2>2. [pc |-> "trips", driver |-> d, goal |-> driverPromo.goal] \in DriverPromoTask
    BY <2>1 DEF DriverPromoTask
  <2>3. task' \in [Slots -> DriverPromoTask \cup {Idle}]
    BY <1>0, <1>3, <2>2, HandlersKept DEF AskProgress
  <2> QED BY <1>0, <1>3, <2>3, WorkKept DEF AskProgress, driverPromoVars
<1>4. ASSUME ReadTrips(s)
      PROVE  WorkInv'
  <2>1. task[s] \in DriverPromoTask /\ task[s].pc = "trips"
    BY <1>0, <1>4, HandlerAt DEF ReadTrips
  <2>2. task[s].driver \in PromoDrivers /\ task[s].goal \in Goals
    BY <2>1 DEF DriverPromoTask
  <2> DEFINE work == IF taking[task[s].driver] = None THEN NoWork ELSE taking[task[s].driver]
             h == [pc |-> "requests", driver |-> task[s].driver, goal |-> task[s].goal,
                   work |-> work]
  <2>3. work \in Work
    BY <1>0, <2>2
  <2>4. Await(s, h)
    BY <1>4 DEF ReadTrips
  <2> HIDE DEF work
  <2>5. h \in DriverPromoTask
    BY <2>2, <2>3 DEF DriverPromoTask
  <2> HIDE DEF h
  <2>6. task' \in [Slots -> DriverPromoTask \cup {Idle}]
    BY <1>0, <2>4, <2>5, HandlersKept
  <2> QED BY <1>0, <1>4, <2>6, WorkKept DEF ReadTrips, driverPromoVars
<1>5. ASSUME NEW b \in BOOLEAN, ReadRequests(s, b)
      PROVE  WorkInv'
  <2>1. task[s] \in DriverPromoTask /\ task[s].pc = "requests"
    BY <1>0, <1>5, HandlerAt DEF ReadRequests
  <2>2. task[s].driver \in PromoDrivers /\ task[s].goal \in Goals /\ task[s].work \in Work
    BY <2>1 DEF DriverPromoTask
  <2> DEFINE was == task[s].work
             now == IF taking[task[s].driver] = None THEN was ELSE taking[task[s].driver]
  <2>3. now \in Work /\ was \in Work
    BY <1>0, <2>2
  <2>4. /\ now.asked \in Count /\ was.trips \in Count
        /\ \A n \in Count : n # 0 => n > 0
    BY <2>3, GoalsAssumption DEF Work, Count
  <2>5. \/ rewarded' = rewarded
        \/ /\ rewarded' = rewarded \cup {[asked |-> now.asked, trips |-> was.trips]}
           /\ now.asked # 0 /\ was.trips # 0
    BY <1>5 DEF ReadRequests, AtLeast, AtMost
  <2> HIDE DEF now, was
  <2>6. task' \in [Slots -> DriverPromoTask \cup {Idle}]
    BY <1>0, <1>5, HandlersFinish DEF ReadRequests
  <2>7. \A u \in Slots : task'[u] \in DriverPromoTask \cup {Idle}
    BY <2>6
  <2>8. rewarded' \subseteq [asked: Count, trips: Count]
    BY <2>4, <2>5 DEF WorkInv, DriverPromosTypeOK
  <2>9. DriverPromosTypeOK'
    BY <1>5, <2>7, <2>8 DEF ReadRequests, WorkInv, DriverPromosTypeOK
  <2>10. CompletedByWorking'
    BY <2>4, <2>5 DEF WorkInv, CompletedByWorking
  <2>11. taking' = taking
    BY <1>5 DEF ReadRequests
  <2> QED BY <2>6, <2>9, <2>10, <2>11 DEF WorkInv, Plausible
<1> QED BY <1>1, <1>2, <1>3, <1>4, <1>5

LEMMA WorkStep == WorkInv /\ [DriverPromosNext]_<<task, driverPromoVars>> => WorkInv'
<1> SUFFICES ASSUME WorkInv, [DriverPromosNext]_<<task, driverPromoVars>> PROVE WorkInv'
  OBVIOUS
<1>1. CASE UNCHANGED <<task, driverPromoVars>>
  BY <1>1, WorkKept DEF driverPromoVars, WorkInv, DriverPromosTypeOK
<1>2. ASSUME NEW s \in Slots, DriverPromosStep(s)
      PROVE  WorkInv'
  BY <1>2, PromoEdited, WorkDone, ProgressRead DEF DriverPromosStep
<1>3. ASSUME NEW s \in Slots, NEW goal \in Goals, NEW areas \in SUBSET PromoAreas \ {{}},
             CreateDriverPromo(s, goal, areas)
      PROVE  WorkInv'
  BY <1>3, PromoEdited
<1>4. CASE DriverPromosNext
  BY <1>2, <1>3, <1>4, PromoEdited, WorkDone, ProgressRead DEF DriverPromosNext
<1> QED BY <1>1, <1>4

LEMMA WorkHolds == DriverPromosSpec => []WorkInv
BY WorkBegins, WorkStep, PTL DEF DriverPromosSpec

\* No promo, whatever it asks for, is completed by a driver who was asked for no ride
\* or travelled nowhere, though what is compared is read at two moments.
THEOREM CompletedWorked == DriverPromosSpec => []CompletedByWorking
BY WorkHolds, PTL DEF WorkInv

-----------------------------------------------------------------------------
(* Types.  A component is typed when its variables are and every slot has  *)
(* one of its handlers or none; its steps keep it so.                      *)

\* A request under review is there: none is ever removed.
Reviewed(s) == At(s, "review") => requests[task[s].id] # None

WithdrawTyped ==
    /\ WithdrawTypeOK /\ task \in [Slots -> WithdrawTask \cup {Idle}]
    /\ \A s \in Slots : Reviewed(s)

\* Withdrawals and bank accounts.
LEMMA WithdrawTypesKept ==
    ASSUME WithdrawTyped, [WithdrawNext]_<<task, withdrawVars>>
    PROVE  /\ WithdrawTypeOK'
           /\ task' \in [Slots -> WithdrawTask \cup {Idle}]
<1> DEFINE Kept == /\ task' \in [Slots -> WithdrawTask \cup {Idle}]
                   /\ funds' \in [Earners -> Int]
                   /\ bank' \in [Earners -> BankAccount \cup {None}]
                   /\ requests' \in [RequestIds -> WithdrawalRequest \cup {None}]
<1>0. /\ task \in [Slots -> WithdrawTask \cup {Idle}]
      /\ funds \in [Earners -> Int]
      /\ bank \in [Earners -> BankAccount \cup {None}]
      /\ requests \in [RequestIds -> WithdrawalRequest \cup {None}]
      /\ \A s \in Slots : Reviewed(s)
  BY DEF WithdrawTyped, WithdrawTypeOK
<1>1. SUFFICES Kept
  BY DEF WithdrawTypeOK
<1>2. CASE UNCHANGED <<task, withdrawVars>>
  BY <1>0, <1>2 DEF withdrawVars
<1>3. ASSUME NEW d \in Earners, Rest(d) \/ \E amount \in -1 .. MaxFunds : Earn(d, amount)
      PROVE  Kept
  BY <1>0, <1>3 DEF Rest, Earn, BankAccount
<1>4. ASSUME NEW s \in Slots, NEW d \in Earners,
             \/ OpenAccount(s, d)
             \/ \E pc \in {"change", "close"} : FindAccount(s, d, pc)
             \/ \E amount \in 0 .. MaxFunds : AskWithdrawal(s, d, amount)
      PROVE  Kept
  <2>1. \A pc \in {"open", "change", "close"} : [pc |-> pc, driver |-> d] \in WithdrawTask
    BY DEF WithdrawTask
  <2>2. \A amount \in 0 .. MaxFunds :
          [pc |-> "account", driver |-> d, amount |-> amount, funds |-> funds[d]] \in WithdrawTask
    BY <1>0 DEF WithdrawTask
  <2>3. UNCHANGED withdrawVars
    BY <1>4 DEF OpenAccount, FindAccount, AskWithdrawal
  <2>4. \E h \in WithdrawTask : Begin(s, h)
    BY <1>4, <2>1, <2>2 DEF OpenAccount, FindAccount, AskWithdrawal
  <2> QED BY <1>0, <2>3, <2>4, HandlersKept DEF withdrawVars
<1>5. ASSUME NEW s \in Slots, CheckAccount(s) \/ CheckExisting(s)
      PROVE  Kept
  <2>1. task[s] \in WithdrawTask /\ task[s].pc \in {"account", "existing"}
    BY <1>0, <1>5, HandlerAt DEF CheckAccount, CheckExisting
  <2>2. \A pc \in {"existing", "request"} : [task[s] EXCEPT !.pc = pc] \in WithdrawTask
    BY <2>1 DEF WithdrawTask
  <2>3. UNCHANGED withdrawVars
    BY <1>5 DEF CheckAccount, CheckExisting
  <2>4. Finish(s) \/ \E h \in WithdrawTask : Await(s, h)
    BY <1>5, <2>2 DEF CheckAccount, CheckExisting
  <2> QED BY <1>0, <2>3, <2>4, HandlersKept, HandlersFinish DEF withdrawVars
<1>6. ASSUME NEW s \in Slots, Finish(s)
      PROVE  task' \in [Slots -> WithdrawTask \cup {Idle}]
  BY <1>0, <1>6, HandlersFinish
<1>7. ASSUME NEW s \in Slots, InsertAccount(s) \/ ChangeAccount(s) \/ CloseAccount(s)
      PROVE  Kept
  BY <1>0, <1>6, <1>7 DEF InsertAccount, ChangeAccount, CloseAccount, BankAccount
<1>8. ASSUME NEW s \in Slots, InsertRequest(s)
      PROVE  Kept
  <2>0. At(s, "request")
    BY <1>8 DEF InsertRequest
  <2>1. task[s] \in WithdrawTask /\ task[s].pc = "request"
    BY <1>0, <2>0, HandlerAt
  <2>2. [driver |-> task[s].driver, amount |-> task[s].amount, status |-> "pending"]
          \in WithdrawalRequest
    BY <2>1 DEF WithdrawTask, WithdrawalRequest, WithdrawalStatus
  <2> QED BY <1>0, <1>6, <1>8, <2>2 DEF InsertRequest
<1>9. ASSUME NEW s \in Slots, Review(s)
      PROVE  Kept
  <2>1. task[s] \in WithdrawTask /\ task[s].pc = "review"
    BY <1>0, <1>9, HandlerAt DEF Review
  <2>2. task[s].id \in RequestIds /\ task[s].status \in WithdrawalStatus
    BY <2>1 DEF WithdrawTask
  <2>3. [requests[task[s].id] EXCEPT !.status = task[s].status] \in WithdrawalRequest
    BY <1>0, <1>9, <2>2 DEF Review, Reviewed, WithdrawalRequest
  <2> QED BY <1>0, <1>6, <1>9, <2>2, <2>3 DEF Review
<1>10. ASSUME NEW s \in Slots, NEW r \in RequestIds, NEW status \in Verdicts,
              BeginReview(s, r, status)
       PROVE  Kept
  <2>1. [pc |-> "review", id |-> r, status |-> status] \in WithdrawTask
    BY VerdictsAssumption DEF WithdrawTask
  <2> QED BY <1>0, <1>10, <2>1, HandlersKept DEF BeginReview, withdrawVars
<1>11. ASSUME NEW s \in Slots, WithdrawFails(s)
       PROVE  Kept
  BY <1>0, <1>6, <1>11 DEF WithdrawFails, withdrawVars
<1> HIDE DEF Kept
<1>12. ASSUME NEW s \in Slots, WithdrawStep(s)
       PROVE  Kept
  BY <1>5, <1>7, <1>8, <1>9, <1>10, <1>12 DEF WithdrawStep
<1>13. CASE WithdrawNext
  BY <1>3, <1>4, <1>11, <1>12, <1>13 DEF WithdrawNext, WithdrawEvent
<1> QED BY <1>2, <1>13

LEMMA ReviewsKept ==
    ASSUME WithdrawTyped, [WithdrawNext]_<<task, withdrawVars>>, NEW u \in Slots
    PROVE  Reviewed(u)'
<1>0. /\ task \in [Slots -> WithdrawTask \cup {Idle}] /\ Idle.pc # "review"
      /\ requests \in [RequestIds -> WithdrawalRequest \cup {None}]
      /\ \A s \in Slots : Reviewed(s)
  BY DEF WithdrawTyped, WithdrawTypeOK, Idle
<1> DEFINE StaysFull(r) == requests[r] # None => requests'[r] # None
           FindsFull == task'[u] = task[u] \/ task'[u].pc # "review" \/ requests[task'[u].id] # None
<1>1. SUFFICES (\A r \in RequestIds : StaysFull(r)) /\ FindsFull
  <2>1. CASE task'[u].pc = "review"
    <3>1. task'[u] \in WithdrawTask
      BY <1>0, <2>1, WithdrawTypesKept
    <3>2. task'[u].id \in RequestIds
      BY <2>1, <3>1 DEF WithdrawTask
    <3>3. requests[task'[u].id] # None
      BY <1>0, <1>1, <2>1 DEF Reviewed, At
    <3> QED BY <1>1, <3>2, <3>3 DEF Reviewed
  <2> QED BY <2>1 DEF Reviewed, At
<1>2. CASE UNCHANGED <<task, withdrawVars>>
  BY <1>2 DEF withdrawVars
<1>3. ASSUME NEW d \in Earners, Rest(d) \/ \E amount \in -1 .. MaxFunds : Earn(d, amount)
      PROVE  (\A r \in RequestIds : StaysFull(r)) /\ FindsFull
  BY <1>3 DEF Rest, Earn
<1>4. ASSUME NEW s \in Slots, NEW h, h.pc # "review", task' = [task EXCEPT ![s] = h]
      PROVE  FindsFull
  BY <1>0, <1>4
<1>5. ASSUME NEW s \in Slots, NEW d \in Earners,
             \/ OpenAccount(s, d)
             \/ \E pc \in {"change", "close"} : FindAccount(s, d, pc)
             \/ \E amount \in 0 .. MaxFunds : AskWithdrawal(s, d, amount)
      PROVE  (\A r \in RequestIds : StaysFull(r)) /\ FindsFull
  <2>1. UNCHANGED requests
    BY <1>5 DEF OpenAccount, FindAccount, AskWithdrawal, withdrawVars
  <2>2. \E h : h.pc # "review" /\ task' = [task EXCEPT ![s] = h]
    BY <1>5 DEF OpenAccount, FindAccount, AskWithdrawal, Begin
  <2> QED BY <1>4, <2>1, <2>2
<1>6. ASSUME NEW s \in Slots, CheckAccount(s) \/ CheckExisting(s)
      PROVE  (\A r \in RequestIds : StaysFull(r)) /\ FindsFull
  <2>0. task[s] \in WithdrawTask /\ task[s].pc \in {"account", "existing"}
    BY <1>0, <1>6, HandlerAt DEF CheckAccount, CheckExisting
  <2>1. \A pc \in {"existing", "request"} : [task[s] EXCEPT !.pc = pc].pc = pc
    BY <2>0 DEF WithdrawTask
  <2>2. UNCHANGED requests
    BY <1>6 DEF CheckAccount, CheckExisting, withdrawVars
  <2>3. \E h : h.pc # "review" /\ task' = [task EXCEPT ![s] = h]
    BY <1>0, <1>6, <2>1 DEF CheckAccount, CheckExisting, Await, Finish
  <2> QED BY <1>4, <2>2, <2>3
<1>7. ASSUME NEW s \in Slots, Finish(s)
      PROVE  FindsFull
  BY <1>0, <1>4, <1>7 DEF Finish
<1>8. ASSUME NEW s \in Slots, \/ InsertAccount(s) \/ ChangeAccount(s) \/ CloseAccount(s)
                              \/ WithdrawFails(s)
      PROVE  (\A r \in RequestIds : StaysFull(r)) /\ FindsFull
  BY <1>7, <1>8 DEF InsertAccount, ChangeAccount, CloseAccount, WithdrawFails, withdrawVars
<1>9. ASSUME NEW s \in Slots, InsertRequest(s)
      PROVE  (\A r \in RequestIds : StaysFull(r)) /\ FindsFull
  <2>1. \A r \in RequestIds : StaysFull(r)
    BY <1>0, <1>9 DEF InsertRequest
  <2> QED BY <1>7, <1>9, <2>1 DEF InsertRequest
<1>10. ASSUME NEW s \in Slots, Review(s)
       PROVE  (\A r \in RequestIds : StaysFull(r)) /\ FindsFull
  <2>1. task[s] \in WithdrawTask /\ task[s].pc = "review"
    BY <1>0, <1>10, HandlerAt DEF Review
  <2>2. task[s].id \in RequestIds /\ task[s].status \in WithdrawalStatus
    BY <2>1 DEF WithdrawTask
  <2>3. requests[task[s].id] \in WithdrawalRequest
    BY <1>0, <2>1, <2>2 DEF Reviewed, At
  <2>4. [requests[task[s].id] EXCEPT !.status = task[s].status] \in WithdrawalRequest
    BY <2>2, <2>3 DEF WithdrawalRequest
  <2>5. [requests[task[s].id] EXCEPT !.status = task[s].status] # None
    BY <2>4, NoneIsNoRequest
  <2>6. \A r \in RequestIds : StaysFull(r)
    BY <1>0, <1>10, <2>5 DEF Review
  <2> QED BY <1>7, <1>10, <2>6 DEF Review
<1>11. ASSUME NEW s \in Slots, NEW r \in RequestIds, NEW status \in Verdicts,
              BeginReview(s, r, status)
       PROVE  (\A q \in RequestIds : StaysFull(q)) /\ FindsFull
  BY <1>0, <1>11 DEF BeginReview, Begin, withdrawVars
<1> HIDE DEF StaysFull, FindsFull
<1>12. ASSUME NEW s \in Slots, WithdrawStep(s)
       PROVE  (\A r \in RequestIds : StaysFull(r)) /\ FindsFull
  BY <1>6, <1>8, <1>9, <1>10, <1>11, <1>12 DEF WithdrawStep
<1>13. CASE WithdrawNext
  BY <1>3, <1>5, <1>8, <1>12, <1>13 DEF WithdrawNext, WithdrawEvent
<1> QED BY <1>2, <1>13

LEMMA WithdrawTypes == WithdrawTyped /\ [WithdrawNext]_<<task, withdrawVars>> => WithdrawTyped'
BY WithdrawTypesKept, ReviewsKept DEF WithdrawTyped

RegionsTyped == RegionsTypeOK /\ task \in [Slots -> RegionTask \cup {Idle}]

\* Countries, states and cities: what is switched is a place, and a handler goes on
\* with the place it was for.
LEMMA RegionsTypes == RegionsTyped /\ [RegionsNext]_<<task, regionVars>> => RegionsTyped'
<1> SUFFICES ASSUME RegionsTyped, [RegionsNext]_<<task, regionVars>> PROVE RegionsTyped'
  OBVIOUS
<1> DEFINE Places == Countries \cup States \cup Cities
           Kept == /\ task' \in [Slots -> RegionTask \cup {Idle}]
                   /\ active' \in SUBSET Places
                   /\ regionsDisturbed' \in BOOLEAN
<1>0. /\ task \in [Slots -> RegionTask \cup {Idle}]
      /\ active \in SUBSET Places
      /\ regionsDisturbed \in BOOLEAN
  BY DEF RegionsTyped, RegionsTypeOK
<1>1. SUFFICES Kept
  BY DEF RegionsTyped, RegionsTypeOK
<1> HIDE DEF Places
<1>2. CASE UNCHANGED <<task, regionVars>>
  BY <1>0, <1>2 DEF regionVars
<1>3. ASSUME NEW s \in Slots, NEW h \in RegionTask, BeginUpdate(s, h)
      PROVE  Kept
  BY <1>0, <1>3, HandlersKept DEF BeginUpdate
<1>4. ASSUME NEW s \in Slots, NEW on \in BOOLEAN,
             \/ \E country \in Countries : UpdateCountry(s, country, on)
             \/ \E state \in States : UpdateState(s, state, on)
             \/ \E city \in Cities : UpdateCity(s, city, on)
      PROVE  Kept
  <2>1. \A country \in Countries :
          /\ [pc |-> "country", country |-> country, on |-> on] \in RegionTask
          /\ [pc |-> "states", country |-> country] \in RegionTask
    BY DEF RegionTask
  <2>2. \A state \in States : [pc |-> "parent", state |-> state, on |-> on] \in RegionTask
    BY DEF RegionTask
  <2>3. \A city \in Cities : [pc |-> "grandparent", city |-> city, on |-> on] \in RegionTask
    BY DEF RegionTask
  <2> HIDE DEF Kept
  <2>4. CASE \E country \in Countries : UpdateCountry(s, country, on)
    BY <1>3, <2>1, <2>4 DEF UpdateCountry
  <2>5. CASE \E state \in States : UpdateState(s, state, on)
    BY <1>3, <2>2, <2>5 DEF UpdateState
  <2>6. CASE \E city \in Cities : UpdateCity(s, city, on)
    BY <1>3, <2>3, <2>6 DEF UpdateCity
  <2> QED BY <1>4, <2>4, <2>5, <2>6
<1>5. ASSUME NEW s \in Slots, NEW places, NEW h \in RegionTask, SwitchOff(s, places, h)
      PROVE  Kept
  BY <1>0, <1>5, HandlersKept DEF SwitchOff
<1>6. ASSUME NEW s \in Slots, NEW passes, NEW h \in RegionTask, Check(s, passes, h)
      PROVE  Kept
  BY <1>0, <1>6, HandlersKept, HandlersFinish DEF Check, regionVars
<1>7. ASSUME NEW s \in Slots, NEW place \in Places, Switch(s, place)
      PROVE  Kept
  BY <1>0, <1>7, HandlersFinish DEF Switch, Set
<1>8. ASSUME NEW s \in Slots, StatesOff(s) \/ CitiesOfCountryOff(s) \/ WriteCountry(s)
      PROVE  Kept
  <2>1. task[s] \in RegionTask /\ task[s].pc \in {"states", "citiesOfCountry", "country"}
    BY <1>0, <1>8, HandlerAt DEF StatesOff, CitiesOfCountryOff, WriteCountry
  <2>2. task[s].country \in Countries
    BY <2>1 DEF RegionTask
  <2>3. /\ [pc |-> "citiesOfCountry", country |-> task[s].country] \in RegionTask
        /\ [pc |-> "country", country |-> task[s].country, on |-> FALSE] \in RegionTask
        /\ task[s].country \in Places
    BY <2>2 DEF RegionTask, Places
  <2> HIDE DEF Kept
  <2> QED BY <1>5, <1>7, <1>8, <2>3 DEF StatesOff, CitiesOfCountryOff, WriteCountry
<1>9. ASSUME NEW s \in Slots, CheckParent(s) \/ CitiesOfStateOff(s) \/ WriteState(s)
      PROVE  Kept
  <2>1. task[s] \in RegionTask /\ task[s].pc \in {"parent", "citiesOfState", "state"}
    BY <1>0, <1>9, HandlerAt DEF CheckParent, CitiesOfStateOff, WriteState
  <2>2. task[s].state \in States
    BY <2>1 DEF RegionTask
  <2>3. /\ [pc |-> "citiesOfState", state |-> task[s].state] \in RegionTask
        /\ [pc |-> "state", state |-> task[s].state, on |-> FALSE] \in RegionTask
        /\ task[s].state \in Places
        /\ task[s].pc = "parent" => [task[s] EXCEPT !.pc = "state"] \in RegionTask
    BY <2>1, <2>2 DEF RegionTask, Places
  <2> HIDE DEF Kept
  <2>4. CASE CheckParent(s)
    <3> DEFINE h == IF task[s].on THEN [task[s] EXCEPT !.pc = "state"]
                    ELSE [pc |-> "citiesOfState", state |-> task[s].state]
    <3>1. h \in RegionTask
      BY <2>3, <2>4 DEF CheckParent, At
    <3>2. Check(s, CountryOf[task[s].state] \in active, h)
      BY <2>4 DEF CheckParent
    <3> HIDE DEF h
    <3> QED BY <1>6, <3>1, <3>2
  <2> QED BY <1>5, <1>7, <1>9, <2>3, <2>4 DEF CitiesOfStateOff, WriteState
<1>10. ASSUME NEW s \in Slots, CheckGrandparent(s) \/ CheckParentOfCity(s) \/ WriteCity(s)
       PROVE  Kept
  <2>1. task[s] \in RegionTask /\ task[s].pc \in {"grandparent", "parentOfCity", "city"}
    BY <1>0, <1>10, HandlerAt DEF CheckGrandparent, CheckParentOfCity, WriteCity
  <2>2. /\ task[s].city \in Places
        /\ [task[s] EXCEPT !.pc = "parentOfCity"] \in RegionTask
        /\ [task[s] EXCEPT !.pc = "city"] \in RegionTask
    BY <2>1 DEF RegionTask, Places
  <2> HIDE DEF Kept
  <2> QED BY <1>6, <1>7, <1>10, <2>2 DEF CheckGrandparent, CheckParentOfCity, WriteCity
<1>11. ASSUME NEW s \in Slots, UpdateFails(s)
       PROVE  Kept
  BY <1>0, <1>11, HandlersFinish DEF UpdateFails
<1> HIDE DEF Kept
<1>12. CASE RegionsNext
  BY <1>4, <1>8, <1>9, <1>10, <1>11, <1>12 DEF RegionsNext, RegionsStep
<1> QED BY <1>2, <1>12

FencesTyped == FencesTypeOK /\ task \in [Slots -> FenceTask \cup {Idle}]

\* Locations: coordinates are written for all rows only when there are some to write.
LEMMA FencesTypes == FencesTyped /\ [FencesNext]_<<task, locations>> => FencesTyped'
<1> SUFFICES ASSUME FencesTyped, [FencesNext]_<<task, locations>> PROVE FencesTyped'
  OBVIOUS
<1> DEFINE Kept == /\ task' \in [Slots -> FenceTask \cup {Idle}]
                   /\ locations' \in [Locations -> Location \cup {None}]
<1>0. /\ task \in [Slots -> FenceTask \cup {Idle}]
      /\ locations \in [Locations -> Location \cup {None}]
  BY DEF FencesTyped, FencesTypeOK
<1>1. SUFFICES Kept
  BY DEF FencesTyped, FencesTypeOK
<1>2. CASE UNCHANGED <<task, locations>>
  BY <1>0, <1>2
<1>3. ASSUME NEW s \in Slots, UNCHANGED locations,
             Finish(s) \/ \E h \in FenceTask : Begin(s, h) \/ Await(s, h)
      PROVE  Kept
  BY <1>0, <1>3, HandlersKept, HandlersFinish
<1>4. ASSUME NEW s \in Slots, NEW row \in Location, CreateLocation(s, row)
      PROVE  Kept
  <2>1. [pc |-> "validate", row |-> row] \in FenceTask
    BY DEF FenceTask
  <2> QED BY <1>3, <1>4, <2>1 DEF CreateLocation
<1>5. ASSUME NEW s \in Slots, NEW l \in Locations,
             NEW name \in LocationNames \cup {None}, NEW coordinates \in Polygons \cup {None},
             NEW is_active \in BOOLEAN, FindLocation(s, l, name, coordinates, is_active)
      PROVE  Kept
  <2>1. [pc |-> "name", id |-> l, name |-> name, coordinates |-> coordinates,
         is_active |-> is_active] \in FenceTask
    BY DEF FenceTask
  <2> QED BY <1>3, <1>5, <2>1 DEF FindLocation
<1>6. ASSUME NEW s \in Slots, NEW l \in Locations, FindToRemove(s, l)
      PROVE  Kept
  <2>1. [pc |-> "delete", id |-> l] \in FenceTask
    BY DEF FenceTask
  <2> QED BY <1>3, <1>6, <2>1 DEF FindToRemove
<1>7. ASSUME NEW s \in Slots, ValidateNew(s)
      PROVE  Kept
  <2>1. task[s] \in FenceTask /\ task[s].pc = "validate"
    BY <1>0, <1>7, HandlerAt DEF ValidateNew
  <2>2. [task[s] EXCEPT !.pc = "insert"] \in FenceTask
    BY <2>1 DEF FenceTask
  <2> QED BY <1>3, <1>7, <2>2 DEF ValidateNew
<1>8. ASSUME NEW s \in Slots, InsertLocation(s)
      PROVE  Kept
  <2>0. At(s, "insert") /\ Finish(s)
    BY <1>8 DEF InsertLocation
  <2>1. task[s] \in FenceTask /\ task[s].pc = "insert"
    BY <1>0, <2>0, HandlerAt
  <2>2. task[s].row \in Location
    BY <2>1 DEF FenceTask
  <2>3. locations' \in [Locations -> Location \cup {None}]
    BY <1>0, <1>8, <2>2 DEF InsertLocation
  <2> QED BY <1>0, <2>0, <2>3, HandlersFinish
<1>9. ASSUME NEW s \in Slots, CheckName(s)
      PROVE  Kept
  <2>1. task[s] \in FenceTask /\ task[s].pc = "name"
    BY <1>0, <1>9, HandlerAt DEF CheckName
  <2>2. /\ [task[s] EXCEPT !.pc = "row"] \in FenceTask
        /\ task[s].coordinates # None => [task[s] EXCEPT !.pc = "revalidate"] \in FenceTask
    BY <2>1 DEF FenceTask
  <2> QED BY <1>3, <1>9, <2>2 DEF CheckName
<1>10. ASSUME NEW s \in Slots, ValidateChanged(s)
       PROVE  Kept
  <2>1. task[s] \in FenceTask /\ task[s].pc = "revalidate"
    BY <1>0, <1>10, HandlerAt DEF ValidateChanged
  <2>2. [task[s] EXCEPT !.pc = "coordinates"] \in FenceTask
    BY <2>1 DEF FenceTask
  <2> QED BY <1>3, <1>10, <2>2 DEF ValidateChanged
<1>11. ASSUME NEW s \in Slots, WriteCoordinates(s)
       PROVE  Kept
  <2>0. At(s, "coordinates")
    BY <1>11 DEF WriteCoordinates
  <2>1. task[s] \in FenceTask /\ task[s].pc = "coordinates"
    BY <1>0, <2>0, HandlerAt
  <2>2. [task[s] EXCEPT !.pc = "row"] \in FenceTask
    BY <2>1 DEF FenceTask
  <2>3. task' \in [Slots -> FenceTask \cup {Idle}]
    BY <1>0, <1>11, <2>2, HandlersKept DEF WriteCoordinates
  <2>4. task[s].coordinates \in Polygons
    BY <2>1 DEF FenceTask
  <2>5. \A l \in Rows : [locations[l] EXCEPT !.coordinates = task[s].coordinates] \in Location
    BY <1>0, <2>4 DEF Rows, Location
  <2>6. locations' \in [Locations -> Location \cup {None}]
    BY <1>11, <2>5 DEF WriteCoordinates
  <2> QED BY <2>3, <2>6
<1>12. ASSUME NEW s \in Slots, WriteLocation(s)
       PROVE  Kept
  <2>1. task[s] \in FenceTask /\ task[s].pc = "row"
    BY <1>0, <1>12, HandlerAt DEF WriteLocation
  <2>2. /\ task[s].id \in Locations /\ task[s].name \in LocationNames \cup {None}
        /\ task[s].is_active \in BOOLEAN
    BY <2>1 DEF FenceTask
  <2>3. task' \in [Slots -> FenceTask \cup {Idle}]
    BY <1>0, <1>12, HandlersFinish DEF WriteLocation
  <2>4. ASSUME task[s].id \in Rows
        PROVE  [locations[task[s].id] EXCEPT
                  !.name = IF task[s].name = None THEN @ ELSE task[s].name,
                  !.is_active = task[s].is_active] \in Location
    BY <1>0, <2>2, <2>4 DEF Rows, Location
  <2>5. locations' \in [Locations -> Location \cup {None}]
    BY <1>0, <1>12, <2>2, <2>4 DEF WriteLocation, Rows, Location
  <2> QED BY <2>3, <2>5
<1>13. ASSUME NEW s \in Slots, NEW referred \in BOOLEAN, RemoveLocation(s, referred)
       PROVE  Kept
  BY <1>0, <1>13, HandlersFinish DEF RemoveLocation
<1> HIDE DEF Kept
<1>14. CASE FencesNext
  BY <1>4, <1>5, <1>6, <1>7, <1>8, <1>9, <1>10, <1>11, <1>12, <1>13, <1>14
     DEF FencesNext, FencesStep
<1> QED BY <1>2, <1>14

FaresTyped == FaresTypeOK /\ task \in [Slots -> FareTask \cup {Idle}]

\* A price is a number: only a wait that was recorded is compared and multiplied.
LEMMA PriceIsNumber ==
    ASSUME NEW tariff \in Tariff, NEW time \in Nat, NEW distance \in Nat
    PROVE  Price(tariff, time, distance, None) \in Int
<1>1. /\ tariff.base \in Int /\ tariff.minimum \in Int
      /\ tariff.per_minute \in Int /\ tariff.per_kilometer \in Int
  BY DEF Tariff
<1>2. Waiting(tariff, None) = 0
  BY DEF Waiting
<1>3. time * tariff.per_minute \in Int /\ distance * tariff.per_kilometer \in Int
  BY <1>1
<1> QED BY <1>1, <1>2, <1>3 DEF Price

\* Fares, peaks and prices.
LEMMA FaresTypes == FaresTyped /\ [FaresNext]_<<task, fareVars>> => FaresTyped'
<1> SUFFICES ASSUME FaresTyped, [FaresNext]_<<task, fareVars>> PROVE FaresTyped'
  OBVIOUS
<1> DEFINE Kept == /\ task' \in [Slots -> FareTask \cup {Idle}]
                   /\ fares' \in [FareIds -> FareRow \cup {None}]
                   /\ peaks' \in [FareIds -> SUBSET Peak]
                   /\ quote' \in Int \cup {None}
                   /\ overlapped' \in BOOLEAN
<1>0. /\ task \in [Slots -> FareTask \cup {Idle}]
      /\ fares \in [FareIds -> FareRow \cup {None}]
      /\ peaks \in [FareIds -> SUBSET Peak]
      /\ quote \in Int \cup {None}
      /\ overlapped \in BOOLEAN
  BY DEF FaresTyped, FaresTypeOK
<1>1. SUFFICES Kept
  BY DEF FaresTyped, FaresTypeOK
<1>2. CASE UNCHANGED <<task, fareVars>>
  BY <1>0, <1>2 DEF fareVars
<1>3. ASSUME NEW s \in Slots, NEW h \in FareTask, BeginFare(s, h)
      PROVE  Kept
  BY <1>0, <1>3, HandlersKept DEF BeginFare
<1>4. ASSUME NEW s \in Slots, NEW row \in FareRow,
             CreateFare(s, row) \/ \E f \in FareIds : UpdateFare(s, f, row)
      PROVE  Kept
  <2>1. /\ [pc |-> "add", row |-> row] \in FareTask
        /\ \A f \in FareIds : [pc |-> "set", id |-> f, row |-> row] \in FareTask
    BY DEF FareTask
  <2>2. CASE CreateFare(s, row)
    BY <1>3, <2>1, <2>2 DEF CreateFare
  <2>3. ASSUME NEW f \in FareIds, UpdateFare(s, f, row)
        PROVE  Kept
    <3>1. task' \in [Slots -> FareTask \cup {Idle}]
      BY <1>0, <2>1, <2>3, HandlersKept DEF UpdateFare
    <3> QED BY <1>0, <2>3, <3>1 DEF UpdateFare
  <2> QED BY <1>4, <2>2, <2>3
<1>5. ASSUME NEW s \in Slots, NEW f \in FareIds,
             \/ DeleteFare(s, f)
             \/ \E peak \in Peak : CreatePeak(s, f, peak)
             \/ \E old \in Peak, peak \in Peak \cup {None} : FindPeak(s, f, old, peak)
      PROVE  Kept
  <2>1. /\ [pc |-> "drop", id |-> f] \in FareTask
        /\ \A peak \in Peak : [pc |-> "addPeak", id |-> f, peak |-> peak] \in FareTask
        /\ \A old \in Peak, peak \in Peak \cup {None} :
             [pc |-> "setPeak", id |-> f, old |-> old, peak |-> peak] \in FareTask
    BY DEF FareTask
  <2> HIDE DEF Kept
  <2> QED BY <1>3, <1>5, <2>1 DEF DeleteFare, CreatePeak, FindPeak
<1>6. ASSUME NEW s \in Slots, NEW area \in Areas, NEW kind \in Kinds, NEW time \in Minutes,
             NEW distance \in Minutes, Calculate(s, area, kind, time, distance)
      PROVE  Kept
  <2>1. [pc |-> "price", area |-> area, kind |-> kind, time |-> time, distance |-> distance]
          \in FareTask
    BY DEF FareTask
  <2> QED BY <1>3, <1>6, <2>1 DEF Calculate
<1>7. ASSUME NEW s \in Slots, AddFare(s) \/ SetFare(s)
      PROVE  Kept
  <2>0. (At(s, "add") \/ At(s, "set")) /\ Finish(s)
    BY <1>7 DEF AddFare, SetFare
  <2>1. task[s] \in FareTask /\ task[s].pc \in {"add", "set"}
    BY <1>0, <2>0 DEF At, Idle
  <2>2. task[s].row \in FareRow
    BY <2>1 DEF FareTask
  <2>3. fares' \in [FareIds -> FareRow \cup {None}] /\ UNCHANGED <<peaks, quote, overlapped>>
    BY <1>0, <1>7, <2>2 DEF AddFare, SetFare
  <2> QED BY <1>0, <2>0, <2>3, HandlersFinish
<1>8. ASSUME NEW s \in Slots, NEW travelled \in BOOLEAN, DropFare(s, travelled)
      PROVE  Kept
  BY <1>0, <1>8, HandlersFinish DEF DropFare
<1>9. ASSUME NEW s \in Slots, AddPeak(s)
      PROVE  Kept
  <2>1. task[s] \in FareTask /\ task[s].pc = "addPeak"
    BY <1>0, <1>9, HandlerAt DEF AddPeak
  <2>2. task[s].id \in FareIds /\ task[s].peak \in Peak
    BY <2>1 DEF FareTask
  <2> QED BY <1>0, <1>9, <2>2, HandlersFinish DEF AddPeak
<1>10. ASSUME NEW s \in Slots, SetPeak(s)
       PROVE  Kept
  <2>1. task[s] \in FareTask /\ task[s].pc = "setPeak"
    BY <1>0, <1>10, HandlerAt DEF SetPeak
  <2>2. task[s].id \in FareIds /\ task[s].peak \in Peak \cup {None}
    BY <2>1 DEF FareTask
  <2>3. peaks' \in [FareIds -> SUBSET Peak]
    BY <1>0, <1>10, <2>2 DEF SetPeak
  <2> QED BY <1>0, <1>10, <2>3, HandlersFinish DEF SetPeak
<1>11. ASSUME NEW s \in Slots, AnswerFare(s)
       PROVE  Kept
  <2>1. task[s] \in FareTask /\ task[s].pc = "price"
    BY <1>0, <1>11, HandlerAt DEF AnswerFare
  <2>2. task[s].time \in Nat /\ task[s].distance \in Nat
    BY <2>1, TariffsAssumption DEF FareTask
  <2>3. \A f \in FaresAt(task[s].area, task[s].kind) :
          Price(fares[f].tariff, task[s].time, task[s].distance, None) \in Int
    <3>1. \A f \in KnownFares : fares[f].tariff \in Tariff
      BY <1>0, TariffsAssumption DEF KnownFares, FareRow
    <3> QED BY <2>2, <3>1, PriceIsNumber DEF FaresAt
  <2>4. quote' \in Int \cup {None}
    BY <1>0, <1>11, <2>3 DEF AnswerFare
  <2> QED BY <1>0, <1>11, <2>4, HandlersFinish DEF AnswerFare
<1> HIDE DEF Kept
<1>12. CASE FaresNext
  BY <1>4, <1>5, <1>6, <1>7, <1>8, <1>9, <1>10, <1>11, <1>12 DEF FaresNext, FaresStep
<1> QED BY <1>2, <1>12

PromosTyped == PromosTypeOK /\ task \in [Slots -> PromoTask \cup {Idle}]

\* A handler that goes on to its next write is one of the handlers.
LEMMA PromoWrites ==
    ASSUME NEW ids \in SUBSET Customers, NEW expiry \in BOOLEAN,
           NEW new \in SUBSET Customers, NEW removed \in SUBSET Customers,
           NEW pc \in {"saved", "addUsers"},
           NEW h, h = [pc |-> pc, ids |-> ids, expiry |-> expiry, new |-> new, removed |-> removed]
    PROVE  AtRemoval(h) \in PromoTask /\ AtFirstWrite(h) \in PromoTask
<1>1. /\ [h EXCEPT !.pc = "removeUsers"] \in PromoTask
      /\ [h EXCEPT !.pc = "addUsers"] \in PromoTask
  BY DEF PromoTask
<1>2. [pc |-> "writePromo", ids |-> h.ids, expiry |-> h.expiry] \in PromoTask
  BY DEF PromoTask
<1> QED BY <1>1, <1>2 DEF AtRemoval, AtFirstWrite

\* Promos and discounts.
LEMMA PromosTypes == PromosTyped /\ [PromosNext]_<<task, promoVars>> => PromosTyped'
<1> SUFFICES ASSUME PromosTyped, [PromosNext]_<<task, promoVars>> PROVE PromosTyped'
  OBVIOUS
<1> DEFINE Kept == /\ task' \in [Slots -> PromoTask \cup {Idle}]
                   /\ promo' \in Promo \cup {None}
                   /\ wanted' \in (SUBSET Customers) \cup {None}
                   /\ discount' \in Discount \cup {None}
<1>0. /\ task \in [Slots -> PromoTask \cup {Idle}]
      /\ promo \in Promo \cup {None}
      /\ wanted \in (SUBSET Customers) \cup {None}
      /\ discount \in Discount \cup {None}
  BY DEF PromosTyped, PromosTypeOK
<1>1. SUFFICES Kept
  BY DEF PromosTyped, PromosTypeOK
<1>2. CASE UNCHANGED <<task, promoVars>>
  BY <1>0, <1>2 DEF promoVars
<1>3. ASSUME NEW s \in Slots, NEW ids \in SUBSET Customers,
             CreatePromo(s, ids) \/ \E expiry \in BOOLEAN : UpdatePromo(s, ids, expiry)
      PROVE  Kept
  <2>1. /\ [pc |-> "insertPromo", ids |-> IF ids = {} THEN Customers ELSE ids] \in PromoTask
        /\ \A expiry \in BOOLEAN : [pc |-> "saved", ids |-> ids, expiry |-> expiry] \in PromoTask
    BY DEF PromoTask
  <2>2. \E h \in PromoTask : Begin(s, h)
    BY <1>3, <2>1 DEF CreatePromo, UpdatePromo
  <2>3. task' \in [Slots -> PromoTask \cup {Idle}]
    BY <1>0, <2>2, HandlersKept
  <2> QED BY <1>0, <1>3, <2>3 DEF CreatePromo, UpdatePromo, promoVars
<1>4. ASSUME NEW s \in Slots, InsertPromo(s)
      PROVE  Kept
  <2>1. task[s] \in PromoTask /\ task[s].pc = "insertPromo"
    BY <1>0, <1>4, HandlerAt DEF InsertPromo
  <2>2. [users |-> task[s].ids, expired |-> FALSE] \in Promo
    BY <2>1 DEF PromoTask, Promo
  <2> QED BY <1>0, <1>4, <2>2, HandlersFinish DEF InsertPromo
<1>5. ASSUME NEW s \in Slots, ReadSaved(s)
      PROVE  Kept
  <2>1. task[s] \in PromoTask /\ task[s].pc = "saved"
    BY <1>0, <1>5, HandlerAt DEF ReadSaved
  <2>2. task[s].ids \in SUBSET Customers /\ task[s].expiry \in BOOLEAN
    BY <2>1 DEF PromoTask
  <2> DEFINE saved == IF promo = None THEN {} ELSE promo.users
             h == [pc |-> "saved", ids |-> task[s].ids, expiry |-> task[s].expiry,
                   new |-> task[s].ids \ saved, removed |-> Removed(saved, task[s].ids)]
  <2>3. saved \in SUBSET Customers
    BY <1>0 DEF Promo
  <2>4. Await(s, AtFirstWrite(h))
    BY <1>5 DEF ReadSaved
  <2> HIDE DEF saved
  <2>5. task[s].ids \ saved \in SUBSET Customers /\ Removed(saved, task[s].ids) \in SUBSET Customers
    BY <2>2, <2>3 DEF Removed
  <2>6. AtFirstWrite(h) \in PromoTask
    BY <2>2, <2>5, PromoWrites
  <2> HIDE DEF h
  <2>7. task' \in [Slots -> PromoTask \cup {Idle}]
    BY <1>0, <2>4, <2>6, HandlersKept
  <2> QED BY <1>0, <1>5, <2>7 DEF ReadSaved, promoVars
<1>6. ASSUME NEW s \in Slots, AddUsers(s)
      PROVE  Kept
  <2>1. task[s] \in PromoTask /\ task[s].pc = "addUsers"
    BY <1>0, <1>6, HandlerAt DEF AddUsers
  <2>2. /\ task[s].ids \in SUBSET Customers /\ task[s].expiry \in BOOLEAN
        /\ task[s].new \in SUBSET Customers /\ task[s].removed \in SUBSET Customers
        /\ task[s] = [pc |-> "addUsers", ids |-> task[s].ids, expiry |-> task[s].expiry,
                      new |-> task[s].new, removed |-> task[s].removed]
    BY <2>1 DEF PromoTask
  <2>3. AtRemoval(task[s]) \in PromoTask
    BY <2>2, PromoWrites
  <2>4. promo # None => [promo EXCEPT !.users = @ \cup task[s].new] \in Promo
    BY <1>0, <2>2 DEF Promo
  <2>5. task' \in [Slots -> PromoTask \cup {Idle}]
    BY <1>0, <1>6, <2>3, HandlersKept, HandlersFinish DEF AddUsers
  <2> QED BY <1>0, <1>6, <2>4, <2>5 DEF AddUsers
<1>7. ASSUME NEW s \in Slots, RemoveUsers(s)
      PROVE  Kept
  <2>1. task[s] \in PromoTask /\ task[s].pc = "removeUsers"
    BY <1>0, <1>7, HandlerAt DEF RemoveUsers
  <2>2. [pc |-> "writePromo", ids |-> task[s].ids, expiry |-> task[s].expiry] \in PromoTask
    BY <2>1 DEF PromoTask
  <2>3. promo # None => [promo EXCEPT !.users = @ \ task[s].removed] \in Promo
    BY <1>0 DEF Promo
  <2>4. task' \in [Slots -> PromoTask \cup {Idle}]
    BY <1>0, <1>7, <2>2, HandlersKept DEF RemoveUsers
  <2> QED BY <1>0, <1>7, <2>3, <2>4 DEF RemoveUsers
<1>8. ASSUME NEW s \in Slots, WritePromo(s)
      PROVE  Kept
  <2>1. promo # None => [promo EXCEPT !.expired = ~ task[s].expiry] \in Promo
    BY <1>0 DEF Promo
  <2>2. task' \in [Slots -> PromoTask \cup {Idle}]
    BY <1>0, <1>8, HandlersFinish DEF WritePromo
  <2> QED BY <1>0, <1>8, <2>1, <2>2 DEF WritePromo
<1>9. ASSUME NEW s \in Slots, PromoFails(s)
      PROVE  Kept
  BY <1>0, <1>9, HandlersFinish DEF PromoFails
<1>10. CASE RemovePromo \/ DeleteDiscount
  BY <1>0, <1>10 DEF RemovePromo, DeleteDiscount
<1>11. ASSUME NEW type \in DiscountType, UpdateDiscount(type)
       PROVE  Kept
  BY <1>0, <1>11 DEF UpdateDiscount, Discount
<1>12. ASSUME NEW s \in Slots, NEW type \in DiscountType, CreateDiscount(s, type)
       PROVE  Kept
  <2>1. [pc |-> IF type = "active" THEN "listActive" ELSE "listInactive"] \in PromoTask
    BY DEF PromoTask
  <2>2. [type |-> type, users |-> {}] \in Discount
    BY DEF Discount
  <2>3. task' \in [Slots -> PromoTask \cup {Idle}]
    BY <1>0, <1>12, <2>1, HandlersKept DEF CreateDiscount
  <2> QED BY <1>0, <1>12, <2>2, <2>3 DEF CreateDiscount
<1>13. ASSUME NEW users \in SUBSET Customers, Give(users)
       PROVE  discount' \in Discount \cup {None}
  BY <1>0, <1>13 DEF Give, Discount
<1>14. ASSUME NEW s \in Slots, NEW users \in SUBSET Customers,
              GiveToActive(s, users) \/ GiveToInactive(s, users)
       PROVE  Kept
  <2>1. [pc |-> "listInactive"] \in PromoTask
    BY DEF PromoTask
  <2>2. task' \in [Slots -> PromoTask \cup {Idle}]
    BY <1>0, <1>14, <2>1, HandlersKept, HandlersFinish DEF GiveToActive, GiveToInactive
  <2> QED BY <1>0, <1>13, <1>14, <2>2 DEF GiveToActive, GiveToInactive
<1> HIDE DEF Kept
<1>15. CASE PromosNext
  BY <1>3, <1>4, <1>5, <1>6, <1>7, <1>8, <1>9, <1>10, <1>11, <1>12, <1>14, <1>15
     DEF PromosNext, PromosStep
<1> QED BY <1>2, <1>15

OnlineTyped == OnlineTypeOK /\ task \in [Slots -> OnlineTask \cup {Idle}]

\* Online users: a handler that has found an entity, or none, knows what to do next.
LEMMA OnlineTypes == OnlineTyped /\ [OnlineNext]_<<task, onlineVars>> => OnlineTyped'
<1> SUFFICES ASSUME OnlineTyped, [OnlineNext]_<<task, onlineVars>> PROVE OnlineTyped'
  OBVIOUS
<1> DEFINE Kept == /\ task' \in [Slots -> OnlineTask \cup {Idle}]
                   /\ rideSocket' \in [RideSockets -> {"new", "open", "closed"}]
                   /\ online' \in [EntityKeys -> Online \cup {None}]
                   /\ timeSave' \in SUBSET {"online", "offline"}
                   /\ timeOnline' \in SUBSET {"negative", "zero"}
                   /\ disturbed' \in BOOLEAN
<1>0. /\ task \in [Slots -> OnlineTask \cup {Idle}]
      /\ rideSocket \in [RideSockets -> {"new", "open", "closed"}]
      /\ online \in [EntityKeys -> Online \cup {None}]
      /\ timeSave \in SUBSET {"online", "offline"}
      /\ timeOnline \in SUBSET {"negative", "zero"}
      /\ disturbed \in BOOLEAN
  BY DEF OnlineTyped, OnlineTypeOK
<1>1. SUFFICES Kept
  BY DEF OnlineTyped, OnlineTypeOK
<1>2. CASE UNCHANGED <<task, onlineVars>>
  BY <1>0, <1>2 DEF onlineVars
<1>3. ASSUME NEW s \in Slots, NEW k \in RideSockets,
             ConnectUser(s, k) \/ DisconnectUser(s, k) \/ MoveUser(s, k)
      PROVE  Kept
  <2>1. PICK by \in OnlineHandler : \E before, after \in {"new", "open", "closed"} :
          Arrive(s, by, k, before, after)
    BY <1>3 DEF ConnectUser, DisconnectUser, MoveUser, OnlineHandler
  <2>2. [pc |-> "get", by |-> by, socket |-> k] \in OnlineTask
    BY DEF OnlineTask
  <2>3. task' \in [Slots -> OnlineTask \cup {Idle}]
    BY <1>0, <2>1, <2>2, HandlersKept DEF Arrive
  <2> QED BY <1>0, <2>1, <2>3 DEF Arrive
<1>4. ASSUME NEW s \in Slots, GetUser(s)
      PROVE  Kept
  <2>1. task[s] \in OnlineTask /\ task[s].pc = "get"
    BY <1>0, <1>4, HandlerAt DEF GetUser
  <2>2. task[s].by \in OnlineHandler /\ task[s].socket \in RideSockets
    BY <2>1 DEF OnlineTask
  <2>3. NotFoundOnline(task[s]) \in OnlineTask \cup {Idle}
    BY <2>2 DEF NotFoundOnline, OnlineTask, OnlineHandler, Online
  <2>4. ASSUME NEW e \in Held
        PROVE  FoundOnline(task[s], e) \in OnlineTask \cup {Idle}
    <3>1. e \in EntityKeys /\ online[e] \in Online
      BY <1>0 DEF Held
    <3>2. /\ GoneOffline(online[e]) \in Online
          /\ [online[e] EXCEPT !.socket = task[s].socket] \in Online
          /\ [is_online |-> TRUE, socket |-> task[s].socket] \in Online
      BY <2>2, <3>1 DEF GoneOffline, Online
    <3>3. /\ \A data \in Online, by \in OnlineHandler :
               [pc |-> "update", by |-> by, data |-> data] \in OnlineTask
          /\ \A data \in Online, by \in OnlineHandler :
               [pc |-> "drop", by |-> by, key |-> e, data |-> data] \in OnlineTask
      BY <3>1 DEF OnlineTask
    <3>4. CASE task[s].by = "connect"
      BY <3>2, <3>3, <3>4 DEF FoundOnline, OnlineHandler
    <3>5. CASE task[s].by = "disconnect"
      BY <3>2, <3>3, <3>5 DEF FoundOnline, OnlineHandler
    <3>6. CASE task[s].by = "updateLocation"
      BY <3>2, <3>3, <3>6 DEF FoundOnline, OnlineHandler
    <3> QED BY <2>2, <3>4, <3>5, <3>6 DEF OnlineHandler
  <2>5. \E h \in OnlineTask \cup {Idle} : Await(s, h)
    BY <1>4, <2>3, <2>4 DEF GetUser
  <2>6. task' \in [Slots -> OnlineTask \cup {Idle}]
    BY <1>0, <2>5 DEF Await
  <2> QED BY <1>0, <1>4, <2>6 DEF GetUser, onlineVars
<1>5. ASSUME NEW s \in Slots, UpdateGet(s)
      PROVE  Kept
  <2>1. task[s] \in OnlineTask /\ task[s].pc = "update"
    BY <1>0, <1>5, HandlerAt DEF UpdateGet
  <2>2. task[s].by \in OnlineHandler /\ task[s].data \in Online
    BY <2>1 DEF OnlineTask
  <2>3. \A e \in Held : [pc |-> "drop", by |-> task[s].by, data |-> task[s].data, key |-> e]
          \in OnlineTask
    BY <2>2 DEF OnlineTask, Held
  <2>4. Finish(s) \/ \E h \in OnlineTask : Await(s, h)
    BY <1>5, <2>3 DEF UpdateGet
  <2>5. task' \in [Slots -> OnlineTask \cup {Idle}]
    BY <1>0, <2>4, HandlersKept, HandlersFinish
  <2> QED BY <1>0, <1>5, <2>5 DEF UpdateGet, onlineVars
<1>6. ASSUME NEW s \in Slots, DropEntity(s)
      PROVE  Kept
  <2>1. task[s] \in OnlineTask /\ task[s].pc = "drop"
    BY <1>0, <1>6, HandlerAt DEF DropEntity
  <2>2. [pc |-> "pushEntity", by |-> task[s].by, data |-> task[s].data] \in OnlineTask
    BY <2>1 DEF OnlineTask
  <2>3. task' \in [Slots -> OnlineTask \cup {Idle}]
    BY <1>0, <1>6, <2>2, HandlersKept DEF DropEntity
  <2> QED BY <1>0, <1>6, <2>3 DEF DropEntity
<1>7. ASSUME NEW s \in Slots, PushEntity(s)
      PROVE  Kept
  <2>0. At(s, "pushEntity")
    BY <1>7 DEF PushEntity
  <2>1. task[s] \in OnlineTask /\ task[s].pc = "pushEntity"
    BY <1>0, <2>0, HandlerAt
  <2>2. task[s].data \in Online /\ [pc |-> "saveTime", by |-> task[s].by] \in OnlineTask
    BY <2>1 DEF OnlineTask
  <2>3. Finish(s) \/ Await(s, [pc |-> "saveTime", by |-> task[s].by])
    BY <1>7 DEF PushEntity
  <2>4. task' \in [Slots -> OnlineTask \cup {Idle}]
    BY <1>0, <2>2, <2>3, HandlersKept, HandlersFinish
  <2> QED BY <1>0, <1>7, <2>2, <2>4 DEF PushEntity
<1>8. ASSUME NEW s \in Slots, SaveTime(s)
      PROVE  Kept
  <2>1. /\ timeSave' \in SUBSET {"online", "offline"}
        /\ timeOnline' \in SUBSET {"negative", "zero"}
        /\ UNCHANGED <<rideSocket, online, disturbed>>
    BY <1>0, <1>8 DEF SaveTime, MinutesOnline
  <2> QED BY <1>0, <1>8, <2>1, HandlersFinish DEF SaveTime
<1>9. ASSUME NEW s \in Slots, OnlineFails(s)
      PROVE  Kept
  BY <1>0, <1>9, HandlersFinish DEF OnlineFails
<1>10. CASE OnlineRestart
  BY <1>0, <1>10 DEF OnlineRestart
<1> HIDE DEF Kept
<1>11. CASE OnlineNext
  BY <1>3, <1>4, <1>5, <1>6, <1>7, <1>8, <1>9, <1>10, <1>11 DEF OnlineNext
<1> QED BY <1>2, <1>11

ChatTyped == ChatTypeOK /\ task \in [Slots -> ChatTask \cup {Idle}]

\* Chat.
LEMMA ChatTypes == ChatTyped /\ [ChatNext]_<<task, chatVars>> => ChatTyped'
<1> SUFFICES ASSUME ChatTyped, [ChatNext]_<<task, chatVars>> PROVE ChatTyped'
  OBVIOUS
<1> DEFINE Kept == /\ task' \in [Slots -> ChatTask \cup {Idle}]
                   /\ chatSocket' \in [ChatSockets -> {"new", "open", "closed"}]
                   /\ chatRoom' \in SUBSET ChatSockets
                   /\ messages' \in [MessageIds -> Message \cup {None}]
                   /\ shown' \in [ChatSockets -> SUBSET Chatters]
<1>0. /\ task \in [Slots -> ChatTask \cup {Idle}]
      /\ chatSocket \in [ChatSockets -> {"new", "open", "closed"}]
      /\ chatRoom \in SUBSET ChatSockets
      /\ messages \in [MessageIds -> Message \cup {None}]
      /\ shown \in [ChatSockets -> SUBSET Chatters]
  BY DEF ChatTyped, ChatTypeOK
<1>1. SUFFICES Kept
  BY DEF ChatTyped, ChatTypeOK
<1>2. CASE UNCHANGED <<task, chatVars>>
  BY <1>0, <1>2 DEF chatVars
<1>3. \A k \in ChatSockets : ChatUserOf[k] \in Chatters
  BY ChatAssumption
<1>4. \A u \in Chatters : ChatList(u) \in SUBSET Chatters
  BY ChatAssumption DEF ChatList
<1>5. \A u \in Chatters : Reached(u) \subseteq ChatSockets \cup {None}
  BY <1>0 DEF Reached, ChatEntities
<1>6. ASSUME NEW s \in Slots, UNCHANGED chatVars,
             Finish(s) \/ \E h \in ChatTask : Begin(s, h) \/ Await(s, h)
      PROVE  Kept
  BY <1>0, <1>6, HandlersKept, HandlersFinish DEF chatVars
<1>7. ASSUME NEW s \in Slots, NEW k \in ChatSockets, ChatConnect(s, k) \/ ChatDisconnect(s, k)
      PROVE  Kept
  <2>1. /\ [pc |-> "push", socket |-> k] \in ChatTask
        /\ [pc |-> "find", user |-> ChatUserOf[k]] \in ChatTask
    BY <1>3 DEF ChatTask
  <2>2. task' \in [Slots -> ChatTask \cup {Idle}]
    BY <1>0, <1>7, <2>1, HandlersKept DEF ChatConnect, ChatDisconnect
  <2> QED BY <1>0, <1>7, <2>2 DEF ChatConnect, ChatDisconnect
<1>8. ASSUME NEW s \in Slots, NEW k \in ChatSockets,
             \/ \E to \in Chatters : SendMessage(s, k, to)
             \/ \E ids \in SUBSET MessageIds : ReadMessages(s, k, ids)
      PROVE  Kept
  <2>1. /\ \A to \in Chatters : \A recipient \in Reached(to) :
             [pc |-> "insert", socket |-> k, to |-> to, recipient |-> recipient] \in ChatTask
        /\ \A ids \in SUBSET MessageIds :
             [pc |-> "read", user |-> ChatUserOf[k], ids |-> ids] \in ChatTask
    BY <1>3, <1>5 DEF ChatTask
  <2> HIDE DEF Kept
  <2> QED BY <1>6, <1>8, <2>1 DEF SendMessage, ReadMessages
<1>9. ASSUME NEW s \in Slots, PushChatUser(s) \/ RemoveChatUser(s)
      PROVE  Kept
  <2>0. (At(s, "push") \/ At(s, "remove")) /\ Finish(s)
    BY <1>9 DEF PushChatUser, RemoveChatUser
  <2>1. task[s] \in ChatTask /\ task[s].pc \in {"push", "remove"}
    BY <1>0, <2>0 DEF At, Idle
  <2>2. task[s].socket \in ChatSockets
    BY <2>1 DEF ChatTask
  <2>3. chatRoom' \in SUBSET ChatSockets /\ UNCHANGED <<chatSocket, messages, shown>>
    BY <1>0, <1>9, <2>2 DEF PushChatUser, RemoveChatUser
  <2> QED BY <1>0, <2>0, <2>3, HandlersFinish
<1>10. ASSUME NEW s \in Slots, FindChatUser(s)
       PROVE  Kept
  <2>1. \A u : \A k \in ChatEntities(u) : [pc |-> "remove", socket |-> k] \in ChatTask
    BY <1>0 DEF ChatEntities, ChatTask
  <2> HIDE DEF Kept
  <2> QED BY <1>6, <1>10, <2>1 DEF FindChatUser
<1>11. ASSUME NEW s \in Slots, InsertMessage(s)
       PROVE  Kept
  <2>0. At(s, "insert") /\ Await(s, [task[s] EXCEPT !.pc = "lists"])
    BY <1>11 DEF InsertMessage
  <2>1. task[s] \in ChatTask /\ task[s].pc = "insert"
    BY <1>0, <2>0, HandlerAt
  <2>2. /\ [task[s] EXCEPT !.pc = "lists"] \in ChatTask
        /\ task[s].socket \in ChatSockets /\ task[s].to \in Chatters
    BY <2>1 DEF ChatTask
  <2>3. [sender |-> ChatUserOf[task[s].socket], recipient |-> task[s].to, is_read |-> FALSE]
          \in Message
    BY <1>3, <2>2 DEF Message
  <2>4. messages' \in [MessageIds -> Message \cup {None}]
    BY <1>0, <1>11, <2>3 DEF InsertMessage
  <2>5. task' \in [Slots -> ChatTask \cup {Idle}]
    BY <1>0, <2>0, <2>2, HandlersKept
  <2> QED BY <1>0, <1>11, <2>4, <2>5 DEF InsertMessage
<1>12. ASSUME NEW s \in Slots, AskChatList(s)
       PROVE  Kept
  <2>0. At(s, "lists")
    BY <1>12 DEF AskChatList
  <2>1. task[s] \in ChatTask /\ task[s].pc = "lists"
    BY <1>0, <2>0, HandlerAt
  <2>2. /\ task[s].socket \in ChatSockets /\ task[s].to \in Chatters
        /\ task[s].recipient \in ChatSockets \cup {None}
    BY <2>1 DEF ChatTask
  <2>3. [pc |-> "emit", socket |-> task[s].socket, recipient |-> task[s].recipient,
         list |-> ChatList(task[s].to)] \in ChatTask
    BY <1>4, <2>2 DEF ChatTask
  <2> QED BY <1>6, <1>12, <2>3 DEF AskChatList
<1>13. ASSUME NEW socket \in ChatSockets \cup {None}, NEW list \in SUBSET Chatters
       PROVE  Show(socket, list) \in [ChatSockets -> SUBSET Chatters]
  BY <1>0 DEF Show
<1>14. ASSUME NEW s \in Slots, EmitChatList(s)
       PROVE  Kept
  <2>0. At(s, "emit")
    BY <1>14 DEF EmitChatList
  <2>1. task[s] \in ChatTask /\ task[s].pc = "emit"
    BY <1>0, <2>0, HandlerAt
  <2>2. task[s].recipient \in ChatSockets \cup {None} /\ task[s].list \in SUBSET Chatters
    BY <2>1 DEF ChatTask
  <2>3. shown' \in [ChatSockets -> SUBSET Chatters]
    BY <1>13, <1>14, <2>2 DEF EmitChatList
  <2> QED BY <1>0, <1>14, <2>3, HandlersFinish DEF EmitChatList
<1>15. ASSUME NEW k \in ChatSockets, AnswerChatList(k)
       PROVE  Kept
  <2>1. shown' \in [ChatSockets -> SUBSET Chatters]
    BY <1>3, <1>4, <1>13, <1>15 DEF AnswerChatList
  <2> QED BY <1>0, <1>15, <2>1 DEF AnswerChatList
<1>16. ASSUME NEW s \in Slots, MarkRead(s)
       PROVE  Kept
  <2>1. \A id \in MessageIds :
          messages[id] # None => [messages[id] EXCEPT !.is_read = TRUE] \in Message
    BY <1>0 DEF Message
  <2>2. messages' \in [MessageIds -> Message \cup {None}]
    BY <1>0, <1>16, <2>1 DEF MarkRead
  <2> QED BY <1>0, <1>16, <2>2, HandlersFinish DEF MarkRead
<1>17. CASE ChatRestart
  BY <1>0, <1>17 DEF ChatRestart
<1>18. ASSUME NEW s \in Slots, ChatFails(s)
       PROVE  Kept
  BY <1>6, <1>18 DEF ChatFails
<1> HIDE DEF Kept
<1>19. CASE ChatNext
  BY <1>7, <1>8, <1>9, <1>10, <1>11, <1>12, <1>14, <1>15, <1>16, <1>17, <1>18, <1>19
     DEF ChatNext
<1> QED BY <1>2, <1>19

\* The seeds of places: what an upsert sends next is in the atlas, and a name that is
\* in a table is not written a second time.
LEMMA PlacesTypes == SeedPlacesTypeOK /\ [SeedPlacesNext]_placeVars => SeedPlacesTypeOK'
<1> SUFFICES ASSUME SeedPlacesTypeOK, [SeedPlacesNext]_placeVars PROVE SeedPlacesTypeOK'
  OBVIOUS
<1> DEFINE StatesOK(set) == /\ set \subseteq {<<p[2], p[1]>> : p \in Atlas}
                            /\ \A s, t \in set : s[1] = t[1] => s = t
           CitiesOK(set) == /\ set \subseteq {<<p[3], p[2]>> : p \in Atlas}
                            /\ \A c, d \in set : c[1] = d[1] => c = d
           Kept == /\ countries' \subseteq CountryNames
                   /\ StatesOK(states') /\ CitiesOK(cities')
                   /\ banks' \subseteq Banks
                   /\ settings' \in {"none", "default", "chosen"}
                   /\ phase' \in {"places", "banks", "end", "failed"}
                   /\ upserts' \subseteq Upsert
                   /\ seedings' \in 0 .. MaxSeedings /\ populated' \in BOOLEAN
<1>0. /\ countries \subseteq CountryNames /\ StatesOK(states) /\ CitiesOK(cities)
      /\ banks \subseteq Banks
      /\ settings \in {"none", "default", "chosen"}
      /\ phase \in {"places", "banks", "end", "failed"}
      /\ upserts \subseteq Upsert
      /\ seedings \in 0 .. MaxSeedings /\ populated \in BOOLEAN /\ MaxSeedings \in Nat
  BY PlacesAssumption DEF SeedPlacesTypeOK
<1>1. SUFFICES Kept
  BY DEF SeedPlacesTypeOK
<1>2. /\ \A p \in Atlas : <<p[2], p[1]>> \in {<<q[2], q[1]>> : q \in Atlas}
      /\ \A p \in Atlas : <<p[3], p[2]>> \in {<<q[3], q[2]>> : q \in Atlas}
  OBVIOUS
<1>3. ASSUME NEW p \in Atlas, \A s \in states : s[1] # p[2]
      PROVE  StatesOK(states \cup {<<p[2], p[1]>>})
  <2>1. states \cup {<<p[2], p[1]>>} \subseteq {<<q[2], q[1]>> : q \in Atlas}
    BY <1>0, <1>2
  <2>2. <<p[2], p[1]>>[1] = p[2]
    OBVIOUS
  <2> QED BY <1>0, <1>3, <2>1, <2>2
<1>4. ASSUME NEW p \in Atlas, \A c \in cities : c[1] # p[3]
      PROVE  CitiesOK(cities \cup {<<p[3], p[2]>>})
  <2>1. cities \cup {<<p[3], p[2]>>} \subseteq {<<q[3], q[2]>> : q \in Atlas}
    BY <1>0, <1>2
  <2>2. <<p[3], p[2]>>[1] = p[3]
    OBVIOUS
  <2> QED BY <1>0, <1>4, <2>1, <2>2
<1> HIDE DEF StatesOK, CitiesOK
<1>5. ASSUME NEW u \in upserts
      PROVE  \/ u.table = "country" /\ u.country \in CountryNames
             \/ u.table = "state" /\ \E p \in Atlas : u.country = p[1] /\ u.state = p[2]
             \/ u.table = "city" /\ \E p \in Atlas : u.city = p[3] /\ u.state = p[2]
             \/ u.table = "bank" /\ u.bank \in Banks
  <2>1. u \in Upsert
    BY <1>0
  <2>2. CASE \E c \in CountryNames : u = [table |-> "country", country |-> c]
    BY <2>2
  <2>3. CASE \E p \in Atlas : u = [table |-> "state", country |-> p[1], state |-> p[2]]
    BY <2>3
  <2>4. CASE \E p \in Atlas : u = [table |-> "city", city |-> p[3], state |-> p[2]]
    BY <2>4
  <2>5. CASE \E b \in Banks : u = [table |-> "bank", bank |-> b]
    BY <2>5
  <2> QED BY <2>1, <2>2, <2>3, <2>4, <2>5 DEF Upsert
<1>6. CASE UNCHANGED placeVars
  BY <1>0, <1>6 DEF placeVars
<1>7. CASE StartCountries
  <2>1. upserts' \subseteq Upsert
    BY <1>7 DEF StartCountries, Upsert
  <2> QED BY <1>0, <1>7, <2>1 DEF StartCountries
<1>8. CASE StartBanks
  <2>1. {[table |-> "bank", bank |-> b] : b \in Banks} \subseteq Upsert
    BY DEF Upsert
  <2>2. upserts' \subseteq Upsert
    BY <1>0, <1>8, <2>1 DEF StartBanks
  <2> QED BY <1>0, <1>8, <2>2 DEF StartBanks
<1>9. ASSUME NEW u \in upserts, UpsertCountry(u)
      PROVE  Kept
  <2>1. u.country \in CountryNames
    BY <1>5, <1>9 DEF UpsertCountry
  <2>2. {[table |-> "state", country |-> u.country, state |-> p[2]] :
            p \in {p \in Atlas : p[1] = u.country}} \subseteq Upsert
    BY DEF Upsert
  <2>3. upserts' \subseteq Upsert
    BY <1>0, <1>9, <2>2 DEF UpsertCountry
  <2> QED BY <1>0, <1>9, <2>1, <2>3 DEF UpsertCountry
<1>10. ASSUME NEW u \in upserts, UpsertState(u)
       PROVE  Kept
  <2>1. PICK p \in Atlas : u.country = p[1] /\ u.state = p[2]
    BY <1>5, <1>10 DEF UpsertState
  <2>2. StatesOK(states')
    BY <1>0, <1>3, <1>10, <2>1 DEF UpsertState
  <2>3. {[table |-> "city", city |-> q[3], state |-> u.state] :
            q \in {q \in Atlas : q[1] = u.country /\ q[2] = u.state}} \subseteq Upsert
    BY DEF Upsert
  <2>4. upserts' \subseteq Upsert
    BY <1>0, <1>10, <2>3 DEF UpsertState
  <2> QED BY <1>0, <1>10, <2>2, <2>4 DEF UpsertState
<1>11. ASSUME NEW u \in upserts, UpsertCity(u)
       PROVE  Kept
  <2>1. PICK p \in Atlas : u.city = p[3] /\ u.state = p[2]
    BY <1>5, <1>11 DEF UpsertCity
  <2>2. CitiesOK(cities')
    BY <1>0, <1>4, <1>11, <2>1 DEF UpsertCity
  <2> QED BY <1>0, <1>11, <2>2 DEF UpsertCity
<1>12. ASSUME NEW u \in upserts, UpsertBank(u)
       PROVE  Kept
  <2>1. u.bank \in Banks
    BY <1>5, <1>12 DEF UpsertBank
  <2> QED BY <1>0, <1>12, <2>1 DEF UpsertBank
<1>13. CASE InsertSettings \/ UpdateSetting
  BY <1>0, <1>13 DEF InsertSettings, UpdateSetting
<1>14. CASE End
  BY <1>0, <1>14 DEF End
<1>15. CASE Seed
  BY <1>0, <1>15 DEF Seed
<1> HIDE DEF Kept
<1> QED
  BY <1>6, <1>7, <1>8, <1>9, <1>10, <1>11, <1>12, <1>13, <1>14, <1>15 DEF SeedPlacesNext

CatalogTyped ==
    /\ table \in DOMAIN Tables
    /\ rows \in Seq(Row \cup {None}) /\ Len(rows) <= MaxRows
    /\ task \in [Slots -> CatalogTask \cup {Idle}]

\* The administered tables: a row is only ever written from what a request gave or from
\* rows that are there.
LEMMA CatalogTypes == CatalogTyped /\ [CatalogNext]_<<task, catalogVars>> => CatalogTyped'
<1> SUFFICES ASSUME CatalogTyped, [CatalogNext]_<<task, catalogVars>> PROVE CatalogTyped'
  OBVIOUS
<1> DEFINE Entry == Row \cup {None}
           Kept == /\ table' \in DOMAIN Tables
                   /\ rows' \in Seq(Entry) /\ Len(rows') <= MaxRows
                   /\ task' \in [Slots -> CatalogTask \cup {Idle}]
<1>0. /\ table \in DOMAIN Tables
      /\ rows \in Seq(Entry) /\ Len(rows) <= MaxRows
      /\ task \in [Slots -> CatalogTask \cup {Idle}]
      /\ MaxRows \in Nat /\ Len(rows) \in Nat /\ DOMAIN rows = 1 .. Len(rows)
  BY CatalogAssumption DEF CatalogTyped
<1>1. SUFFICES Kept
  BY DEF CatalogTyped
<1>2. CASE UNCHANGED <<task, catalogVars>>
  BY <1>0, <1>2 DEF catalogVars
<1>3. Present \subseteq Ids /\ \A i \in Present : rows[i] \in Row
  BY <1>0 DEF Present, Ids
<1>4. ASSUME NEW s \in Slots, UNCHANGED catalogVars, NEW h \in CatalogTask, Begin(s, h)
      PROVE  Kept
  BY <1>0, <1>4, HandlersKept DEF catalogVars
<1>5. ASSUME NEW s \in Slots, UNCHANGED table, Finish(s),
             rows' \in Seq(Entry), Len(rows') <= MaxRows
      PROVE  Kept
  BY <1>0, <1>5, HandlersFinish
<1>6. ASSUME NEW s \in Slots,
             \/ \E row \in Row : Create(s, row)
             \/ \E i \in Ids : \/ \E row \in Row : Update(s, i, row)
                               \/ UpdateRest(s, i) \/ Remove(s, i)
                               \/ \E on \in BOOLEAN : SetActive(s, i, on)
      PROVE  Kept
  <2>1. /\ \A row \in Row : [pc |-> "insert", row |-> row] \in CatalogTask
        /\ \A i \in Ids : \A row \in Row \cup {None} :
             [pc |-> "write", id |-> i, row |-> row] \in CatalogTask
        /\ \A i \in Ids : \A on \in BOOLEAN :
             [pc |-> "activate", id |-> i, active |-> on] \in CatalogTask
        /\ \A i \in Ids : [pc |-> "delete", id |-> i] \in CatalogTask
    BY DEF CatalogTask
  <2> HIDE DEF Kept
  <2> QED BY <1>4, <1>6, <2>1 DEF Create, Update, UpdateRest, Remove, SetActive
<1>7. ASSUME NEW s \in Slots, Insert(s)
      PROVE  Kept
  <2>1. task[s] \in CatalogTask /\ task[s].pc = "insert"
    BY <1>0, <1>7, HandlerAt DEF Insert
  <2>2. task[s].row \in Entry
    BY <2>1 DEF CatalogTask
  <2>3. /\ Append(rows, task[s].row) \in Seq(Entry)
        /\ Len(Append(rows, task[s].row)) = Len(rows) + 1
    BY <1>0, <2>2
  <2>4. rows' \in Seq(Entry) /\ Len(rows') <= MaxRows
    BY <1>0, <1>7, <2>3 DEF Insert
  <2> QED BY <1>5, <1>7, <2>4 DEF Insert
<1>8. ASSUME NEW new \in [DOMAIN rows -> Entry]
      PROVE  new \in Seq(Entry) /\ Len(new) <= MaxRows
  BY <1>0
<1>9. ASSUME NEW s \in Slots, Write(s)
      PROVE  Kept
  <2>0. At(s, "write")
    BY <1>9 DEF Write
  <2>1. task[s] \in CatalogTask /\ task[s].pc = "write"
    BY <1>0, <2>0, HandlerAt
  <2>2. task[s].row \in Entry
    BY <2>1 DEF CatalogTask
  <2>3. rows \in [DOMAIN rows -> Entry]
    BY <1>0
  <2>4. ASSUME NEW i \in Present, NEW row \in Row
        PROVE  [row EXCEPT !.previous = rows[i].previous] \in Row
    BY <1>3 DEF Row
  <2>5. CASE rows' = rows
    BY <1>5, <1>8, <1>9, <2>3, <2>5 DEF Write
  <2>6. CASE rows' # rows
    <3> DEFINE i == task[s].id
               new == IF task[s].row.previous # None THEN task[s].row
                      ELSE [task[s].row EXCEPT !.previous = rows[i].previous]
    <3>1. i \in Present /\ task[s].row # None /\ rows' = [rows EXCEPT ![i] = new]
      BY <1>9, <2>6 DEF Write
    <3>2. new \in Row
      BY <2>2, <2>4, <3>1
    <3>3. rows' \in [DOMAIN rows -> Entry]
      BY <2>3, <3>1, <3>2
    <3> HIDE DEF Kept
    <3> QED BY <1>5, <1>8, <1>9, <3>3 DEF Write
  <2> QED BY <2>5, <2>6
<1>10. ASSUME NEW s \in Slots, WriteActive(s)
       PROVE  Kept
  <2>0. At(s, "activate")
    BY <1>10 DEF WriteActive
  <2>1. task[s] \in CatalogTask /\ task[s].pc = "activate"
    BY <1>0, <2>0, HandlerAt
  <2>2. task[s].active \in BOOLEAN
    BY <2>1 DEF CatalogTask
  <2>3. \A i \in Present : [rows[i] EXCEPT !.active = task[s].active] \in Row
    BY <1>3, <2>2 DEF Row
  <2>4. rows \in [DOMAIN rows -> Entry]
    BY <1>0
  <2>5. rows' \in [DOMAIN rows -> Entry]
    BY <1>10, <2>3, <2>4 DEF WriteActive
  <2> QED BY <1>5, <1>8, <1>10, <2>5 DEF WriteActive
<1>11. ASSUME NEW s \in Slots, Delete(s)
       PROVE  Kept
  <2>1. rows' \in [DOMAIN rows -> Entry]
    BY <1>0, <1>11 DEF Delete
  <2> QED BY <1>5, <1>8, <1>11, <2>1 DEF Delete
<1> HIDE DEF Kept
<1>12. CASE CatalogNext
  BY <1>6, <1>7, <1>9, <1>10, <1>11, <1>12 DEF CatalogNext
<1> QED BY <1>2, <1>12

PapersTyped ==
    /\ licenses \in Seq(License \cup {None}) /\ Len(licenses) <= MaxLicenses
    /\ rewritten \in [LicenseIds -> Nat]
    /\ vehicles \in Seq(Vehicle \cup {None}) /\ Len(vehicles) <= MaxVehicles
    /\ years \in [VehicleKinds -> Span \cup {None}]
    /\ drivesAs \in [Owners -> VehicleKinds \cup {None}]
    /\ task \in [Slots -> PapersTask \cup {Idle}]

\* Licenses and vehicles.
LEMMA PapersTypes == PapersTyped /\ [PapersNext]_<<task, papersVars>> => PapersTyped'
<1> SUFFICES ASSUME PapersTyped, [PapersNext]_<<task, papersVars>> PROVE PapersTyped'
  OBVIOUS
<1> DEFINE Kept == /\ licenses' \in Seq(License \cup {None}) /\ Len(licenses') <= MaxLicenses
                   /\ rewritten' \in [LicenseIds -> Nat]
                   /\ vehicles' \in Seq(Vehicle \cup {None}) /\ Len(vehicles') <= MaxVehicles
                   /\ years' \in [VehicleKinds -> Span \cup {None}]
                   /\ drivesAs' \in [Owners -> VehicleKinds \cup {None}]
                   /\ task' \in [Slots -> PapersTask \cup {Idle}]
<1>0. /\ licenses \in Seq(License \cup {None}) /\ Len(licenses) <= MaxLicenses
      /\ rewritten \in [LicenseIds -> Nat]
      /\ vehicles \in Seq(Vehicle \cup {None}) /\ Len(vehicles) <= MaxVehicles
      /\ years \in [VehicleKinds -> Span \cup {None}]
      /\ drivesAs \in [Owners -> VehicleKinds \cup {None}]
      /\ task \in [Slots -> PapersTask \cup {Idle}]
      /\ MaxLicenses \in Nat /\ MaxVehicles \in Nat /\ MaxYear \in Nat
      /\ Len(licenses) \in Nat /\ DOMAIN licenses = 1 .. Len(licenses)
      /\ Len(vehicles) \in Nat /\ DOMAIN vehicles = 1 .. Len(vehicles)
  BY PapersAssumption DEF PapersTyped
<1>1. SUFFICES Kept
  BY DEF PapersTyped
<1>2. CASE UNCHANGED <<task, papersVars>>
  BY <1>0, <1>2 DEF papersVars
<1>01. task \in [Slots -> PapersTask \cup {Idle}]
  BY <1>0
<1>02. licenses \in [1 .. Len(licenses) -> License \cup {None}] /\ Len(licenses) \in Nat
  BY <1>0
<1>03. vehicles \in [1 .. Len(vehicles) -> Vehicle \cup {None}] /\ Len(vehicles) \in Nat
  BY <1>0
<1>04. ASSUME NEW new \in [1 .. Len(licenses) -> License \cup {None}]
      PROVE  new \in Seq(License \cup {None}) /\ Len(new) <= MaxLicenses
  <2>1. Len(licenses) \in Nat /\ Len(licenses) <= MaxLicenses
    BY <1>0
  <2> QED BY <2>1
<1>05. ASSUME NEW new \in [1 .. Len(vehicles) -> Vehicle \cup {None}]
      PROVE  new \in Seq(Vehicle \cup {None}) /\ Len(new) <= MaxVehicles
  <2>1. Len(vehicles) \in Nat /\ Len(vehicles) <= MaxVehicles
    BY <1>0
  <2> QED BY <2>1
<1>3. /\ \A l \in Licenses : l \in LicenseIds /\ l \in DOMAIN licenses /\ licenses[l] \in License
      /\ \A v \in Vehicles : v \in VehicleIds /\ v \in DOMAIN vehicles /\ vehicles[v] \in Vehicle
  BY <1>0 DEF Licenses, LicenseIds, Vehicles, VehicleIds
<1>4. /\ \A l \in License : l.owner \in Owners /\ l.verification \in Verification
      /\ \A v \in Vehicle : v.owner \in Owners /\ v.manufactured \in Year /\ v.type \in VehicleKinds
      /\ \A k \in VehicleKinds : years[k] # None => years[k].minimum \in Year
  BY <1>0 DEF License, Vehicle, Span
<1>5. ASSUME NEW s \in Slots, UNCHANGED papersVars,
             Finish(s) \/ \E h \in PapersTask : Begin(s, h) \/ Await(s, h)
      PROVE  Kept
  BY <1>0, <1>5, HandlersKept, HandlersFinish DEF papersVars
<1>6. ASSUME NEW s \in Slots, PapersEvent(s)
      PROVE  Kept
  <2>1. /\ \A d \in Owners : [pc |-> "insertLicense", owner |-> d] \in PapersTask
        /\ \A d \in Owners : \A year \in Year : \A v \in VehicleIds \cup {None} :
             [pc |-> "type", id |-> v, owner |-> d, manufactured |-> year] \in PapersTask
        /\ \A d \in Owners : \A k \in VehicleKinds : \A year \in Year :
             [pc |-> "owned", owner |-> d, type |-> k, minimum |-> year] \in PapersTask
        /\ \A l \in LicenseIds : \A verdict \in Verification \cup {None} :
             [pc |-> "rewrite", id |-> l, verdict |-> verdict] \in PapersTask
    BY DEF PapersTask
  <2> HIDE DEF Kept
  <2>2. ASSUME NEW d \in Owners,
               \/ CreateLicense(s, d)
               \/ \E year \in Year : RegisterVehicle(s, d, year)
               \/ \E k \in VehicleKinds : SwitchType(s, d, k)
        PROVE  Kept
    BY <1>4, <1>5, <2>1, <2>2 DEF CreateLicense, RegisterVehicle, SwitchType
  <2>3. ASSUME NEW l \in LicenseIds, NEW verdict \in Verification \cup {None},
               FindLicense(s, l, verdict)
        PROVE  Kept
    BY <1>5, <2>1, <2>3 DEF FindLicense
  <2>4. ASSUME NEW v \in VehicleIds, NEW year \in Year, UpdateVehicle(s, v, year)
        PROVE  Kept
    BY <1>3, <1>4, <1>5, <2>1, <2>4 DEF UpdateVehicle
  <2> QED BY <1>6, <2>2, <2>3, <2>4 DEF PapersEvent
<1>7. ASSUME NEW s \in Slots, InsertLicense(s)
      PROVE  Kept
  <2>0. At(s, "insertLicense") /\ Len(licenses) < MaxLicenses
    BY <1>7 DEF InsertLicense
  <2>1. task[s] \in PapersTask /\ task[s].pc = "insertLicense"
    BY <1>01, <2>0, HandlerAt
  <2>2. task[s].owner \in Owners
    BY <2>1 DEF PapersTask
  <2>3. [owner |-> task[s].owner, verification |-> "pending"] \in License
    BY <2>2 DEF License, Verification
  <2>4. \A row \in License : /\ Append(licenses, row) \in Seq(License \cup {None})
                             /\ Len(Append(licenses, row)) = Len(licenses) + 1
    BY <1>0
  <2>5. licenses' \in Seq(License \cup {None}) /\ Len(licenses') <= MaxLicenses
    BY <1>0, <1>7, <2>0, <2>3, <2>4 DEF InsertLicense
  <2> QED BY <1>0, <1>7, <2>5, HandlersFinish DEF InsertLicense
<1>8. ASSUME NEW s \in Slots, RewriteLicense(s)
      PROVE  Kept
  <2>0. At(s, "rewrite") /\ Finish(s) /\ UNCHANGED <<vehicles, years, drivesAs>>
    BY <1>8 DEF RewriteLicense
  <2>1. task[s] \in PapersTask /\ task[s].pc = "rewrite"
    BY <1>01, <2>0, HandlerAt
  <2>2. task[s].verdict \in Verification \cup {None} /\ task[s].id \in LicenseIds
    BY <2>1 DEF PapersTask
  <2>3. CASE UNCHANGED <<licenses, rewritten>>
    BY <1>0, <2>0, <2>3, HandlersFinish
  <2>4. CASE ~ UNCHANGED <<licenses, rewritten>>
    <3> DEFINE l == task[s].id
               new == IF task[s].verdict = None THEN licenses[l]
                      ELSE [licenses[l] EXCEPT !.verification = task[s].verdict]
    <3>1. /\ licenses[l] # None
          /\ licenses' = [licenses EXCEPT ![l] = new]
          /\ \E n \in {0, rewritten[l] + 1} : rewritten' = [rewritten EXCEPT ![l] = n]
      BY <1>8, <2>4 DEF RewriteLicense
    <3>2. ASSUME l \in DOMAIN licenses
          PROVE  new \in License
      <4>1. licenses[l] \in License
        BY <1>02, <3>1, <3>2, <1>0
      <4> QED BY <2>2, <4>1 DEF License
    <3> HIDE DEF new
    <3>3. licenses' \in [1 .. Len(licenses) -> License \cup {None}]
      <4>1. DOMAIN licenses = 1 .. Len(licenses)
        BY <1>0
      <4> QED BY <1>02, <3>1, <3>2, <4>1
    <3>4. licenses' \in Seq(License \cup {None}) /\ Len(licenses') <= MaxLicenses
      BY <1>04, <3>3
    <3>5. rewritten' \in [LicenseIds -> Nat]
      BY <1>0, <2>2, <3>1
    <3> QED BY <1>0, <2>0, <3>4, <3>5, HandlersFinish
  <2> QED BY <2>3, <2>4
<1>9. ASSUME NEW l \in LicenseIds, RemoveLicense(l)
      PROVE  Kept
  <2>1. licenses' \in [1 .. Len(licenses) -> License \cup {None}]
    BY <1>02, <1>9 DEF RemoveLicense
  <2>2. licenses' \in Seq(License \cup {None}) /\ Len(licenses') <= MaxLicenses
    BY <1>04, <2>1
  <2> QED BY <1>0, <1>9, <2>2 DEF RemoveLicense
<1>10. ASSUME NEW s \in Slots, GetVehicleType(s)
       PROVE  Kept
  <2>0. At(s, "type")
    BY <1>10 DEF GetVehicleType
  <2>1. task[s] \in PapersTask /\ task[s].pc = "type"
    BY <1>01, <2>0, HandlerAt
  <2>2. \A k \in VehicleKinds :
          [pc |-> "vehicle", id |-> task[s].id, owner |-> task[s].owner,
           manufactured |-> task[s].manufactured, type |-> k] \in PapersTask
    BY <2>1 DEF PapersTask
  <2> HIDE DEF Kept
  <2> QED BY <1>5, <1>10, <2>2 DEF GetVehicleType
<1>11. ASSUME NEW s \in Slots, WriteVehicle(s)
       PROVE  Kept
  <2>0. At(s, "vehicle") /\ Finish(s) /\ UNCHANGED <<licenses, rewritten, years, drivesAs>>
    BY <1>11 DEF WriteVehicle
  <2>1. task[s] \in PapersTask /\ task[s].pc = "vehicle"
    BY <1>01, <2>0, HandlerAt
  <2>2. task[s].owner \in Owners /\ task[s].manufactured \in Year /\ task[s].type \in VehicleKinds
    BY <2>1 DEF PapersTask
  <2> DEFINE row == [owner |-> task[s].owner, manufactured |-> task[s].manufactured,
                     type |-> task[s].type]
  <2>3. row \in Vehicle
    BY <2>2 DEF Vehicle
  <2> HIDE DEF row
  <2>4. /\ Append(vehicles, row) \in Seq(Vehicle \cup {None})
        /\ Len(Append(vehicles, row)) = Len(vehicles) + 1
    BY <1>0, <2>3
  <2>5. \A v \in Vehicles : [vehicles EXCEPT ![v] = row] \in [1 .. Len(vehicles) -> Vehicle \cup {None}]
    BY <1>03, <2>3
  <2>6. \A v \in Vehicles : /\ [vehicles EXCEPT ![v] = row] \in Seq(Vehicle \cup {None})
                            /\ Len([vehicles EXCEPT ![v] = row]) <= MaxVehicles
    BY <1>05, <2>5
  <2>7. \/ Len(vehicles) < MaxVehicles /\ vehicles' = Append(vehicles, row)
        \/ \E v \in Vehicles : vehicles' = [vehicles EXCEPT ![v] = row]
        \/ UNCHANGED vehicles
    BY <1>11 DEF WriteVehicle, row
  <2>8. vehicles' \in Seq(Vehicle \cup {None}) /\ Len(vehicles') <= MaxVehicles
    <3>1. /\ vehicles \in Seq(Vehicle \cup {None}) /\ Len(vehicles) <= MaxVehicles
          /\ Len(vehicles) \in Nat /\ MaxVehicles \in Nat
      BY <1>0
    <3> QED BY <2>4, <2>6, <2>7, <3>1
  <2> QED BY <1>0, <2>0, <2>8, HandlersFinish
<1>12. ASSUME NEW v \in VehicleIds, RemoveVehicle(v)
       PROVE  Kept
  <2>1. vehicles' \in [1 .. Len(vehicles) -> Vehicle \cup {None}]
    BY <1>03, <1>12 DEF RemoveVehicle
  <2>2. vehicles' \in Seq(Vehicle \cup {None}) /\ Len(vehicles') <= MaxVehicles
    BY <1>05, <2>1
  <2> QED BY <1>0, <1>12, <2>2 DEF RemoveVehicle
<1>13. ASSUME NEW k \in VehicleKinds, RemoveType(k) \/ \E span \in Span : ChangeYears(k, span)
       PROVE  Kept
  BY <1>0, <1>13 DEF RemoveType, ChangeYears
<1>14. ASSUME NEW s \in Slots, CanSwitch(s)
       PROVE  Kept
  <2>0. At(s, "owned")
    BY <1>14 DEF CanSwitch
  <2>1. task[s] \in PapersTask /\ task[s].pc = "owned"
    BY <1>01, <2>0, HandlerAt
  <2>2. [pc |-> "switch", owner |-> task[s].owner, type |-> task[s].type] \in PapersTask
    BY <2>1 DEF PapersTask
  <2> HIDE DEF Kept
  <2> QED BY <1>5, <1>14, <2>2 DEF CanSwitch
<1>15. ASSUME NEW s \in Slots, WriteType(s)
       PROVE  Kept
  <2>0. At(s, "switch")
    BY <1>15 DEF WriteType
  <2>1. task[s] \in PapersTask /\ task[s].pc = "switch"
    BY <1>01, <2>0, HandlerAt
  <2>2. task[s].type \in VehicleKinds
    BY <2>1 DEF PapersTask
  <2>3. drivesAs' \in [Owners -> VehicleKinds \cup {None}]
    BY <1>0, <1>15, <2>2 DEF WriteType
  <2> QED BY <1>0, <1>15, <2>3, HandlersFinish DEF WriteType
<1>16. ASSUME NEW s \in Slots, PapersFail(s)
       PROVE  Kept
  BY <1>5, <1>16 DEF PapersFail
<1> HIDE DEF Kept
<1>17. CASE PapersNext
  BY <1>6, <1>7, <1>8, <1>9, <1>10, <1>11, <1>12, <1>13, <1>14, <1>15, <1>16, <1>17
     DEF PapersNext, PapersStep
<1> QED BY <1>2, <1>17

-----------------------------------------------------------------------------
(* All thirteen: whichever of them acts, it starts typed and its steps     *)
(* keep it so.                                                             *)

PartTyped ==
    /\ part = "payments" => PaymentsInv
    /\ part = "withdrawals" => WithdrawTyped
    /\ part = "places" => SeedPlacesTypeOK
    /\ part = "catalog" => CatalogTyped
    /\ part = "regions" => RegionsTyped
    /\ part = "fences" => FencesTyped
    /\ part = "fares" => FaresTyped
    /\ part = "promos" => PromosTyped
    /\ part = "driver promos" => WorkInv
    /\ part = "notices" => NoticesInv
    /\ part = "chat" => ChatTyped
    /\ part = "online" => OnlineTyped
    /\ part = "papers" => PapersTyped

LEMMA ServicesBegin == ServicesInit => PartTyped
<1> SUFFICES ASSUME ServicesInit PROVE PartTyped
  OBVIOUS
<1>0. task = [s \in Slots |-> Idle] /\ RequestsInit
  BY DEF ServicesInit, RequestsInit
<1>1. PaymentsInv /\ NoticesInv /\ WorkInv
  BY <1>0, PaymentsBegin, NoticesBegin, WorkBegins DEF ServicesInit
<1>2. WithdrawTyped
  <2>1. \A s \in Slots : Reviewed(s)
    <3>1. \A s \in Slots : task[s].pc = "idle"
      BY <1>0 DEF Idle
    <3> QED BY <3>1 DEF Reviewed, At
  <2>0. WithdrawInit
    BY DEF ServicesInit
  <2>2. /\ funds \in [Earners -> Int] /\ bank \in [Earners -> BankAccount \cup {None}]
        /\ requests \in [RequestIds -> WithdrawalRequest \cup {None}]
    BY <2>0 DEF WithdrawInit
  <2>3. \A s \in Slots : task[s] \in WithdrawTask \cup {Idle}
    BY <1>0
  <2>4. task \in [Slots -> WithdrawTask \cup {Idle}]
    BY <1>0
  <2>5. WithdrawTypeOK
    BY <2>2, <2>3 DEF WithdrawTypeOK
  <2> QED BY <2>1, <2>4, <2>5 DEF WithdrawTyped
<1>3. SeedPlacesTypeOK
  <2>1. SeedPlacesInit
    BY DEF ServicesInit
  <2>2. /\ countries = {} /\ states = {} /\ cities = {} /\ banks = {} /\ upserts = {}
        /\ settings = "none" /\ phase = "end" /\ populated = FALSE
        /\ seedings \in 0 .. MaxSeedings
    BY <2>1, PlacesAssumption DEF SeedPlacesInit
  <2> QED BY <2>2 DEF SeedPlacesTypeOK
<1>4. CatalogTyped
  <2>1. rows = <<>> /\ table \in DOMAIN Tables /\ Len(rows) = 0 /\ MaxRows \in Nat
    BY CatalogAssumption DEF ServicesInit, CatalogInit
  <2> QED BY <1>0, <2>1 DEF CatalogTyped
<1>5. RegionsTyped
  BY <1>0 DEF ServicesInit, RegionsInit, RegionsTyped, RegionsTypeOK
<1>6. FencesTyped
  BY <1>0 DEF ServicesInit, FencesInit, FencesTyped, FencesTypeOK
<1>7. FaresTyped
  BY <1>0 DEF ServicesInit, FaresInit, FaresTyped, FaresTypeOK
<1>8. PromosTyped
  BY <1>0 DEF ServicesInit, PromosInit, PromosTyped, PromosTypeOK
<1>9. ChatTyped
  BY <1>0 DEF ServicesInit, ChatInit, ChatTyped, ChatTypeOK
<1>10. OnlineTyped
  BY <1>0 DEF ServicesInit, OnlineInit, OnlineTyped, OnlineTypeOK
<1>11. PapersTyped
  <2>1. /\ licenses = <<>> /\ vehicles = <<>> /\ Len(licenses) = 0 /\ Len(vehicles) = 0
        /\ MaxLicenses \in Nat /\ MaxVehicles \in Nat
    BY PapersAssumption DEF ServicesInit, PapersInit
  <2>2. [minimum |-> 0, maximum |-> MaxYear] \in Span
    BY PapersAssumption DEF Span, Year
  <2>3. /\ rewritten \in [LicenseIds -> Nat]
        /\ years \in [VehicleKinds -> Span \cup {None}]
        /\ drivesAs \in [Owners -> VehicleKinds \cup {None}]
    BY <2>2 DEF ServicesInit, PapersInit
  <2> QED BY <1>0, <2>1, <2>3 DEF PapersTyped
<1> QED
  BY <1>1, <1>2, <1>3, <1>4, <1>5, <1>6, <1>7, <1>8, <1>9, <1>10, <1>11 DEF PartTyped

\* The part that acts takes a step of its own; no other part is asked of.
LEMMA ServicesKept == PartTyped /\ [ServicesNext]_serviceVars => PartTyped'
<1> SUFFICES ASSUME PartTyped, [ServicesNext]_serviceVars PROVE PartTyped'
  OBVIOUS
<1>1. part' = part
  BY DEF ServicesNext, serviceVars
<1>2. /\ part = "payments" => [PaymentsNext]_<<task, payVars>>
      /\ part = "withdrawals" => [WithdrawNext]_<<task, withdrawVars>>
      /\ part = "places" => [SeedPlacesNext]_placeVars
      /\ part = "catalog" => [CatalogNext]_<<task, catalogVars>>
      /\ part = "regions" => [RegionsNext]_<<task, regionVars>>
      /\ part = "fences" => [FencesNext]_<<task, locations>>
      /\ part = "fares" => [FaresNext]_<<task, fareVars>>
      /\ part = "promos" => [PromosNext]_<<task, promoVars>>
      /\ part = "driver promos" => [DriverPromosNext]_<<task, driverPromoVars>>
      /\ part = "notices" => [NoticesNext]_<<task, noticeVars>>
      /\ part = "chat" => [ChatNext]_<<task, chatVars>>
      /\ part = "online" => [OnlineNext]_<<task, onlineVars>>
      /\ part = "papers" => [PapersNext]_<<task, papersVars>>
  BY DEF ServicesNext, serviceVars
<1>3. /\ part = "payments" => PaymentsInv'
      /\ part = "withdrawals" => WithdrawTyped'
      /\ part = "places" => SeedPlacesTypeOK'
      /\ part = "catalog" => CatalogTyped'
  BY <1>2, PaymentsKept, WithdrawTypes, PlacesTypes, CatalogTypes DEF PartTyped
<1>4. /\ part = "regions" => RegionsTyped'
      /\ part = "fences" => FencesTyped'
      /\ part = "fares" => FaresTyped'
      /\ part = "promos" => PromosTyped'
  BY <1>2, RegionsTypes, FencesTypes, FaresTypes, PromosTypes DEF PartTyped
<1>5. /\ part = "driver promos" => WorkInv'
      /\ part = "notices" => NoticesInv'
  BY <1>2, WorkStep, NoticesKept DEF PartTyped
<1>6. /\ part = "chat" => ChatTyped'
      /\ part = "online" => OnlineTyped'
      /\ part = "papers" => PapersTyped'
  BY <1>2, ChatTypes, OnlineTypes, PapersTypes DEF PartTyped
<1> QED
  BY <1>1, <1>3, <1>4, <1>5, <1>6 DEF PartTyped

LEMMA PartTypes == PartTyped => ServicesTypeOK
<1>1. CatalogTyped => CatalogTypeOK
  <2> SUFFICES ASSUME CatalogTyped PROVE CatalogTypeOK
    OBVIOUS
  <2>1. /\ Len(rows) \in 0 .. MaxRows /\ DOMAIN rows = 1 .. Len(rows)
        /\ \A i \in DOMAIN rows : rows[i] \in Row \cup {None}
    BY CatalogAssumption DEF CatalogTyped
  <2>2. DOMAIN rows \in {1 .. n : n \in 0 .. MaxRows}
    BY <2>1
  <2> QED BY <2>1, <2>2 DEF CatalogTyped, CatalogTypeOK
<1>2. PapersTyped => PapersTypeOK
  <2> SUFFICES ASSUME PapersTyped PROVE PapersTypeOK
    OBVIOUS
  <2>1. /\ Len(licenses) \in 0 .. MaxLicenses /\ DOMAIN licenses = 1 .. Len(licenses)
        /\ \A l \in DOMAIN licenses : licenses[l] \in License \cup {None}
    BY PapersAssumption DEF PapersTyped
  <2>2. /\ Len(vehicles) \in 0 .. MaxVehicles /\ DOMAIN vehicles = 1 .. Len(vehicles)
        /\ \A v \in DOMAIN vehicles : vehicles[v] \in Vehicle \cup {None}
    BY PapersAssumption DEF PapersTyped
  <2>3. /\ DOMAIN licenses \in {1 .. n : n \in 0 .. MaxLicenses}
        /\ DOMAIN vehicles \in {1 .. n : n \in 0 .. MaxVehicles}
    BY <2>1, <2>2
  <2> QED BY <2>1, <2>2, <2>3 DEF PapersTyped, PapersTypeOK
<1> QED
  BY <1>1, <1>2 DEF PartTyped, ServicesTypeOK, PaymentsInv, NoticesInv, WorkInv, WithdrawTyped,
     RegionsTyped, FencesTyped, FaresTyped, PromosTyped, ChatTyped, OnlineTyped

\* Every column, entity, job and handler of the thirteen components keeps its type: no
\* handler goes on with what it does not have, whatever changed while it waited.
THEOREM ServicesTyped == ServicesSpec => []ServicesTypeOK
BY ServicesBegin, ServicesKept, PartTypes, PTL DEF ServicesSpec
=============================================================================
