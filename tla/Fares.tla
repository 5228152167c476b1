--------------------------------- MODULE Fares ---------------------------------
(***************************************************************************)
(* FareService and PeakFareService: what a ride costs, by the location of  *)
(* its pickup and the type of vehicle.  NightFareService has no action: its*)
(* create throws at every call, for the import of moment has no default,   *)
(* and without rows there is nothing to update or delete.                  *)
(***************************************************************************)
EXTENDS Requests, Integers, FiniteSets

CONSTANTS
    Areas, Kinds,    \* locations and vehicle types
    FareIds,         \* rows of fares there may be
    Tariffs,         \* the prices administrators set
    Minutes,         \* minutes and kilometres of a ride
    MaxHour          \* bound on the hours of a day

VARIABLES
    fares,           \* table fares
    peaks,           \* table peak_fares, on one day of the week: by fare
    quote,           \* the price last answered, or None
    overlapped       \* history: handlers have overlapped, or a fare has been moved

fareVars == <<fares, peaks, quote, overlapped>>

Tariff == [minimum: Nat, base: Nat, per_minute: Nat, per_kilometer: Nat,
           limit: Nat, waiting: Nat]

ASSUME TariffsAssumption == Tariffs \subseteq Tariff /\ Minutes \subseteq Nat

FareRow == [area: Areas, kind: Kinds, tariff: Tariffs]
Hours == 0 .. MaxHour
Peak == {p \in [start: Hours, end: Hours] : p.start < p.end}

FareTask ==
    [pc: {"add"}, row: FareRow]
    \cup [pc: {"set"}, id: FareIds, row: FareRow]
    \cup [pc: {"drop"}, id: FareIds]
    \cup [pc: {"addPeak"}, id: FareIds, peak: Peak]
    \cup [pc: {"setPeak"}, id: FareIds, old: Peak, peak: Peak \cup {None}]
    \cup [pc: {"price"}, area: Areas, kind: Kinds, time: Minutes, distance: Minutes]

FaresTypeOK ==
    /\ fares \in [FareIds -> FareRow \cup {None}]
    /\ peaks \in [FareIds -> SUBSET Peak]
    /\ quote \in Int \cup {None}
    /\ overlapped \in BOOLEAN
    /\ \A s \in Slots : task[s] \in FareTask \cup {Idle}

FaresInit ==
    /\ fares = [f \in FareIds |-> None]
    /\ peaks = [f \in FareIds |-> {}]
    /\ quote = None
    /\ overlapped = FALSE

KnownFares == {f \in FareIds : fares[f] # None}

\* findByLocation: the first of them is any.
FaresAt(area, kind) == {f \in KnownFares : fares[f].area = area /\ fares[f].kind = kind}

BeginFare(s, handler) ==
    /\ Begin(s, handler)
    /\ overlapped' = (overlapped \/ ~ Alone(s))
    /\ UNCHANGED <<fares, peaks, quote>>

-----------------------------------------------------------------------------
(* Fares.  That a location has one fare for a vehicle type is checked as   *)
(* the body is validated; the table has no key for it.                     *)

\* For contrast, a validator that compares ids only.
NoRecord(area, kind) == FALSE

RecordExists(area, kind) == FaresAt(area, kind) # {}

CreateFare(s, row) ==
    /\ ~ RecordExists(row.area, row.kind)
    /\ BeginFare(s, [pc |-> "add", row |-> row])

AddFare(s) ==
    /\ At(s, "add")
    /\ \E f \in FareIds \ KnownFares : fares' = [fares EXCEPT ![f] = task[s].row]
    /\ Finish(s)
    /\ UNCHANGED <<peaks, quote, overlapped>>

\* A body with a vehicle type is validated like a new fare's; one that names the
\* location alone moves the fare unseen.
UpdateFare(s, f, row) ==
    /\ f \in KnownFares
    /\ row.kind # fares[f].kind => ~ RecordExists(row.area, row.kind)
    /\ Begin(s, [pc |-> "set", id |-> f, row |-> row])
    /\ overlapped' = (overlapped \/ ~ Alone(s) \/ (row.kind = fares[f].kind /\ row.area # fares[f].area))
    /\ UNCHANGED <<fares, peaks, quote>>

SetFare(s) ==
    /\ At(s, "set")
    /\ fares' = IF task[s].id \in KnownFares THEN [fares EXCEPT ![task[s].id] = task[s].row] ELSE fares
    /\ Finish(s)
    /\ UNCHANGED <<peaks, quote, overlapped>>

DeleteFare(s, f) == f \in KnownFares /\ BeginFare(s, [pc |-> "drop", id |-> f])

\* The keys of peak fares and trips keep a fare that either refers to.
DropFare(s, travelled) ==
    /\ At(s, "drop")
    /\ LET f == task[s].id IN
       fares' = IF travelled \/ peaks[f] # {} THEN fares ELSE [fares EXCEPT ![f] = None]
    /\ Finish(s)
    /\ UNCHANGED <<peaks, quote, overlapped>>

-----------------------------------------------------------------------------
(* Peak fares.                                                             *)

\* A peak may not start within another; it may well surround one.
CreatePeak(s, f, peak) ==
    /\ f \in KnownFares
    /\ \A other \in peaks[f] : ~ (other.start < peak.start /\ peak.start < other.end)
    /\ BeginFare(s, [pc |-> "addPeak", id |-> f, peak |-> peak])

AddPeak(s) ==
    /\ At(s, "addPeak")
    /\ peaks' = IF task[s].id \in KnownFares
                THEN [peaks EXCEPT ![task[s].id] = @ \cup {task[s].peak}] ELSE peaks
    /\ Finish(s)
    /\ UNCHANGED <<fares, quote, overlapped>>

\* update looks at no other peak; peak is None for delete.
FindPeak(s, f, old, peak) ==
    /\ old \in peaks[f]
    /\ BeginFare(s, [pc |-> "setPeak", id |-> f, old |-> old, peak |-> peak])

SetPeak(s) ==
    /\ At(s, "setPeak")
    /\ LET h == task[s] IN
       peaks' = IF h.old \in peaks[h.id]
                THEN [peaks EXCEPT ![h.id] = (@ \ {h.old}) \cup ({h.peak} \ {None})] ELSE peaks
    /\ Finish(s)
    /\ UNCHANGED <<fares, quote, overlapped>>

-----------------------------------------------------------------------------
(* The price.                                                              *)

\* The wait in minutes, None when the arrival was not recorded: it then compares as
\* no wait.  Past the limit each further minute takes waiting away.
Waiting(tariff, wait) ==
    IF wait # None /\ wait > tariff.limit THEN tariff.waiting * (tariff.limit - wait) ELSE 0

\* calculatePrice.  There are no night fares, and the hours of a peak do not parse
\* as dates, so now is never between them.
Price(tariff, time, distance, wait) ==
    LET fare == tariff.base + time * tariff.per_minute + distance * tariff.per_kilometer
                  + Waiting(tariff, wait)
    IN  IF fare < tariff.minimum THEN tariff.minimum ELSE fare

\* calculate: the location of the pickup, then what Google says of the way.
Calculate(s, area, kind, time, distance) ==
    BeginFare(s, [pc |-> "price", area |-> area, kind |-> kind, time |-> time, distance |-> distance])

\* Without a fare it throws.
AnswerFare(s) ==
    /\ At(s, "price")
    /\ LET h == task[s]
           found == FaresAt(h.area, h.kind)
       IN  \/ found = {} /\ UNCHANGED quote
           \/ \E f \in found : quote' = Price(fares[f].tariff, h.time, h.distance, None)
    /\ Finish(s)
    /\ UNCHANGED <<fares, peaks, overlapped>>

-----------------------------------------------------------------------------
FaresStep(s) ==
    \/ AddFare(s) \/ SetFare(s) \/ AddPeak(s) \/ SetPeak(s) \/ AnswerFare(s)
    \/ \E travelled \in BOOLEAN : DropFare(s, travelled)

FaresNext ==
    \E s \in Slots :
        \/ \E row \in FareRow :
            CreateFare(s, row) \/ \E f \in FareIds : UpdateFare(s, f, row)
        \/ \E f \in FareIds :
            \/ DeleteFare(s, f)
            \/ \E peak \in Peak : CreatePeak(s, f, peak)
            \/ \E old \in Peak, peak \in Peak \cup {None} : FindPeak(s, f, old, peak)
        \/ \E area \in Areas, kind \in Kinds, time \in Minutes, distance \in Minutes :
            Calculate(s, area, kind, time, distance)
        \/ FaresStep(s)

FaresSpec == RequestsInit /\ FaresInit /\ [][FaresNext]_<<task, fareVars>>

-----------------------------------------------------------------------------
\* The price of a ride is settled by where it starts and the type of vehicle: two
\* fares for both come only of requests that overlap or of an update that names the
\* location alone.
OneFarePerPlace ==
    ~ overlapped => \A area \in Areas, kind \in Kinds : Cardinality(FaresAt(area, kind)) <= 1
=============================================================================
