--------------------------- MODULE MCDriverSearch ---------------------------
EXTENDS DriverSearch

Free == [online |-> TRUE, in_ride |-> FALSE, vehicle |-> "car", fence |-> "town",
         balance |-> 0, score |-> 0, distance |-> 0]

\* Free drivers of every rank, in debt or not; and drivers that one condition of
\* the search excludes each.
MCDrivers ==
    {[Free EXCEPT !.score = s, !.distance = d] : s \in 0 .. 2, d \in 0 .. 2}
    \cup {[Free EXCEPT !.balance = b] : b \in {-2, -1}}
    \cup {[Free EXCEPT !.online = FALSE], [Free EXCEPT !.in_ride = TRUE],
          [Free EXCEPT !.vehicle = "bike"], [Free EXCEPT !.fence = "other"]}
=============================================================================
