------------------------------ MODULE MCServices ------------------------------
(***************************************************************************)
(* Thirteen components that share no state are checked in one run: part says *)
(* which of them acts.  What a part leaves alone is everything but its own.*)
(***************************************************************************)
EXTENDS Payments, Withdrawals, SeedPlaces, Catalog, Regions, Fences, Fares,
        Promos, DriverPromos, Notices, Chat, OnlineUsers, Papers, TLC

VARIABLE part

\* The variables of the components before and after each, in the order above.
serviceVars ==
    <<task, payVars, withdrawVars, placeVars, catalogVars, regionVars, locations,
      fareVars, promoVars, driverPromoVars, noticeVars, chatVars, onlineVars, papersVars, part>>

ServicesInit ==
    /\ RequestsInit
    /\ PaymentsInit /\ WithdrawInit /\ SeedPlacesInit
    /\ CatalogInit /\ RegionsInit /\ FencesInit
    /\ FaresInit /\ PromosInit /\ DriverPromosInit
    /\ NoticesInit /\ ChatInit /\ OnlineInit /\ PapersInit
    /\ part \in {"payments", "withdrawals", "places", "catalog", "regions", "fences",
                "fares", "promos", "driver promos", "notices", "chat", "online", "papers"}
    /\ part # "catalog" => table = "faqs"    \* it matters to the catalog alone

\* Part acts and the others do not.
ServicesNext ==
    /\ UNCHANGED part
    /\ \/ /\ part = "payments" /\ PaymentsNext
          /\ UNCHANGED <<withdrawVars, placeVars, catalogVars, regionVars, locations, fareVars,
                         promoVars, driverPromoVars, noticeVars, chatVars, onlineVars, papersVars>>
       \/ /\ part = "withdrawals" /\ WithdrawNext
          /\ UNCHANGED <<payVars, placeVars, catalogVars, regionVars, locations, fareVars,
                         promoVars, driverPromoVars, noticeVars, chatVars, onlineVars, papersVars>>
       \/ /\ part = "places" /\ SeedPlacesNext
          /\ UNCHANGED <<task, payVars, withdrawVars, catalogVars, regionVars, locations,
                         fareVars, promoVars, driverPromoVars, noticeVars, chatVars, onlineVars, papersVars>>
       \/ /\ part = "catalog" /\ CatalogNext
          /\ UNCHANGED <<payVars, withdrawVars, placeVars, regionVars, locations, fareVars,
                         promoVars, driverPromoVars, noticeVars, chatVars, onlineVars, papersVars>>
       \/ /\ part = "regions" /\ RegionsNext
          /\ UNCHANGED <<payVars, withdrawVars, placeVars, catalogVars, locations, fareVars,
                         promoVars, driverPromoVars, noticeVars, chatVars, onlineVars, papersVars>>
       \/ /\ part = "fences" /\ FencesNext
          /\ UNCHANGED <<payVars, withdrawVars, placeVars, catalogVars, regionVars, fareVars,
                         promoVars, driverPromoVars, noticeVars, chatVars, onlineVars, papersVars>>
       \/ /\ part = "fares" /\ FaresNext
          /\ UNCHANGED <<payVars, withdrawVars, placeVars, catalogVars, regionVars, locations,
                         promoVars, driverPromoVars, noticeVars, chatVars, onlineVars, papersVars>>
       \/ /\ part = "promos" /\ PromosNext
          /\ UNCHANGED <<payVars, withdrawVars, placeVars, catalogVars, regionVars, locations,
                         fareVars, driverPromoVars, noticeVars, chatVars, onlineVars, papersVars>>
       \/ /\ part = "driver promos" /\ DriverPromosNext
          /\ UNCHANGED <<payVars, withdrawVars, placeVars, catalogVars, regionVars, locations,
                         fareVars, promoVars, noticeVars, chatVars, onlineVars, papersVars>>
       \/ /\ part = "notices" /\ NoticesNext
          /\ UNCHANGED <<payVars, withdrawVars, placeVars, catalogVars, regionVars, locations,
                         fareVars, promoVars, driverPromoVars, chatVars, onlineVars, papersVars>>
       \/ /\ part = "chat" /\ ChatNext
          /\ UNCHANGED <<payVars, withdrawVars, placeVars, catalogVars, regionVars, locations,
                         fareVars, promoVars, driverPromoVars, noticeVars, onlineVars, papersVars>>
       \/ /\ part = "online" /\ OnlineNext
          /\ UNCHANGED <<payVars, withdrawVars, placeVars, catalogVars, regionVars, locations,
                         fareVars, promoVars, driverPromoVars, noticeVars, chatVars, papersVars>>
       \/ /\ part = "papers" /\ PapersNext
          /\ UNCHANGED <<payVars, withdrawVars, placeVars, catalogVars, regionVars, locations,
                         fareVars, promoVars, driverPromoVars, noticeVars, chatVars, onlineVars>>

ServicesSpec == ServicesInit /\ [][ServicesNext]_serviceVars

\* Every state variable and every handler keeps its type, whichever part acts.
ServicesTypeOK ==
    /\ part = "payments" => PaymentsTypeOK
    /\ part = "withdrawals" => WithdrawTypeOK
    /\ part = "places" => SeedPlacesTypeOK
    /\ part = "catalog" => CatalogTypeOK
    /\ part = "regions" => RegionsTypeOK
    /\ part = "fences" => FencesTypeOK
    /\ part = "fares" => FaresTypeOK
    /\ part = "promos" => PromosTypeOK
    /\ part = "driver promos" => DriverPromosTypeOK
    /\ part = "notices" => NoticesTypeOK
    /\ part = "chat" => ChatTypeOK
    /\ part = "online" => OnlineTypeOK
    /\ part = "papers" => PapersTypeOK

Symmetry == Permutations(Slots) \cup Permutations(RequestIds)

-----------------------------------------------------------------------------
\* Two countries, one of which has a state with the name of a state of the other, and
\* in it a city with the name of another.
MCAtlas == {<<"A", "north", "town">>, <<"B", "north", "port">>, <<"B", "south", "port">>}
MCBanks == {<<"bank", "A">>, <<"loans", "B">>}

\* One country with two states and a city in each.
MCCountryOf == [state \in States |-> CHOOSE c \in Countries : TRUE]
MCStateOf == [city \in Cities |-> IF city = "town" THEN "north" ELSE "south"]

MCTariffs == {[minimum |-> 2, base |-> 1, per_minute |-> 1, per_kilometer |-> 1,
               limit |-> 1, waiting |-> 1]}

\* A promo that asks for nothing and one that asks for all.
MCGoals == {[trips |-> 0, acceptance |-> 0, cancellation |-> 100],
            [trips |-> 1, acceptance |-> 100, cancellation |-> 0]}

\* All sockets are of one user, who chats with another.
MCChatUserOf == [k \in ChatSockets |-> "ann"]
MCStaffOf == [u \in Chatters |-> {}]
=============================================================================
