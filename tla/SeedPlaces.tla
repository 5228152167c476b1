------------------------------ MODULE SeedPlaces ------------------------------
(***************************************************************************)
(* database/seeds/seed.ts: countries, states, cities, banks and settings.  *)
(* The loops start their upserts and do not wait for them, so the banks    *)
(* are written while the countries they refer to may still be missing.     *)
(***************************************************************************)
EXTENDS Naturals

CONSTANTS
    Atlas,        \* triples <<country, state, city>> of the file; names may recur
    Banks,        \* pairs <<bank, country>>
    MaxSeedings   \* bound on the runs of the seeder

ASSUME PlacesAssumption ==
    /\ MaxSeedings \in Nat
    /\ \A b \in Banks : \E p \in Atlas : p[1] = b[2]

VARIABLES
    countries,    \* table countries, by name
    states,       \* table states: pairs <<state, country>>, a name at most once
    cities,       \* table cities: pairs <<city, state>>, a name at most once
    banks,        \* table banks: pairs <<bank, country>>
    settings,     \* table settings: "default" or "chosen", once it is filled
    phase,        \* where the function of places is; its upserts are in upserts
    upserts,
    seedings,
    populated     \* the run found the countries in place

placeVars == <<countries, states, cities, banks, settings, phase, upserts, seedings, populated>>

CountryNames == {p[1] : p \in Atlas}

Upsert ==
    {[table |-> "country", country |-> c] : c \in CountryNames}
    \cup {[table |-> "state", country |-> p[1], state |-> p[2]] : p \in Atlas}
    \cup {[table |-> "city", city |-> p[3], state |-> p[2]] : p \in Atlas}
    \cup {[table |-> "bank", bank |-> b] : b \in Banks}

SeedPlacesTypeOK ==
    /\ countries \subseteq CountryNames
    /\ states \subseteq {<<p[2], p[1]>> : p \in Atlas}
    /\ \A s, t \in states : s[1] = t[1] => s = t
    /\ cities \subseteq {<<p[3], p[2]>> : p \in Atlas}
    /\ \A c, d \in cities : c[1] = d[1] => c = d
    /\ banks \subseteq Banks
    /\ settings \in {"none", "default", "chosen"}
    /\ phase \in {"places", "banks", "end", "failed"}
    /\ \A u \in upserts : u \in Upsert
    /\ seedings \in 0 .. MaxSeedings /\ populated \in BOOLEAN

SeedPlacesInit ==
    /\ countries = {} /\ states = {} /\ cities = {} /\ banks = {}
    /\ settings = "none"
    /\ phase = "end" /\ upserts = {}
    /\ seedings = 0 /\ populated = FALSE

-----------------------------------------------------------------------------
\* For contrast, countries emptied before they are written again.
StartCountriesAfresh ==
    /\ phase = "places"
    /\ upserts' = {[table |-> "country", country |-> c] : c \in CountryNames}
    /\ phase' = "banks"
    /\ countries' = {}
    /\ UNCHANGED <<states, cities, banks, settings, seedings, populated>>

StartCountries ==
    /\ phase = "places"
    /\ upserts' = {[table |-> "country", country |-> c] : c \in CountryNames}
    /\ phase' = "banks"
    /\ UNCHANGED <<countries, states, cities, banks, settings, seedings, populated>>

StartBanks ==
    /\ phase = "banks"
    /\ upserts' = upserts \cup {[table |-> "bank", bank |-> b] : b \in Banks}
    /\ phase' = "end"
    /\ UNCHANGED <<countries, states, cities, banks, settings, seedings, populated>>

\* An upsert without nested writes is one statement; its callback goes on to the
\* places within, whether or not there was something to insert.
UpsertCountry(u) ==
    /\ u.table = "country"
    /\ countries' = countries \cup {u.country}
    /\ upserts' = (upserts \ {u}) \cup
           {[table |-> "state", country |-> u.country, state |-> p[2]] :
               p \in {p \in Atlas : p[1] = u.country}}
    /\ UNCHANGED <<states, cities, banks, settings, phase, seedings, populated>>

\* For contrast, an upsert that looks for the name in the country only.
UpsertStateOfCountry(u) ==
    /\ u.table = "state"
    /\ states' = states \cup {<<u.state, u.country>>}
    /\ upserts' = (upserts \ {u}) \cup
           {[table |-> "city", city |-> p[3], state |-> u.state] :
               p \in {p \in Atlas : p[1] = u.country /\ p[2] = u.state}}
    /\ UNCHANGED <<countries, cities, banks, settings, phase, seedings, populated>>

\* A state of another country that has the name takes its place.
UpsertState(u) ==
    /\ u.table = "state"
    /\ states' = IF \E s \in states : s[1] = u.state THEN states
                 ELSE states \cup {<<u.state, u.country>>}
    /\ upserts' = (upserts \ {u}) \cup
           {[table |-> "city", city |-> p[3], state |-> u.state] :
               p \in {p \in Atlas : p[1] = u.country /\ p[2] = u.state}}
    /\ UNCHANGED <<countries, cities, banks, settings, phase, seedings, populated>>

UpsertCity(u) ==
    /\ u.table = "city"
    /\ cities' = IF \E c \in cities : c[1] = u.city THEN cities
                 ELSE cities \cup {<<u.city, u.state>>}
    /\ upserts' = upserts \ {u}
    /\ UNCHANGED <<countries, states, banks, settings, phase, seedings, populated>>

\* Connecting to a country that is not there throws, and nobody catches it.
UpsertBank(u) ==
    /\ u.table = "bank"
    /\ IF u.bank[2] \in countries
       THEN banks' = banks \cup {u.bank} /\ UNCHANGED phase
       ELSE phase' = "failed" /\ UNCHANGED banks
    /\ upserts' = upserts \ {u}
    /\ UNCHANGED <<countries, states, cities, settings, seedings, populated>>

-----------------------------------------------------------------------------
\* skipDuplicates keeps what an administrator has chosen.
InsertSettings ==
    /\ settings' = IF settings = "none" THEN "default" ELSE settings
    /\ UNCHANGED <<countries, states, cities, banks, phase, upserts, seedings, populated>>

\* SettingsService.update
UpdateSetting ==
    /\ settings # "none"
    /\ settings' = "chosen"
    /\ UNCHANGED <<countries, states, cities, banks, phase, upserts, seedings, populated>>

\* An unhandled rejection ends the process, as does the operator or another
\* function of the seeds.
End ==
    /\ phase' = "end" /\ upserts' = {}
    /\ populated' = FALSE
    /\ UNCHANGED <<countries, states, cities, banks, settings, seedings>>

Seed ==
    /\ phase = "end" /\ upserts = {}
    /\ seedings < MaxSeedings
    /\ seedings' = seedings + 1
    /\ populated' = (countries = CountryNames)
    /\ phase' = "places"
    /\ UNCHANGED <<countries, states, cities, banks, settings, upserts>>

SeedPlacesNext ==
    \/ StartCountries \/ StartBanks
    \/ \E u \in upserts : UpsertCountry(u) \/ UpsertState(u) \/ UpsertCity(u) \/ UpsertBank(u)
    \/ InsertSettings \/ UpdateSetting
    \/ End \/ Seed

SeedPlacesSpec == SeedPlacesInit /\ [][SeedPlacesNext]_placeVars

-----------------------------------------------------------------------------
\* A run of the seeder that finds the countries never fails for a bank, and when its
\* upserts are through every name of the files is in the tables, however much of
\* them earlier runs had left out.
PlacesComplete ==
    populated =>
        /\ phase # "failed"
        /\ phase = "end" /\ upserts = {} =>
               /\ \A p \in Atlas :
                      /\ \E s \in states : s[1] = p[2]
                      /\ \E c \in cities : c[1] = p[3]
               /\ banks = Banks
=============================================================================
