--------------------------- MODULE OneTimePasswords ---------------------------
(***************************************************************************)
(* OtpService, VerificationService and the login of AuthService: a token is*)
(* inserted after older ones are deleted, sent, and accepted by marking it *)
(* used; a contact is verified by the handler that had its token accepted. *)
(***************************************************************************)
EXTENDS Requests, Naturals, FiniteSets

CONSTANTS
    Holders,   \* the users
    Tokens,    \* rows of otps there may be
    OtpTypes   \* the types in use, at least login and one other

VARIABLES
    otps,      \* table otps
    contacts,  \* provider and verified flags of each user
    accepted   \* history: how often each token has been accepted

otpVars == <<otps, contacts, accepted>>

OtpType == {"login", "register", "email", "phone"}
Provider == {"email", "phone"}

ASSUME OtpTypesAssumption == OtpTypes \subseteq OtpType

\* The age of a token, as told by OTP_DELAY_TIME and by its expiry of 30 minutes.
Age == {"new", "waited", "expired"}
Otp == [user: Holders, type: OtpTypes, used: BOOLEAN, age: Age]
Contact == [provider: Provider, verified: SUBSET Provider]

OtpTask ==
    [pc: {"clear", "insert"}, user: Holders, type: OtpTypes]
    \cup [pc: {"accept", "flag"}, token: Tokens, type: OtpTypes,
          user: Holders, provider: Provider]

OtpTypeOK ==
    /\ otps \in [Tokens -> Otp \cup {None}]
    /\ contacts \in [Holders -> Contact]
    /\ accepted \in [Tokens -> Nat]
    /\ \A s \in Slots : task[s] \in OtpTask \cup {Idle}

OtpInit ==
    /\ otps = [t \in Tokens |-> None]
    /\ contacts = [u \in Holders |-> [provider |-> "phone", verified |-> {}]]
    /\ accepted = [t \in Tokens |-> 0]

Live(u, type) ==
    {t \in Tokens : otps[t] # None /\ otps[t].user = u /\ otps[t].type = type /\ ~ otps[t].used}

Older(age) == IF age = "new" THEN "waited" ELSE "expired"

Grow(t) ==
    /\ otps[t] # None /\ otps[t].age # "expired"
    /\ otps' = [otps EXCEPT ![t].age = Older(@)]
    /\ UNCHANGED <<contacts, accepted, task>>

-----------------------------------------------------------------------------
(* sendOtp, by itself or from a login without a token.                     *)

\* The wait applies to the latest unused token of any type.
SendOtp(s, u, type) ==
    /\ \A t \in UNION {Live(u, x) : x \in OtpTypes} : otps[t].age # "new"
    /\ Begin(s, [pc |-> "clear", user |-> u, type |-> type])
    /\ UNCHANGED otpVars

\* For contrast, a clearOtps that keeps the tokens not yet expired.
ClearedExpired(u, type) == {t \in Live(u, type) : otps[t].age = "expired"}

Cleared(u, type) ==
    {t \in Tokens : otps[t] # None /\ otps[t].user = u /\ otps[t].type = type}

ClearOtps(s) ==
    /\ At(s, "clear")
    /\ otps' = [t \in Tokens |->
          IF t \in Cleared(task[s].user, task[s].type) THEN None ELSE otps[t]]
    /\ Await(s, [task[s] EXCEPT !.pc = "insert"])
    /\ UNCHANGED <<contacts, accepted>>

\* genRandomToken draws until no row has the token.  A failure to send it leaves
\* the row.
InsertOtp(s) ==
    /\ At(s, "insert")
    /\ \E t \in Tokens :
        /\ otps[t] = None /\ accepted[t] = 0
        /\ otps' = [otps EXCEPT ![t] =
              [user |-> task[s].user, type |-> task[s].type, used |-> FALSE, age |-> "new"]]
    /\ Finish(s)
    /\ UNCHANGED <<contacts, accepted>>

-----------------------------------------------------------------------------
(* verify: the token is looked up, then marked used.                       *)

\* By a login, or by verifyOtp with the provider the user has at its start.
VerifyOtp(s, t, type) ==
    /\ otps[t] # None /\ ~ otps[t].used       \* else: incorrect
    /\ otps[t].type = type /\ otps[t].age # "expired"
    /\ Begin(s, [pc |-> "accept", token |-> t, type |-> type, user |-> otps[t].user,
                 provider |-> contacts[otps[t].user].provider])
    /\ UNCHANGED otpVars

\* For contrast, an acceptance that forgets to mark the token.
Unmarked(otp) == otp

MarkedUsed(otp) == [otp EXCEPT !.used = TRUE]

\* The update is by id: it throws when the row has been cleared, and succeeds when
\* another handler has marked it before.
AcceptOtp(s) ==
    /\ At(s, "accept")
    /\ LET t == task[s].token IN
       IF otps[t] = None
       THEN Finish(s) /\ UNCHANGED <<otps, accepted>>
       ELSE /\ otps' = [otps EXCEPT ![t] = MarkedUsed(@)]
            /\ accepted' = [accepted EXCEPT ![t] = @ + 1]
            /\ IF task[s].type = "login"
               THEN Finish(s)                 \* last_login and the JWTs
               ELSE Await(s, [task[s] EXCEPT !.pc = "flag"])
    /\ UNCHANGED contacts

\* The flag of the provider read at the start, whichever contact the token was for.
FlagVerified(s) ==
    /\ At(s, "flag")
    /\ contacts' = [contacts EXCEPT ![task[s].user].verified = @ \cup {task[s].provider}]
    /\ Finish(s)
    /\ UNCHANGED <<otps, accepted>>

\* users.update: a changed email or phone is unverified; the provider may change.
ChangeContact(u, changed, provider) ==
    /\ contacts' = [contacts EXCEPT ![u] =
          [provider |-> provider, verified |-> @.verified \ changed]]
    /\ contacts' # contacts
    /\ UNCHANGED <<otps, accepted, task>>

OtpFails(s) == task[s] \in OtpTask /\ Finish(s) /\ UNCHANGED otpVars

-----------------------------------------------------------------------------
\* A request passes VerificationGuard when the contact in use is verified.
IsProviderVerified(u) == contacts[u].provider \in contacts[u].verified

OtpNext ==
    \/ \E t \in Tokens : Grow(t)
    \/ \E u \in Holders, changed \in SUBSET Provider, provider \in Provider :
        ChangeContact(u, changed, provider)
    \/ \E s \in Slots :
        \/ \E u \in Holders, type \in OtpTypes : SendOtp(s, u, type)
        \/ \E t \in Tokens, type \in OtpTypes : VerifyOtp(s, t, type)
        \/ ClearOtps(s) \/ InsertOtp(s) \/ AcceptOtp(s) \/ FlagVerified(s)
        \/ OtpFails(s)

OtpSpec == RequestsInit /\ OtpInit /\ [][OtpNext]_<<task, otpVars>>

-----------------------------------------------------------------------------
\* Requests for a token can overlap, each deleting before any inserts, so a user
\* may hold more than one token of a type; but never more than handlers in flight,
\* however many tokens were asked for.
LiveTokensPerRace ==
    \A u \in Holders, type \in OtpTypes :
        Cardinality(Live(u, type))
          + Cardinality({s \in Slots : At(s, "insert") /\ task[s].user = u /\ task[s].type = type})
            <= Cardinality(Slots)

\* A token is looked up unused and marked later, so verifications in flight at once
\* may all succeed; once it has been marked no other does.
AcceptedPerRace ==
    \A t \in Tokens :
        accepted[t] + Cardinality({s \in Slots : At(s, "accept") /\ task[s].token = t})
            <= Cardinality(Slots)
=============================================================================
