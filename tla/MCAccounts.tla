------------------------------ MODULE MCAccounts ------------------------------
(***************************************************************************)
(* Four components that share no state are checked in one run: part says   *)
(* which of them acts.                                                     *)
(***************************************************************************)
EXTENDS OneTimePasswords, Registration, Access, SeedGrants, TLC

VARIABLE part

accountVars == <<task, otpVars, registerVars, accessVars, grantVars, part>>

AccountsInit ==
    /\ RequestsInit
    /\ OtpInit /\ RegisterInit /\ AccessInit /\ SeedGrantsInit
    /\ part \in {"passwords", "registration", "access", "seeds"}

AccountsNext ==
    /\ UNCHANGED part
    /\ \/ /\ part = "passwords" /\ OtpNext
          /\ UNCHANGED <<registerVars, accessVars, grantVars>>
       \/ /\ part = "registration" /\ RegisterNext
          /\ UNCHANGED <<otpVars, accessVars, grantVars>>
       \/ /\ part = "access" /\ AccessNext
          /\ UNCHANGED <<otpVars, registerVars, grantVars>>
       \/ /\ part = "seeds" /\ SeedGrantsNext
          /\ UNCHANGED <<task, otpVars, registerVars, accessVars>>

AccountsSpec == AccountsInit /\ [][AccountsNext]_accountVars

\* Every state variable and every handler keeps its type, whichever part acts.
AccountsTypeOK ==
    /\ part = "passwords" => OtpTypeOK
    /\ part = "registration" => RegisterTypeOK
    /\ part = "access" => AccessTypeOK
    /\ part = "seeds" => SeedGrantsTypeOK

Symmetry == Permutations(Slots) \cup Permutations(Tokens)

\* An endpoint with a permission and one open to guests.
MCCalls == {call \in AllEndpoints : <<call.path, call.op>> \in {<<"users", "read">>, <<"auth", "login">>}}
=============================================================================
