------------------------------- MODULE Endpoints -------------------------------
(***************************************************************************)
(* The REST endpoints of every controller with what the decorators ask of  *)
(* the caller: a guest endpoint needs no token, bypass skips the check that*)
(* the contact is verified, and needs is the permission.                   *)
(***************************************************************************)
NoPermission == <<>>

Endpoint(path, op, needs, guest, bypass) ==
    [path |-> path, op |-> op, needs |-> needs, guest |-> guest, bypass |-> bypass]

\* @Permissions: a permission is named after an operation and a resource.
Guarded(path, resource, ops) ==
    {Endpoint(path, op, <<op, resource>>, FALSE, FALSE) : op \in ops}

\* No decorator: a token and a verified contact.
Plain(path, ops) == {Endpoint(path, op, NoPermission, FALSE, FALSE) : op \in ops}

\* @BypassVerification
Unverified(path, ops) == {Endpoint(path, op, NoPermission, FALSE, TRUE) : op \in ops}

\* For contrast, @Guest alone.
GuestOnly(path, ops) == {Endpoint(path, op, NoPermission, TRUE, FALSE) : op \in ops}

\* @Guest and @BypassVerification
Public(path, ops) == {Endpoint(path, op, NoPermission, TRUE, TRUE) : op \in ops}

Crud == {"create", "browse", "read", "update", "delete"}

-----------------------------------------------------------------------------
(* auth/permissions.ts                                                     *)

CrudResources ==
    {"users", "roles", "licenses", "vehicles", "bank-accounts", "fares",
     "cancel-reasons", "incentives", "faqs", "promos", "vehicle-brands",
     "notifications", "locations", "support", "discounts", "vehicle-types",
     "mail-templates", "legal-agreements"}

OtherPermissions ==
    {<<"browse", "permissions">>, <<"update", "settings">>, <<"browse", "settings">>,
     <<"browse", "supervisors">>, <<"update", "supervisors">>,
     <<"browse", "account-manager">>}
    \cup {"create", "browse", "update"} \X {"withdrawal-requests"}
    \cup {"browse", "read", "delete"} \X {"reviews", "time-online"}

AllPermissions == (Crud \X CrudResources) \cup OtherPermissions

-----------------------------------------------------------------------------
(* Accounts.                                                               *)

AuthEndpoints ==
    Public("auth", {"register", "login", "refresh"})
    \cup Unverified("auth", {"updateInfo", "updatePicture"})
    \cup Plain("auth", {"profile"})
VerificationEndpoints == Unverified("auth", {"sendOtp", "verifyOtp"})
UserEndpoints == Guarded("users", "users", Crud)
RoleEndpoints ==
    Guarded("roles", "roles", {"create", "update", "delete", "read"})
    \cup {Endpoint("roles", "list", <<"read", "roles">>, FALSE, FALSE)}
PermissionEndpoints == Guarded("permissions", "permissions", {"browse"})
AccountManagerEndpoints == Guarded("account-managers", "account-manager", {"browse"})
SupervisorEndpoints == Guarded("supervisors", "supervisors", {"browse", "update"})
SettingEndpoints == Guarded("settings", "settings", {"update", "browse"})
OweSettingEndpoints == Guarded("settings/owe", "settings", {"update", "browse"})

(* Drivers and their vehicles.                                             *)

LicenseEndpoints ==
    Guarded("licenses", "licenses", Crud)
    \cup {Endpoint("licenses/find/user", "read", <<"read", "licenses">>, FALSE, FALSE)}
VehicleEndpoints ==
    Guarded("vehicles", "vehicles", Crud)
    \cup {Endpoint("vehicles/find/user", "read", <<"read", "vehicles">>, FALSE, FALSE)}
VehicleBrandEndpoints == Guarded("vehicle-brands", "vehicle-brands", Crud)
VehicleTypeEndpoints == Guarded("vehicle-types", "vehicle-types", Crud)
TimeOnlineEndpoints == Plain("timeonline", {"browse", "read", "find/user", "user/logged-in"})
AcceptanceRateEndpoints == Plain("acceptancerate", {"browse"})

(* Rides and money.  Two endpoints lack the permission of their siblings:  *)
(* the removal of a night fare and the list of cancel reasons.             *)

TripEndpoints ==
    Plain("trips", {"browse", "read", "requests", "driver", "rider", "unpaid"})
ReviewEndpoints ==
    Guarded("reviews", "reviews", {"browse", "read", "delete"})
    \cup {Endpoint("reviews/find/trip", "read", <<"read", "reviews">>, FALSE, FALSE)}
    \cup Plain("reviews", {"create"})
FareEndpoints == Guarded("fare", "fares", Crud) \cup Plain("fare/calculate", {"create"})
PeakFareEndpoints == Guarded("peak-fare", "fares", Crud)
NightFareEndpoints ==
    Guarded("night-fare", "fares", Crud \ {"delete"}) \cup Plain("night-fare", {"delete"})
CancelReasonEndpoints ==
    Guarded("cancel-reasons", "cancel-reasons", Crud \ {"browse"})
    \cup Plain("cancel-reasons", {"browse"})
TransactionEndpoints ==
    Guarded("transactions", "bank-accounts", {"browse"})
    \cup Unverified("transactions", {"init"})
    \cup Plain("transactions", {"verify", "transfer"})
BankAccountEndpoints == Guarded("payments/bank-accounts", "bank-accounts", Crud)
WithdrawalEndpoints ==
    Guarded("payments/withdrawal-requests", "withdrawal-requests", {"browse", "create", "update"})
EarningsEndpoints == Plain("earnings", {"browse"})
BankEndpoints == Plain("payments/banks", {"browse"})
\* The webhooks are not for guests: a provider's call carries no token.
WebhookEndpoints == Plain("webhook", {"paystack", "flutterwave"})

(* Campaigns and places.                                                   *)

PromoEndpoints == Guarded("promos", "promos", Crud)
DriverPromoEndpoints ==
    Guarded("driver-promos", "promos", Crud)
    \cup {Endpoint("driver-promos/progress", "read", <<"read", "promos">>, FALSE, FALSE)}
    \cup Plain("driver-promos", {"participate", "user-progress"})
DiscountEndpoints == Guarded("discount", "discounts", Crud)
IncentiveEndpoints == Guarded("incentives", "incentives", Crud)
LocationEndpoints == Guarded("locations", "locations", Crud)
CountryEndpoints == Plain("countries", {"browse", "paginated", "update"})
StateEndpoints == Plain("states", {"browse", "paginated", "update"})
CityEndpoints == Plain("cities", {"browse", "paginated", "update"})

(* Texts and messages.                                                     *)

NotificationEndpoints ==
    Guarded("notifications", "notifications", {"browse", "read", "delete"})
    \cup {Endpoint("notifications", op, <<"create", "notifications">>, FALSE, FALSE) :
            op \in {"all-users", "specific-users", "roles", "inactive-users", "inactive-roles"}}
StatsEndpoints == Plain("stats", {"browse"})
HealthEndpoints == Plain("health", {"browse"})
AppEndpoints == Public("app", {"browse"})
ChatEndpoints == Plain("chats", {"chatlist", "conversation"})
FaqEndpoints == Guarded("faqs", "faqs", Crud \ {"browse"}) \cup Public("faqs", {"browse"})
LegalEndpoints == Guarded("terms-of-services", "legal-agreements", Crud)
MailTemplateEndpoints == Guarded("mail-templates", "mail-templates", Crud)
SupportCategoryEndpoints ==
    Guarded("support-categories", "support", {"create", "update", "delete"})
    \cup Public("support-categories", {"browse", "read"})
SupportQuestionEndpoints ==
    Guarded("support-questions", "support", {"create", "update", "delete"})
    \cup Public("support-questions", {"browse", "read"})
    \cup Plain("support-questions", {"raise-issue"})

-----------------------------------------------------------------------------
AllEndpoints == UNION
    {AuthEndpoints, VerificationEndpoints, UserEndpoints, RoleEndpoints, PermissionEndpoints,
     AccountManagerEndpoints, SupervisorEndpoints, SettingEndpoints, OweSettingEndpoints,
     LicenseEndpoints, VehicleEndpoints, VehicleBrandEndpoints, VehicleTypeEndpoints,
     TimeOnlineEndpoints, AcceptanceRateEndpoints, TripEndpoints, ReviewEndpoints,
     FareEndpoints, PeakFareEndpoints, NightFareEndpoints, CancelReasonEndpoints,
     TransactionEndpoints, BankAccountEndpoints, WithdrawalEndpoints, WebhookEndpoints,
     PromoEndpoints, DriverPromoEndpoints, DiscountEndpoints, IncentiveEndpoints,
     LocationEndpoints, CountryEndpoints, StateEndpoints, CityEndpoints,
     NotificationEndpoints, ChatEndpoints, FaqEndpoints, LegalEndpoints,
     MailTemplateEndpoints, SupportCategoryEndpoints, SupportQuestionEndpoints,
     EarningsEndpoints, BankEndpoints, StatsEndpoints, HealthEndpoints, AppEndpoints}
=============================================================================
