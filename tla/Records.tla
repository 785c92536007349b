-------------------------------- MODULE Records --------------------------------
(***************************************************************************)
(* Rows that are read, changed and saved as a whole: GORM's Save writes    *)
(* every column of the copy, and nothing says what the row was when it was *)
(* read.  One row of users (UserService, AuthMiddleware, AdminUseCase),    *)
(* one of merchants (MerchantService, AdminMerchantHandler), one of        *)
(* admin_users (AdminService) and one of user_settings (ProfileService).   *)
(* The bot and the API are two processes, and both serve several calls at  *)
(* once.                                                                   *)
(***************************************************************************)
EXTENDS Integers, FiniteSets

CONSTANTS Pin,          \* the PINs a user may enter
          Name,         \* names a Telegram user may carry
          Text,         \* values of a plain column
          Fee,          \* fee rates
          Ip,           \* addresses for the whitelist
          None,         \* no PIN, no call
          Call,         \* slots of calls between reading and saving
          MaxFail,      \* pin_max_fail
          MaxEntries,   \* bound on wrong PINs between two clearings
          MaxVersion,   \* bound on the versions that are issued
          Faults        \* TRUE: a save may fail

ASSUME RecordsAssumption ==
  /\ Name # {} /\ Text # {} /\ Fee # {}
  /\ MaxFail \in Nat \ {0}
  /\ MaxEntries \in Nat /\ MaxVersion \in Nat
  /\ Faults \in BOOLEAN

VARIABLES row,      \* the rows, by table
          work,     \* the copy each call will save, with its table and purpose
          issued,   \* how many secrets, passwords and limits were chosen
          newest,   \* the newest of them that was saved, by table
          decided,  \* the status the last UpdateUserStatus saved
          tries,    \* wrong PINs since the count was last cleared
          shaken    \* tables on which calls overlapped or a save failed

recordVars == <<row, work, issued, newest, decided, tries, shaken>>

Table == {"user", "merchant", "admin", "settings"}

\* The tables with a column that must not fall back to an older version.
Versioned == Table \ {"user"}

RecordsInit ==
  /\ row = [user     |-> [pin |-> None, fails |-> 0, locked |-> FALSE,
                          active |-> TRUE, name |-> CHOOSE n \in Name : TRUE],
            merchant |-> [version |-> 0, active |-> TRUE, text |-> CHOOSE t \in Text : TRUE,
                          ips |-> {}, fee |-> CHOOSE f \in Fee : TRUE],
            admin    |-> [version |-> 0, login |-> FALSE],
            settings |-> [version |-> 0, text |-> CHOOSE t \in Text : TRUE]]
  /\ work = [c \in Call |-> None]
  /\ issued = 0
  /\ newest = [t \in Versioned |-> 0]
  /\ decided = TRUE
  /\ tries = 0
  /\ shaken = {}

-----------------------------------------------------------------------------
Busy(t) == \E c \in Call : work[c] # None /\ work[c].table = t

\* FindByID and what the call does to its copy.
Find(c, t, purpose, copy) ==
  /\ work[c] = None
  /\ work' = [work EXCEPT ![c] = [table |-> t, purpose |-> purpose, copy |-> copy]]
  /\ shaken' = IF Busy(t) THEN shaken \union {t} ELSE shaken
  /\ UNCHANGED <<row, newest, decided>>

\* Update: every column of the copy.
Save(c) ==
  /\ work[c] # None
  /\ LET w == work[c]
     IN  /\ row' = [row EXCEPT ![w.table] = w.copy]
         /\ newest' = IF w.purpose = "version" /\ w.copy.version > newest[w.table]
                        THEN [newest EXCEPT ![w.table] = w.copy.version] ELSE newest
         /\ decided' = IF w.table = "user" /\ w.purpose = "status"
                         THEN w.copy.active ELSE decided
  /\ work' = [work EXCEPT ![c] = None]
  /\ UNCHANGED <<issued, tries, shaken>>

\* VerifyPIN and AuthMiddleware ignore the error, the others report it.
SaveFails(c) ==
  /\ Faults
  /\ work[c] # None
  /\ work' = [work EXCEPT ![c] = None]
  /\ shaken' = shaken \union {work[c].table}
  /\ UNCHANGED <<row, issued, newest, decided, tries>>

-----------------------------------------------------------------------------
(* users. *)

\* The name in Telegram is not the one in the row; the bot serves the active.
AuthMiddleware(c) ==
  \E n \in Name \ {row.user.name} :
    /\ row.user.active
    /\ Find(c, "user", "name", [row.user EXCEPT !.name = n])
    /\ UNCHANGED <<issued, tries>>

SetPIN(c) ==
  \E p \in Pin :
    /\ Find(c, "user", "pin", [row.user EXCEPT !.pin = p, !.fails = 0, !.locked = FALSE])
    /\ tries' = 0
    /\ UNCHANGED issued

\* Faulty variant: the count may pass the limit before the row is locked.
WrongPINOneMore(c) ==
  /\ row.user.fails < MaxEntries /\ tries < MaxEntries
  /\ Find(c, "user", "verify",
          [row.user EXCEPT !.fails = @ + 1, !.locked = row.user.fails + 1 > MaxFail])
  /\ tries' = tries + 1
  /\ UNCHANGED issued

\* The entry that reaches the limit locks.  The count outlives the lock, so
\* after it one wrong entry is enough.
WrongPIN(c) ==
  /\ row.user.fails < MaxEntries /\ tries < MaxEntries
  /\ Find(c, "user", "verify",
          [row.user EXCEPT !.fails = @ + 1, !.locked = row.user.fails + 1 >= MaxFail])
  /\ tries' = tries + 1
  /\ UNCHANGED issued

\* Nothing is saved when there is nothing to clear.
RightPIN(c) ==
  /\ row.user.fails > 0
  /\ Find(c, "user", "verify", [row.user EXCEPT !.fails = 0, !.locked = FALSE])
  /\ tries' = 0
  /\ UNCHANGED issued

VerifyPIN(c) ==
  /\ row.user.pin # None
  /\ ~row.user.locked
  /\ \E p \in Pin : IF p = row.user.pin THEN RightPIN(c) ELSE WrongPIN(c)

\* The time passes for the row and for every copy of it.
LockEnds ==
  /\ row.user.locked
  /\ row' = [row EXCEPT !.user.locked = FALSE]
  /\ work' = [c \in Call |-> IF work[c] # None /\ work[c].table = "user"
                               THEN [work[c] EXCEPT !.copy.locked = FALSE] ELSE work[c]]
  /\ tries' = 0
  /\ UNCHANGED <<issued, newest, decided, shaken>>

UpdateUserStatus(c) ==
  \E active \in BOOLEAN :
    /\ Find(c, "user", "status", [row.user EXCEPT !.active = active])
    /\ UNCHANGED <<issued, tries>>

ResetUserPIN(c) ==
  /\ Find(c, "user", "pin", [row.user EXCEPT !.pin = None, !.fails = 0, !.locked = FALSE])
  /\ tries' = 0
  /\ UNCHANGED issued

-----------------------------------------------------------------------------
(* merchants, admin_users and user_settings.  A version stands for the     *)
(* pair of API key and secret, which are generated together, for a         *)
(* password, or for the limit below which no PIN is asked.                 *)

\* A value that the column never had before.
Generate == issued < MaxVersion /\ issued' = issued + 1

RefreshSecret(c) ==
  /\ Generate
  /\ Find(c, "merchant", "version", [row.merchant EXCEPT !.version = issued + 1])
  /\ UNCHANGED tries

ChangePassword(c) ==
  /\ Generate
  /\ Find(c, "admin", "version", [row.admin EXCEPT !.version = issued + 1])
  /\ UNCHANGED tries

UpdateSmallFreeLimit(c) ==
  /\ Generate
  /\ Find(c, "settings", "version", [row.settings EXCEPT !.version = issued + 1])
  /\ UNCHANGED tries

UpdateLanguage(c) ==
  \E t \in Text :
    /\ Find(c, "settings", "text", [row.settings EXCEPT !.text = t])
    /\ UNCHANGED <<issued, tries>>

\* The time of the login is saved with the rest of the row.
Authenticate(c) ==
  /\ Find(c, "admin", "login", [row.admin EXCEPT !.login = TRUE])
  /\ UNCHANGED <<issued, tries>>

\* The owner's; the administrator's differs in what is logged.
ToggleStatus(c) ==
  /\ Find(c, "merchant", "status", [row.merchant EXCEPT !.active = ~@])
  /\ UNCHANGED <<issued, tries>>

\* UpdateName, UpdateWebhook and UpdateLogo: a column each.
UpdateText(c) ==
  \E t \in Text :
    /\ Find(c, "merchant", "text", [row.merchant EXCEPT !.text = t])
    /\ UNCHANGED <<issued, tries>>

UpdateFeeRate(c) ==
  \E f \in Fee :
    /\ Find(c, "merchant", "fee", [row.merchant EXCEPT !.fee = f])
    /\ UNCHANGED <<issued, tries>>

AddIPWhitelist(c) ==
  \E ip \in Ip \ row.merchant.ips :
    /\ Find(c, "merchant", "ip", [row.merchant EXCEPT !.ips = @ \union {ip}])
    /\ UNCHANGED <<issued, tries>>

RemoveIPWhitelist(c) ==
  \E ip \in row.merchant.ips :
    /\ Find(c, "merchant", "ip", [row.merchant EXCEPT !.ips = @ \ {ip}])
    /\ UNCHANGED <<issued, tries>>

-----------------------------------------------------------------------------
UserCall(c)     == AuthMiddleware(c) \/ SetPIN(c) \/ VerifyPIN(c)
UserReview(c)   == UpdateUserStatus(c) \/ ResetUserPIN(c)
MerchantCall(c) == \/ RefreshSecret(c) \/ ToggleStatus(c) \/ UpdateText(c)
                   \/ AddIPWhitelist(c) \/ RemoveIPWhitelist(c)
MerchantReview(c) == ToggleStatus(c) \/ UpdateFeeRate(c)
AdminCall(c)    == Authenticate(c) \/ ChangePassword(c)
SettingsCall(c) == UpdateSmallFreeLimit(c) \/ UpdateLanguage(c)
================================================================================
