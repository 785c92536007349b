-------------------------------- MODULE Upkeep --------------------------------
(***************************************************************************)
(* The rows of users, merchants, administrators and settings, the exchange *)
(* rate with its cache, and the request counter: what holds as long as     *)
(* calls do not overlap, and what the passing of time puts right.          *)
(***************************************************************************)
EXTENDS Records, ExchangeRates, RateLimit

CONSTANT Use    \* bound: which part moves in one behaviour

Part == {"user", "review", "merchant", "merchant review", "admin", "settings", "rates", "limit"}

User == [pin : Pin \union {None}, fails : 0 .. MaxEntries, locked : BOOLEAN,
         active : BOOLEAN, name : Name]

Merchant == [version : 0 .. MaxVersion, active : BOOLEAN, text : Text, ips : SUBSET Ip,
             fee : Fee]

Admin == [version : 0 .. MaxVersion, login : BOOLEAN]

Settings == [version : 0 .. MaxVersion, text : Text]

\* Whose copy a call may hold between reading a row and saving it, and why.
Purpose == {"name", "pin", "verify", "status", "version", "text", "fee", "ip", "login"}

Work == LET Copy(t, R) == [table : {t}, purpose : Purpose, copy : R]
        IN  Copy("user", User) \union Copy("merchant", Merchant)
              \union Copy("admin", Admin) \union Copy("settings", Settings)

ASSUME UpkeepAssumption ==
  /\ Use \subseteq SUBSET Part
  /\ None \notin Work

VARIABLE using

upkeepVars == <<recordVars, rateVars, limitVars, using>>

UpkeepInit ==
  /\ RecordsInit
  /\ RatesInit
  /\ LimitInit
  /\ using \in Use
  /\ "rates" \notin using => rate = NoRate

RecordsNext ==
  \/ \E c \in Call :
       \/ "user" \in using     /\ UserCall(c)
       \/ "review" \in using   /\ UserReview(c)
       \/ "merchant" \in using /\ MerchantCall(c)
       \/ "merchant review" \in using /\ MerchantReview(c)
       \/ "admin" \in using    /\ AdminCall(c)
       \/ "settings" \in using /\ SettingsCall(c)
       \/ Save(c)
       \/ SaveFails(c)
  \/ LockEnds

UpkeepNext ==
  \/ RecordsNext /\ UNCHANGED <<rateVars, limitVars, using>>
  \/ "rates" \in using /\ RatesNext /\ UNCHANGED <<recordVars, limitVars, using>>
  \/ "limit" \in using /\ LimitNext /\ UNCHANGED <<recordVars, rateVars, using>>

UpkeepSpec == UpkeepInit /\ [][UpkeepNext]_upkeepVars

(* Time passes: Redis drops keys, locks end, and a command that was sent   *)
(* is carried out or lost.                                                 *)
UpkeepFairSpec ==
  /\ UpkeepSpec
  /\ WF_recordVars(LockEnds)
  /\ WF_rateVars(CacheExpires)
  /\ WF_limitVars(SetExpiry \/ ExpiryIsLost)
  /\ WF_limitVars(WindowEnds)

-----------------------------------------------------------------------------
UpkeepTypeOK ==
  /\ row \in [user : User, merchant : Merchant, admin : Admin, settings : Settings]
  /\ work \in [Call -> Work \union {None}]
  /\ newest \in [Versioned -> 0 .. MaxVersion]
  /\ issued \in 0 .. MaxVersion
  /\ tries \in 0 .. MaxEntries
  /\ rate = NoRate \/ rate \in [price : Price, spread : Spread]
  /\ count \in 0 .. MaxCount
  /\ (ttl = "none") <=> (count = 0)

(* As long as no two calls on a row overlap and none of their saves fails, *)
(* a PIN is tried at most MaxFail times before the row is locked, however  *)
(* names, statuses and PINs are changed between the tries; a user keeps    *)
(* the status the administrator gave him; and the secret of a merchant,    *)
(* the password of an administrator or the free limit that was set last is *)
(* the one that counts.  (Overlapping calls undo any of these: each saves  *)
(* the row as it read it.)                                                 *)
KeptUnlessShaken ==
  /\ "user" \notin shaken => tries <= MaxFail /\ row.user.active = decided
  /\ \A t \in Versioned \ shaken : row[t].version = newest[t]

(* A user who is blocked is served again, unless the expiry of the counter *)
(* was lost; a locked PIN can be tried again; and an entry that no longer  *)
(* says what the row says is not used for ever, though nobody updates the  *)
(* row again and a handler may fill in what it read before an update.      *)
TimeHeals ==
  /\ count > MaxRequests ~> count = 0 \/ ttl = "lost"
  /\ row.user.locked ~> ~row.user.locked
  /\ cache # NoRate ~> cache = NoRate \/ cache.quote = rate
================================================================================
