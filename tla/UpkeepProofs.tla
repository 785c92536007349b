----------------------------- MODULE UpkeepProofs -----------------------------
(***************************************************************************)
(* Proofs about Upkeep: what its rows keep as long as no two calls on a    *)
(* row overlap and no save fails.                                          *)
(***************************************************************************)
EXTENDS Upkeep, TLAPS

\* The part of the type invariant that is about the rows.
RowsTypeOK ==
  /\ row \in [user : User, merchant : Merchant, admin : Admin, settings : Settings]
  /\ work \in [Call -> Work \union {None}]
  /\ newest \in [Versioned -> 0 .. MaxVersion]
  /\ issued \in 0 .. MaxVersion
  /\ tries \in 0 .. MaxEntries

\* The count in a row and the n wrong PINs that were entered: they differ
\* only once a lock has ended.
PinRight(n, r) ==
  /\ r.locked => r.fails >= MaxFail
  /\ ~r.locked => \/ n = 0 /\ r.fails >= MaxFail
                  \/ n = r.fails /\ r.fails < MaxFail

Holds(c, t) == work[c] # None /\ work[c].table = t

OnlyOne(t) == \A c, d \in Call : Holds(c, t) /\ Holds(d, t) => c = d

\* While a call holds a copy, the copy is what counts.
UserKept ==
  /\ OnlyOne("user")
  /\ tries <= MaxFail
  /\ row.user.active = decided
  /\ (\A c \in Call : ~Holds(c, "user")) => PinRight(tries, row.user)
  /\ \A c \in Call : Holds(c, "user") =>
       /\ PinRight(tries, work[c].copy)
       /\ work[c].purpose # "status" => work[c].copy.active = decided
       /\ row.user.locked /\ ~work[c].copy.locked => tries = 0

\* A new version is newer than any that was saved.
VersionKept(t) ==
  /\ OnlyOne(t)
  /\ row[t].version = newest[t]
  /\ newest[t] <= issued
  /\ \A c \in Call : Holds(c, t) =>
       /\ work[c].copy.version <= issued
       /\ IF work[c].purpose = "version" THEN work[c].copy.version > newest[t]
                                         ELSE work[c].copy.version = newest[t]

Kept ==
  /\ "user" \notin shaken => UserKept
  /\ \A t \in Versioned \ shaken : VersionKept(t)

\* How a call may begin: it reads a row and holds a copy it changed.
Opens(c, t, p, r) ==
  /\ Find(c, t, p, r)
  /\ t \in Table /\ p \in Purpose /\ [table |-> t, purpose |-> p, copy |-> r] \in Work
  /\ issued' \in 0 .. MaxVersion /\ tries' \in 0 .. MaxEntries
  /\ issued' = issued \/ issued' = issued + 1
  /\ t = "user" => /\ p # "status" => r.active = row.user.active
                   /\ tries <= MaxFail /\ PinRight(tries, row.user) => tries' <= MaxFail /\ PinRight(tries', r)
                   /\ row.user.locked /\ ~r.locked => tries' = 0
  /\ t # "user" => /\ tries' = tries
                   /\ IF p = "version" THEN issued' = issued + 1 /\ r.version = issued'
                                       ELSE r.version = row[t].version

-----------------------------------------------------------------------------
(* Every call begins in this way. *)

\* A call on the user row opens with a typed copy that counts the tries.
LEMMA UserCopies ==
  ASSUME RowsTypeOK, NEW c \in Call, NEW p \in Purpose, NEW r \in User, Find(c, "user", p, r),
         issued' = issued, tries' \in 0 .. MaxEntries,
         p = "status" \/ r.active = row.user.active,
         tries <= MaxFail /\ PinRight(tries, row.user) => tries' <= MaxFail /\ PinRight(tries', r),
         row.user.locked /\ ~r.locked => tries' = 0
  PROVE  Opens(c, "user", p, r)
<1>1. [table |-> "user", purpose |-> p, copy |-> r] \in Work
  BY DEF Work
<1> QED
  BY <1>1 DEF Opens, RowsTypeOK, Table

\* AuthMiddleware, SetPIN, VerifyPIN and the administrator's calls open so.
LEMMA UserOpens ==
  ASSUME RowsTypeOK, NEW c \in Call, UserCall(c) \/ UserReview(c)
  PROVE  \E p, r : Opens(c, "user", p, r)
<1> USE RecordsAssumption
<1>0. row.user \in User /\ issued \in 0 .. MaxVersion /\ tries \in 0 .. MaxEntries
  BY DEF RowsTypeOK
<1>6. /\ 0 \in 0 .. MaxEntries /\ FALSE \in BOOLEAN /\ None \in Pin \union {None}
      /\ {"name", "pin", "verify", "status"} \subseteq Purpose
  BY DEF Purpose
<1>1. CASE AuthMiddleware(c)
  <2>1. PICK n \in Name : /\ Find(c, "user", "name", [row.user EXCEPT !.name = n])
                          /\ issued' = issued /\ tries' = tries
    BY <1>1 DEF AuthMiddleware
  <2>2. PICK r : r = [row.user EXCEPT !.name = n]
    OBVIOUS
  <2>3. /\ r \in User /\ r.active = row.user.active
        /\ r.locked = row.user.locked /\ r.fails = row.user.fails
    BY <1>0, <2>2 DEF User
  <2>4. tries <= MaxFail /\ PinRight(tries, row.user) => tries' <= MaxFail /\ PinRight(tries', r)
    BY <2>1, <2>3 DEF PinRight
  <2>5. Find(c, "user", "name", r) /\ issued' = issued /\ tries' \in 0 .. MaxEntries
    BY <1>0, <2>1, <2>2
  <2>6. row.user.locked /\ ~r.locked => tries' = 0
    BY <2>1, <2>3
  <2>7. Opens(c, "user", "name", r)
    BY <1>6, <2>3, <2>4, <2>5, <2>6, UserCopies
  <2> QED
    BY <2>7
<1>2. CASE SetPIN(c) \/ ResetUserPIN(c)
  <2>1. PICK k \in Pin \union {None} :
          /\ Find(c, "user", "pin", [row.user EXCEPT !.pin = k, !.fails = 0, !.locked = FALSE])
          /\ tries' = 0 /\ issued' = issued
    BY <1>2 DEF SetPIN, ResetUserPIN
  <2>2. PICK r : r = [row.user EXCEPT !.pin = k, !.fails = 0, !.locked = FALSE]
    OBVIOUS
  <2>3. r \in User /\ r.active = row.user.active /\ ~r.locked /\ r.fails = 0
    <3>1. r = [pin |-> k, fails |-> 0, locked |-> FALSE,
                   active |-> row.user.active, name |-> row.user.name]
      BY <1>0, <2>2 DEF User
    <3> QED
      BY <1>0, <1>6, <3>1 DEF User
  <2>4. tries' <= MaxFail /\ PinRight(tries', r)
    BY <2>1, <2>3 DEF PinRight
  <2>5. Find(c, "user", "pin", r) /\ issued' = issued /\ tries' \in 0 .. MaxEntries
    BY <1>0, <2>1, <2>2
  <2>6. row.user.locked /\ ~r.locked => tries' = 0
    BY <2>1, <2>3
  <2>7. Opens(c, "user", "pin", r)
    BY <1>6, <2>3, <2>4, <2>5, <2>6, UserCopies
  <2> QED
    BY <2>7
<1>3. CASE WrongPIN(c) /\ ~row.user.locked
  <2>1. PICK r : r = [row.user EXCEPT !.fails = @ + 1, !.locked = row.user.fails + 1 >= MaxFail]
    OBVIOUS
  <2>2. /\ Find(c, "user", "verify", r) /\ tries' = tries + 1 /\ issued' = issued
        /\ row.user.fails < MaxEntries /\ tries < MaxEntries
    BY <1>3, <2>1 DEF WrongPIN
  <2>3. row.user.fails \in Nat /\ row.user.fails + 1 \in 0 .. MaxEntries /\ tries' \in 0 .. MaxEntries
    BY <1>0, <2>2 DEF User
  <2>4. PICK b : b = (row.user.fails + 1 >= MaxFail)
    OBVIOUS
  <2>5. r \in User /\ r.active = row.user.active /\ r.fails = row.user.fails + 1 /\ (r.locked <=> b)
    <3>1. b \in BOOLEAN
      BY <2>4
    <3>2. r = [row.user EXCEPT !.fails = row.user.fails + 1, !.locked = b]
      BY <2>1, <2>4
    <3>3. r = [pin |-> row.user.pin, fails |-> row.user.fails + 1, locked |-> b,
               active |-> row.user.active, name |-> row.user.name]
      BY <1>0, <3>1, <3>2 DEF User
    <3> QED
      BY <1>0, <2>3, <3>1, <3>3 DEF User
  <2>6. r.locked <=> row.user.fails + 1 >= MaxFail
    BY <2>4, <2>5
  <2>7. tries <= MaxFail /\ PinRight(tries, row.user) => tries' <= MaxFail /\ PinRight(tries', r)
    BY <1>0, <1>3, <2>2, <2>3, <2>5, <2>6 DEF PinRight
  <2>8. Opens(c, "user", "verify", r)
    BY <1>3, <1>6, <2>2, <2>3, <2>5, <2>7, UserCopies
  <2> QED
    BY <2>8
<1>4. CASE RightPIN(c)
  <2>1. PICK r : r = [row.user EXCEPT !.fails = 0, !.locked = FALSE]
    OBVIOUS
  <2>2. Find(c, "user", "verify", r) /\ tries' = 0 /\ issued' = issued
    BY <1>4, <2>1 DEF RightPIN
  <2>3. r \in User /\ r.active = row.user.active /\ ~r.locked /\ r.fails = 0
    <3>1. r = [pin |-> row.user.pin, fails |-> 0, locked |-> FALSE,
                   active |-> row.user.active, name |-> row.user.name]
      BY <1>0, <2>1 DEF User
    <3> QED
      BY <1>0, <1>6, <3>1 DEF User
  <2>4. tries' <= MaxFail /\ PinRight(tries', r)
    BY <2>2, <2>3 DEF PinRight
  <2>5. Opens(c, "user", "verify", r)
    BY <1>6, <2>2, <2>3, <2>4, UserCopies
  <2> QED
    BY <2>5
<1>5. CASE UpdateUserStatus(c)
  <2>1. PICK a \in BOOLEAN : /\ Find(c, "user", "status", [row.user EXCEPT !.active = a])
                             /\ issued' = issued /\ tries' = tries
    BY <1>5 DEF UpdateUserStatus
  <2>2. PICK r : r = [row.user EXCEPT !.active = a]
    OBVIOUS
  <2>3. r \in User /\ r.locked = row.user.locked /\ r.fails = row.user.fails
    BY <1>0, <2>2 DEF User
  <2>4. tries <= MaxFail /\ PinRight(tries, row.user) => tries' <= MaxFail /\ PinRight(tries', r)
    BY <2>1, <2>3 DEF PinRight
  <2>5. Find(c, "user", "status", r) /\ issued' = issued /\ tries' \in 0 .. MaxEntries
    BY <1>0, <2>1, <2>2
  <2>6. row.user.locked /\ ~r.locked => tries' = 0
    BY <2>1, <2>3
  <2>7. Opens(c, "user", "status", r)
    BY <1>6, <2>3, <2>4, <2>5, <2>6, UserCopies
  <2> QED
    BY <2>7
<1> QED
  BY <1>1, <1>2, <1>3, <1>4, <1>5 DEF UserCall, UserReview, VerifyPIN

\* A call on another row takes the version it read, or a fresh one.
LEMMA VersionCopies ==
  ASSUME RowsTypeOK, NEW c \in Call, NEW t \in Versioned, NEW p \in Purpose, NEW r,
         Find(c, t, p, r), [table |-> t, purpose |-> p, copy |-> r] \in Work, tries' = tries,
         \/ p = "version" /\ Generate /\ r.version = issued + 1
         \/ p # "version" /\ issued' = issued /\ r.version = row[t].version
  PROVE  Opens(c, t, p, r)
<1>1. issued' \in 0 .. MaxVersion /\ tries' \in 0 .. MaxEntries
  BY RecordsAssumption DEF RowsTypeOK, Generate
<1> QED
  BY <1>1 DEF Opens, Versioned, Table, Generate

\* The calls of MerchantService and AdminMerchantHandler open so.
LEMMA MerchantOpens ==
  ASSUME RowsTypeOK, NEW c \in Call, MerchantCall(c) \/ MerchantReview(c)
  PROVE  \E p, r : Opens(c, "merchant", p, r)
<1>0. /\ row.merchant \in Merchant /\ issued \in 0 .. MaxVersion
      /\ "merchant" \in Versioned
  BY DEF RowsTypeOK, Versioned, Table
<1>1. ASSUME NEW r \in Merchant, NEW p \in Purpose PROVE [table |-> "merchant", purpose |-> p, copy |-> r] \in Work
  BY DEF Work
<1>2. CASE RefreshSecret(c)
  <2>1. /\ Find(c, "merchant", "version", [row.merchant EXCEPT !.version = issued + 1])
        /\ Generate /\ tries' = tries
    BY <1>2 DEF RefreshSecret
  <2>2. PICK r : r = [row.merchant EXCEPT !.version = issued + 1]
    OBVIOUS
  <2>3. r \in Merchant /\ r.version = issued + 1
    BY <1>0, <2>1, <2>2, RecordsAssumption DEF Merchant, Generate
  <2>4. Find(c, "merchant", "version", r) /\ "version" \in Purpose
    BY <2>1, <2>2 DEF Purpose
  <2>5. [table |-> "merchant", purpose |-> "version", copy |-> r] \in Work
    BY <1>1, <2>3, <2>4
  <2>6. Opens(c, "merchant", "version", r)
    BY <1>0, <2>1, <2>3, <2>4, <2>5, VersionCopies
  <2> QED
    BY <2>6
<1>3. CASE ToggleStatus(c)
  <2>1. /\ Find(c, "merchant", "status", [row.merchant EXCEPT !.active = ~@])
        /\ issued' = issued /\ tries' = tries
    BY <1>3 DEF ToggleStatus
  <2>2. PICK r : r = [row.merchant EXCEPT !.active = ~@]
    OBVIOUS
  <2>3. r \in Merchant /\ r.version = row.merchant.version
    BY <1>0, <2>1, <2>2 DEF Merchant
  <2>4. Find(c, "merchant", "status", r) /\ "status" \in Purpose
    BY <2>1, <2>2 DEF Purpose
  <2>5. [table |-> "merchant", purpose |-> "status", copy |-> r] \in Work
    BY <1>1, <2>3, <2>4
  <2>6. Opens(c, "merchant", "status", r)
    BY <1>0, <2>1, <2>3, <2>4, <2>5, VersionCopies
  <2> QED
    BY <2>6
<1>4. CASE UpdateText(c)
  <2>1. PICK x \in Text : /\ Find(c, "merchant", "text", [row.merchant EXCEPT !.text = x])
                       /\ issued' = issued /\ tries' = tries
    BY <1>4 DEF UpdateText
  <2>2. PICK r : r = [row.merchant EXCEPT !.text = x]
    OBVIOUS
  <2>3. r \in Merchant /\ r.version = row.merchant.version
    BY <1>0, <2>1, <2>2 DEF Merchant
  <2>4. Find(c, "merchant", "text", r) /\ "text" \in Purpose
    BY <2>1, <2>2 DEF Purpose
  <2>5. [table |-> "merchant", purpose |-> "text", copy |-> r] \in Work
    BY <1>1, <2>3, <2>4
  <2>6. Opens(c, "merchant", "text", r)
    BY <1>0, <2>1, <2>3, <2>4, <2>5, VersionCopies
  <2> QED
    BY <2>6
<1>5. CASE UpdateFeeRate(c)
  <2>1. PICK f \in Fee : /\ Find(c, "merchant", "fee", [row.merchant EXCEPT !.fee = f])
                       /\ issued' = issued /\ tries' = tries
    BY <1>5 DEF UpdateFeeRate
  <2>2. PICK r : r = [row.merchant EXCEPT !.fee = f]
    OBVIOUS
  <2>3. r \in Merchant /\ r.version = row.merchant.version
    BY <1>0, <2>1, <2>2 DEF Merchant
  <2>4. Find(c, "merchant", "fee", r) /\ "fee" \in Purpose
    BY <2>1, <2>2 DEF Purpose
  <2>5. [table |-> "merchant", purpose |-> "fee", copy |-> r] \in Work
    BY <1>1, <2>3, <2>4
  <2>6. Opens(c, "merchant", "fee", r)
    BY <1>0, <2>1, <2>3, <2>4, <2>5, VersionCopies
  <2> QED
    BY <2>6
<1>6. CASE AddIPWhitelist(c)
  <2>1. PICK a \in Ip \ row.merchant.ips : /\ Find(c, "merchant", "ip", [row.merchant EXCEPT !.ips = @ \union {a}])
                       /\ issued' = issued /\ tries' = tries
    BY <1>6 DEF AddIPWhitelist
  <2>2. PICK r : r = [row.merchant EXCEPT !.ips = @ \union {a}]
    OBVIOUS
  <2>3. r \in Merchant /\ r.version = row.merchant.version
    BY <1>0, <2>1, <2>2 DEF Merchant
  <2>4. Find(c, "merchant", "ip", r) /\ "ip" \in Purpose
    BY <2>1, <2>2 DEF Purpose
  <2>5. [table |-> "merchant", purpose |-> "ip", copy |-> r] \in Work
    BY <1>1, <2>3, <2>4
  <2>6. Opens(c, "merchant", "ip", r)
    BY <1>0, <2>1, <2>3, <2>4, <2>5, VersionCopies
  <2> QED
    BY <2>6
<1>7. CASE RemoveIPWhitelist(c)
  <2>1. PICK a \in row.merchant.ips : /\ Find(c, "merchant", "ip", [row.merchant EXCEPT !.ips = @ \ {a}])
                       /\ issued' = issued /\ tries' = tries
    BY <1>7 DEF RemoveIPWhitelist
  <2>2. PICK r : r = [row.merchant EXCEPT !.ips = @ \ {a}]
    OBVIOUS
  <2>3. r \in Merchant /\ r.version = row.merchant.version
    BY <1>0, <2>1, <2>2 DEF Merchant
  <2>4. Find(c, "merchant", "ip", r) /\ "ip" \in Purpose
    BY <2>1, <2>2 DEF Purpose
  <2>5. [table |-> "merchant", purpose |-> "ip", copy |-> r] \in Work
    BY <1>1, <2>3, <2>4
  <2>6. Opens(c, "merchant", "ip", r)
    BY <1>0, <2>1, <2>3, <2>4, <2>5, VersionCopies
  <2> QED
    BY <2>6
<1> QED
  BY <1>2, <1>3, <1>4, <1>5, <1>6, <1>7 DEF MerchantCall, MerchantReview

\* Authenticate and ChangePassword open so.
LEMMA AdminOpens ==
  ASSUME RowsTypeOK, NEW c \in Call, AdminCall(c)
  PROVE  \E p, r : Opens(c, "admin", p, r)
<1>0. /\ row.admin \in Admin /\ issued \in 0 .. MaxVersion
      /\ "admin" \in Versioned
  BY DEF RowsTypeOK, Versioned, Table
<1>1. ASSUME NEW r \in Admin, NEW p \in Purpose PROVE [table |-> "admin", purpose |-> p, copy |-> r] \in Work
  BY DEF Work
<1>2. CASE Authenticate(c)
  <2>1. /\ Find(c, "admin", "login", [row.admin EXCEPT !.login = TRUE])
        /\ issued' = issued /\ tries' = tries
    BY <1>2 DEF Authenticate
  <2>2. PICK r : r = [row.admin EXCEPT !.login = TRUE]
    OBVIOUS
  <2>3. r \in Admin /\ r.version = row.admin.version
    BY <1>0, <2>1, <2>2 DEF Admin
  <2>4. Find(c, "admin", "login", r) /\ "login" \in Purpose
    BY <2>1, <2>2 DEF Purpose
  <2>5. [table |-> "admin", purpose |-> "login", copy |-> r] \in Work
    BY <1>1, <2>3, <2>4
  <2>6. Opens(c, "admin", "login", r)
    BY <1>0, <2>1, <2>3, <2>4, <2>5, VersionCopies
  <2> QED
    BY <2>6
<1>3. CASE ChangePassword(c)
  <2>1. /\ Find(c, "admin", "version", [row.admin EXCEPT !.version = issued + 1])
        /\ Generate /\ tries' = tries
    BY <1>3 DEF ChangePassword
  <2>2. PICK r : r = [row.admin EXCEPT !.version = issued + 1]
    OBVIOUS
  <2>3. r \in Admin /\ r.version = issued + 1
    BY <1>0, <2>1, <2>2, RecordsAssumption DEF Admin, Generate
  <2>4. Find(c, "admin", "version", r) /\ "version" \in Purpose
    BY <2>1, <2>2 DEF Purpose
  <2>5. [table |-> "admin", purpose |-> "version", copy |-> r] \in Work
    BY <1>1, <2>3, <2>4
  <2>6. Opens(c, "admin", "version", r)
    BY <1>0, <2>1, <2>3, <2>4, <2>5, VersionCopies
  <2> QED
    BY <2>6
<1> QED
  BY <1>2, <1>3 DEF AdminCall

\* UpdateSmallFreeLimit and UpdateLanguage open so.
LEMMA SettingsOpens ==
  ASSUME RowsTypeOK, NEW c \in Call, SettingsCall(c)
  PROVE  \E p, r : Opens(c, "settings", p, r)
<1>0. /\ row.settings \in Settings /\ issued \in 0 .. MaxVersion
      /\ "settings" \in Versioned
  BY DEF RowsTypeOK, Versioned, Table
<1>1. ASSUME NEW r \in Settings, NEW p \in Purpose PROVE [table |-> "settings", purpose |-> p, copy |-> r] \in Work
  BY DEF Work
<1>2. CASE UpdateSmallFreeLimit(c)
  <2>1. /\ Find(c, "settings", "version", [row.settings EXCEPT !.version = issued + 1])
        /\ Generate /\ tries' = tries
    BY <1>2 DEF UpdateSmallFreeLimit
  <2>2. PICK r : r = [row.settings EXCEPT !.version = issued + 1]
    OBVIOUS
  <2>3. r \in Settings /\ r.version = issued + 1
    BY <1>0, <2>1, <2>2, RecordsAssumption DEF Settings, Generate
  <2>4. Find(c, "settings", "version", r) /\ "version" \in Purpose
    BY <2>1, <2>2 DEF Purpose
  <2>5. [table |-> "settings", purpose |-> "version", copy |-> r] \in Work
    BY <1>1, <2>3, <2>4
  <2>6. Opens(c, "settings", "version", r)
    BY <1>0, <2>1, <2>3, <2>4, <2>5, VersionCopies
  <2> QED
    BY <2>6
<1>3. CASE UpdateLanguage(c)
  <2>1. PICK x \in Text : /\ Find(c, "settings", "text", [row.settings EXCEPT !.text = x])
                       /\ issued' = issued /\ tries' = tries
    BY <1>3 DEF UpdateLanguage
  <2>2. PICK r : r = [row.settings EXCEPT !.text = x]
    OBVIOUS
  <2>3. r \in Settings /\ r.version = row.settings.version
    BY <1>0, <2>1, <2>2 DEF Settings
  <2>4. Find(c, "settings", "text", r) /\ "text" \in Purpose
    BY <2>1, <2>2 DEF Purpose
  <2>5. [table |-> "settings", purpose |-> "text", copy |-> r] \in Work
    BY <1>1, <2>3, <2>4
  <2>6. Opens(c, "settings", "text", r)
    BY <1>0, <2>1, <2>3, <2>4, <2>5, VersionCopies
  <2> QED
    BY <2>6
<1> QED
  BY <1>2, <1>3 DEF SettingsCall

-----------------------------------------------------------------------------
(* No step disturbs what is kept. *)

\* What is true once a call has read its row: the row itself is untouched.
LEMMA AfterFind ==
  ASSUME RowsTypeOK, NEW c \in Call, NEW t, NEW p, NEW r, Opens(c, t, p, r)
  PROVE  /\ work'[c].table = t /\ work'[c].purpose = p /\ work'[c].copy = r
         /\ \A d \in Call \ {c} : work'[d] = work[d]
         /\ \A d \in Call, u \in Table : Holds(d, u)' <=> (d = c /\ u = t) \/ (d # c /\ Holds(d, u))
         /\ UNCHANGED <<row, newest, decided>> /\ shaken \subseteq shaken'
         /\ t \notin shaken' => \A d \in Call : ~Holds(d, t)
<1> DEFINE w == [table |-> t, purpose |-> p, copy |-> r]
<1>1. w # None
  BY UpkeepAssumption DEF Opens
<1>2. work[c] = None /\ work' = [work EXCEPT ![c] = w]
  BY DEF Opens, Find
<1>3. work'[c] = w /\ \A d \in Call \ {c} : work'[d] = work[d]
  BY <1>2 DEF RowsTypeOK
<1>4. t \notin shaken' => \A d \in Call : ~Holds(d, t)
  BY DEF Opens, Find, Busy, Holds
<1> QED
  BY <1>1, <1>2, <1>3, <1>4 DEF Opens, Find, Holds

\* A call that opens keeps the types.
LEMMA OpenKeepsTypes ==
  ASSUME RowsTypeOK, NEW c \in Call, NEW t, NEW p, NEW r, Opens(c, t, p, r)
  PROVE  RowsTypeOK'
BY DEF RowsTypeOK, Opens, Find

\* A call that opens alone on its row keeps what is kept.
LEMMA OpenKeeps ==
  ASSUME RowsTypeOK, Kept, NEW c \in Call, NEW t, NEW p, NEW r, Opens(c, t, p, r)
  PROVE  Kept'
<1>1. /\ work'[c].table = t /\ work'[c].purpose = p /\ work'[c].copy = r
      /\ \A d \in Call \ {c} : work'[d] = work[d]
      /\ \A d \in Call, u \in Table : Holds(d, u)' <=> (d = c /\ u = t) \/ (d # c /\ Holds(d, u))
      /\ UNCHANGED <<row, newest, decided>> /\ shaken \subseteq shaken'
      /\ t \notin shaken' => \A d \in Call : ~Holds(d, t)
      /\ t \in Table
  BY AfterFind DEF Opens
<1>2. ASSUME "user" \notin shaken' PROVE UserKept'
  <2>1. UserKept /\ "user" \in Table
    BY <1>1, <1>2 DEF Kept, Table
  <2>2. CASE t = "user"
    <3>1. \A d \in Call : Holds(d, "user")' <=> d = c
      BY <1>1, <1>2, <2>1, <2>2
    <3>2. PinRight(tries, row.user) /\ tries <= MaxFail /\ row.user.active = decided
      BY <1>1, <1>2, <2>1, <2>2 DEF UserKept
    <3>3. /\ p # "status" => r.active = row.user.active
          /\ tries' <= MaxFail /\ PinRight(tries', r)
          /\ row.user.locked /\ ~r.locked => tries' = 0
      BY <2>2, <3>2 DEF Opens
    <3> QED
      BY <1>1, <3>1, <3>2, <3>3 DEF UserKept, OnlyOne
  <2>3. CASE t # "user"
    <3>1. tries' = tries
      BY <2>3 DEF Opens
    <3>2. \A d \in Call : /\ Holds(d, "user")' <=> Holds(d, "user")
                          /\ Holds(d, "user") => work'[d] = work[d]
      BY <1>1, <2>1, <2>3 DEF Opens, Find, Holds
    <3> QED
      BY <1>1, <2>1, <3>1, <3>2 DEF UserKept, OnlyOne
  <2> QED
    BY <2>2, <2>3
<1>3. ASSUME NEW u \in Versioned, u \notin shaken' PROVE VersionKept(u)'
  <2>1. VersionKept(u) /\ u \in Table /\ u # "user"
    BY <1>1, <1>3 DEF Kept, Versioned, Table
  <2>2. issued \in Nat /\ newest[u] \in Nat /\ (issued' = issued \/ issued' = issued + 1)
    BY <1>3, RecordsAssumption DEF RowsTypeOK, Opens
  <2>3. CASE t = u
    <3>1. \A d \in Call : Holds(d, u)' <=> d = c
      BY <1>1, <1>3, <2>1, <2>3
    <3>2. row[u].version = newest[u] /\ newest[u] <= issued
      BY <2>1 DEF VersionKept
    <3>3. IF p = "version" THEN issued' = issued + 1 /\ r.version = issued' ELSE r.version = row[u].version
      BY <2>1, <2>3 DEF Opens
    <3> QED
      BY <1>1, <2>2, <3>1, <3>2, <3>3 DEF VersionKept, OnlyOne
  <2>4. CASE t # u
    <3>1. \A d \in Call : /\ Holds(d, u)' <=> Holds(d, u)
                          /\ Holds(d, u) => work'[d] = work[d]
      BY <1>1, <2>1, <2>4 DEF Opens, Find, Holds
    <3>2. \A d \in Call : Holds(d, u) => work[d].copy.version \in Nat
      BY <2>1, RecordsAssumption DEF RowsTypeOK, Holds, Work, Table, Merchant, Admin, Settings
    <3> QED
      BY <1>1, <2>1, <2>2, <3>1, <3>2 DEF VersionKept, OnlyOne
  <2> QED
    BY <2>3, <2>4
<1> QED
  BY <1>2, <1>3 DEF Kept

\* The rows that were read or are saved, with their types.
LEMMA WorkIsTyped ==
  ASSUME RowsTypeOK, NEW c \in Call, work[c] # None
  PROVE  /\ work[c].table \in Table
         /\ work[c].table = "user" => work[c].copy \in User
         /\ work[c].table = "merchant" => work[c].copy \in Merchant
         /\ work[c].table = "admin" => work[c].copy \in Admin
         /\ work[c].table = "settings" => work[c].copy \in Settings
BY DEF RowsTypeOK, Work, Table

\* Update writes a copy of the row's own type.
LEMMA SaveKeepsTypes ==
  ASSUME RowsTypeOK, NEW c \in Call, Save(c)
  PROVE  RowsTypeOK'
<1> DEFINE t == work[c].table  w == work[c].copy
<1>1. /\ issued' \in 0 .. MaxVersion /\ tries' \in 0 .. MaxEntries
      /\ work' \in [Call -> Work \union {None}]
  BY DEF RowsTypeOK, Save
<1>2. row' = [row EXCEPT ![t] = w] /\ work[c] # None
  BY DEF Save
<1>3. ASSUME t \in Versioned => w.version \in 0 .. MaxVersion PROVE newest' \in [Versioned -> 0 .. MaxVersion]
  BY <1>3 DEF Save, RowsTypeOK
<1>4. CASE t = "user"
  <2>1. row' = [row EXCEPT !.user = w] /\ w \in User /\ t \notin Versioned
    BY <1>2, <1>4, WorkIsTyped DEF Versioned
  <2> QED
    BY <1>1, <1>3, <2>1 DEF RowsTypeOK
<1>5. CASE t = "merchant"
  <2>1. row' = [row EXCEPT !.merchant = w] /\ w \in Merchant
    BY <1>2, <1>5, WorkIsTyped
  <2>2. w.version \in 0 .. MaxVersion
    BY <2>1 DEF Merchant
  <2> QED
    BY <1>1, <1>3, <2>1, <2>2 DEF RowsTypeOK
<1>6. CASE t = "admin"
  <2>1. row' = [row EXCEPT !.admin = w] /\ w \in Admin
    BY <1>2, <1>6, WorkIsTyped
  <2>2. w.version \in 0 .. MaxVersion
    BY <2>1 DEF Admin
  <2> QED
    BY <1>1, <1>3, <2>1, <2>2 DEF RowsTypeOK
<1>7. CASE t = "settings"
  <2>1. row' = [row EXCEPT !.settings = w] /\ w \in Settings
    BY <1>2, <1>7, WorkIsTyped
  <2>2. w.version \in 0 .. MaxVersion
    BY <2>1 DEF Settings
  <2> QED
    BY <1>1, <1>3, <2>1, <2>2 DEF RowsTypeOK
<1> QED
  BY <1>2, <1>4, <1>5, <1>6, <1>7, WorkIsTyped DEF Table

\* Update by the only call on the row: the copy that counted is the row.
LEMMA SaveKeeps ==
  ASSUME RowsTypeOK, Kept, NEW c \in Call, Save(c)
  PROVE  Kept'
<1> DEFINE t == work[c].table  w == work[c].copy
<1>1. /\ t \in Table /\ Holds(c, t) /\ work'[c] = None
      /\ \A d \in Call \ {c} : work'[d] = work[d]
      /\ \A d \in Call, u \in Table : Holds(d, u)' <=> d # c /\ Holds(d, u)
      /\ UNCHANGED <<issued, tries, shaken>>
  BY WorkIsTyped DEF Save, Holds, RowsTypeOK
<1>2. \A u \in Table : row'[u] = IF u = t THEN w ELSE row[u]
  BY <1>1 DEF Save, RowsTypeOK, Table
<1>3. ASSUME "user" \notin shaken PROVE UserKept'
  <2>1. UserKept /\ "user" \in Table
    BY <1>3 DEF Kept, Table
  <2>2. CASE t = "user"
    <3>1. \A d \in Call : ~Holds(d, "user")'
      BY <1>1, <2>1, <2>2 DEF UserKept, OnlyOne
    <3>2. row'.user = w
      BY <1>2, <2>1, <2>2
    <3>3. PinRight(tries, w) /\ tries <= MaxFail
          /\ (work[c].purpose # "status" => w.active = decided)
      BY <1>1, <2>1, <2>2 DEF UserKept
    <3>4. row'.user.active = decided'
      BY <2>2, <3>2, <3>3 DEF Save
    <3> QED
      BY <1>1, <3>1, <3>2, <3>3, <3>4 DEF UserKept, OnlyOne
  <2>3. CASE t # "user"
    <3>1. row'.user = row.user
      BY <1>2, <2>1, <2>3
    <3>2. decided' = decided
      BY <2>3 DEF Save
    <3>3. \A d \in Call : /\ Holds(d, "user")' <=> Holds(d, "user")
                          /\ Holds(d, "user") => work'[d] = work[d]
      BY <1>1, <2>1, <2>3 DEF Holds
    <3> QED
      BY <1>1, <2>1, <3>1, <3>2, <3>3 DEF UserKept, OnlyOne
  <2> QED
    BY <2>2, <2>3
<1>4. ASSUME NEW u \in Versioned, u \notin shaken PROVE VersionKept(u)'
  <2>1. VersionKept(u) /\ u \in Table
    BY <1>4 DEF Kept, Versioned
  <2>2. CASE t = u
    <3>1. \A d \in Call : ~Holds(d, u)'
      BY <1>1, <2>1, <2>2 DEF VersionKept, OnlyOne
    <3>2. row'[u] = w
      BY <1>2, <2>1, <2>2
    <3>3. w.version <= issued /\ newest[u] <= issued
          /\ IF work[c].purpose = "version" THEN w.version > newest[u] ELSE w.version = newest[u]
      BY <1>1, <2>1, <2>2 DEF VersionKept
    <3>4. newest'[u] = w.version
      BY <1>4, <2>2, <3>3 DEF Save, RowsTypeOK
    <3> QED
      BY <1>1, <3>1, <3>2, <3>3, <3>4 DEF VersionKept, OnlyOne
  <2>3. CASE t # u
    <3>1. row'[u] = row[u] /\ newest'[u] = newest[u]
      BY <1>2, <1>4, <2>1, <2>3 DEF Save, RowsTypeOK
    <3>2. \A d \in Call : /\ Holds(d, u)' <=> Holds(d, u)
                          /\ Holds(d, u) => work'[d] = work[d]
      BY <1>1, <2>1, <2>3 DEF Holds
    <3> QED
      BY <1>1, <2>1, <3>1, <3>2 DEF VersionKept, OnlyOne
  <2> QED
    BY <2>2, <2>3
<1> QED
  BY <1>1, <1>3, <1>4 DEF Kept

\* A failed save shakes its table and disturbs no other.
LEMMA SaveFailsKeeps ==
  ASSUME RowsTypeOK, Kept, NEW c \in Call, SaveFails(c)
  PROVE  RowsTypeOK' /\ Kept'
<1> DEFINE t == work[c].table
<1>1. /\ t \in Table /\ t \in shaken' /\ shaken \subseteq shaken'
      /\ \A d \in Call \ {c} : work'[d] = work[d]
      /\ work'[c] = None /\ \A u \in Table \ {t} : ~Holds(c, u)
      /\ UNCHANGED <<row, issued, newest, decided, tries>>
  BY WorkIsTyped DEF SaveFails, Holds, RowsTypeOK
<1>2. RowsTypeOK'
  BY DEF RowsTypeOK, SaveFails
<1>3. ASSUME "user" \notin shaken' PROVE UserKept'
  <2>1. UserKept /\ "user" \in Table \ {t}
    BY <1>1, <1>3 DEF Kept, Table
  <2>2. \A d \in Call : /\ Holds(d, "user")' <=> Holds(d, "user")
                        /\ Holds(d, "user") => work'[d] = work[d]
    BY <1>1, <2>1 DEF Holds
  <2>3. UNCHANGED <<row, decided, tries>>
    BY <1>1
  <2> QED
    BY <2>1, <2>2, <2>3 DEF UserKept, OnlyOne
<1>4. ASSUME NEW u \in Versioned, u \notin shaken' PROVE VersionKept(u)'
  <2>1. VersionKept(u) /\ u \in Table \ {t}
    BY <1>1, <1>4 DEF Kept, Versioned
  <2>2. \A d \in Call : /\ Holds(d, u)' <=> Holds(d, u)
                        /\ Holds(d, u) => work'[d] = work[d]
    BY <1>1, <2>1 DEF Holds
  <2>3. UNCHANGED <<row, issued, newest>>
    BY <1>1
  <2> QED
    BY <2>1, <2>2, <2>3 DEF VersionKept, OnlyOne
<1> QED
  BY <1>2, <1>3, <1>4 DEF Kept


\* The end of a lock starts the count again, in the row and in the copies.
LEMMA LockEndsKeeps ==
  ASSUME RowsTypeOK, Kept, LockEnds
  PROVE  RowsTypeOK' /\ Kept'
<1>1. /\ row' = [row EXCEPT !.user.locked = FALSE] /\ row.user.locked
      /\ tries' = 0 /\ UNCHANGED <<issued, newest, decided, shaken>>
      /\ row.user \in User
  BY DEF LockEnds, RowsTypeOK
<1>2. PICK r : r = [row.user EXCEPT !.locked = FALSE]
  OBVIOUS
<1>3. r \in User /\ ~r.locked /\ r.fails = row.user.fails /\ r.active = row.user.active
  BY <1>1, <1>2 DEF User
<1>4. row' = [row EXCEPT !.user = r]
  BY <1>1, <1>2 DEF RowsTypeOK
<1>5. row'.user = r /\ \A t \in Versioned : row'[t] = row[t]
  BY <1>4 DEF RowsTypeOK, Versioned, Table
<1>6. ASSUME NEW c \in Call, ~Holds(c, "user") PROVE work'[c] = work[c]
  BY <1>6 DEF LockEnds, Holds
<1>7. ASSUME NEW c \in Call, Holds(c, "user")
      PROVE  /\ work'[c] \in Work /\ Holds(c, "user")'
             /\ ~work'[c].copy.locked /\ work'[c].purpose = work[c].purpose
             /\ work'[c].copy.fails = work[c].copy.fails
             /\ work'[c].copy.active = work[c].copy.active
  <2>1. /\ work[c] # None /\ work[c].table = "user" /\ work[c].copy \in User
        /\ work[c].purpose \in Purpose
        /\ work[c] = [table |-> "user", purpose |-> work[c].purpose, copy |-> work[c].copy]
    BY <1>7 DEF Holds, RowsTypeOK, Work
  <2>2. work'[c] = [work[c] EXCEPT !.copy.locked = FALSE]
    BY <2>1 DEF LockEnds
  <2>3. PICK w : w = [work[c].copy EXCEPT !.locked = FALSE]
    OBVIOUS
  <2>4. w \in User /\ ~w.locked /\ w.fails = work[c].copy.fails /\ w.active = work[c].copy.active
    BY <2>1, <2>3 DEF User
  <2>5. work'[c] = [table |-> "user", purpose |-> work[c].purpose, copy |-> w]
    BY <2>1, <2>2, <2>3
  <2>6. work'[c] \in Work
    BY <2>1, <2>4, <2>5 DEF Work
  <2> QED
    BY <2>4, <2>5, <2>6, UpkeepAssumption DEF Holds
<1>8. RowsTypeOK'
  <2>1. row' \in [user : User, merchant : Merchant, admin : Admin, settings : Settings]
    BY <1>3, <1>4 DEF RowsTypeOK
  <2>2. \A c \in Call : work'[c] \in Work \union {None}
    BY <1>6, <1>7 DEF RowsTypeOK
  <2>3. work' \in [Call -> Work \union {None}]
    BY <2>2 DEF LockEnds
  <2> QED
    BY <1>1, <2>1, <2>3, RecordsAssumption DEF RowsTypeOK
<1>9. ASSUME "user" \notin shaken PROVE UserKept'
  <2>1. UserKept
    BY <1>9 DEF Kept
  <2>2. \A c \in Call : Holds(c, "user")' <=> Holds(c, "user")
    BY <1>6, <1>7 DEF Holds
  <2>3. 0 <= MaxFail /\ MaxFail \in Nat
    BY RecordsAssumption
  <2>4. row'.user.active = decided'
    BY <1>1, <1>3, <1>5, <2>1 DEF UserKept
  <2>5. (\A c \in Call : ~Holds(c, "user")) => PinRight(0, row'.user)
    BY <1>1, <1>3, <1>5, <2>1 DEF UserKept, PinRight
  <2>6. ASSUME NEW c \in Call, Holds(c, "user")
        PROVE  /\ PinRight(0, work'[c].copy)
               /\ work'[c].purpose # "status" => work'[c].copy.active = decided
    BY <1>1, <1>7, <2>1, <2>6 DEF UserKept, PinRight
  <2> QED
    BY <1>1, <2>1, <2>2, <2>3, <2>4, <2>5, <2>6 DEF UserKept, OnlyOne
<1>10. ASSUME NEW u \in Versioned, u \notin shaken PROVE VersionKept(u)'
  <2>1. VersionKept(u) /\ u # "user"
    BY <1>10 DEF Kept, Versioned
  <2>2. \A c \in Call : /\ Holds(c, u)' <=> Holds(c, u)
                        /\ Holds(c, u) => work'[c] = work[c]
    BY <1>6, <1>7, <2>1 DEF Holds
  <2>3. row'[u] = row[u] /\ issued' = issued /\ newest' = newest
    BY <1>1, <1>5
  <2> QED
    BY <2>1, <2>2, <2>3 DEF VersionKept, OnlyOne
<1> QED
  BY <1>1, <1>8, <1>9, <1>10 DEF Kept

\* The rows of a new user, merchant, administrator and settings.
LEMMA InitKeeps ==
  ASSUME UpkeepInit
  PROVE  RowsTypeOK /\ Kept
<1> USE RecordsAssumption
<1>0. RecordsInit
  BY DEF UpkeepInit
<1>1. PICK n, x, f : /\ n \in Name /\ x \in Text /\ f \in Fee
                     /\ n = CHOOSE m \in Name : TRUE
                     /\ x = CHOOSE m \in Text : TRUE
                     /\ f = CHOOSE m \in Fee : TRUE
  OBVIOUS
<1>2. /\ row.user = [pin |-> None, fails |-> 0, locked |-> FALSE, active |-> TRUE, name |-> n]
      /\ row.merchant = [version |-> 0, active |-> TRUE, text |-> x, ips |-> {}, fee |-> f]
      /\ row.admin = [version |-> 0, login |-> FALSE]
      /\ row.settings = [version |-> 0, text |-> x]
      /\ row = [user |-> row.user, merchant |-> row.merchant,
                admin |-> row.admin, settings |-> row.settings]
  BY <1>0, <1>1 DEF RecordsInit
<1>3. row.user \in User /\ row.merchant \in Merchant /\ row.admin \in Admin /\ row.settings \in Settings
  BY <1>1, <1>2 DEF User, Merchant, Admin, Settings
<1>4. RowsTypeOK
  BY <1>0, <1>2, <1>3 DEF RecordsInit, RowsTypeOK
<1>5. \A c \in Call, t \in Table : ~Holds(c, t)
  BY <1>0 DEF RecordsInit, Holds
<1>6. UserKept
  <2>1. tries = 0 /\ decided = TRUE /\ tries <= MaxFail
    BY <1>0 DEF RecordsInit
  <2>2. PinRight(tries, row.user) /\ row.user.active = decided
    BY <1>2, <2>1 DEF PinRight
  <2>3. \A c \in Call : ~Holds(c, "user")
    BY <1>5 DEF Table
  <2> QED
    BY <2>1, <2>2, <2>3 DEF UserKept, OnlyOne
<1>7. ASSUME NEW t \in Versioned PROVE VersionKept(t)
  <2>1. row[t].version = 0 /\ t \in Table
    BY <1>2 DEF Versioned, Table
  <2> QED
    BY <1>0, <1>5, <2>1 DEF RecordsInit, VersionKept, OnlyOne
<1> QED
  BY <1>4, <1>6, <1>7 DEF Kept

\* Every step of the bot, the API and of time keeps both parts.
LEMMA NextKeeps ==
  ASSUME RowsTypeOK, Kept, [UpkeepNext]_upkeepVars
  PROVE  RowsTypeOK' /\ Kept'
<1>1. CASE UNCHANGED recordVars
  BY <1>1 DEF recordVars, RowsTypeOK, Kept, UserKept, VersionKept, OnlyOne, Holds
<1>2. ASSUME NEW c \in Call,
             \/ UserCall(c) \/ UserReview(c) \/ MerchantCall(c) \/ MerchantReview(c)
             \/ AdminCall(c) \/ SettingsCall(c)
      PROVE  RowsTypeOK' /\ Kept'
  <2>1. \E t, p, r : Opens(c, t, p, r)
    BY <1>2, UserOpens, MerchantOpens, AdminOpens, SettingsOpens
  <2> QED
    BY <2>1, OpenKeepsTypes, OpenKeeps
<1>3. ASSUME NEW c \in Call, Save(c) PROVE RowsTypeOK' /\ Kept'
  BY <1>3, SaveKeepsTypes, SaveKeeps
<1>4. ASSUME NEW c \in Call, SaveFails(c) PROVE RowsTypeOK' /\ Kept'
  BY <1>4, SaveFailsKeeps
<1>5. CASE LockEnds
  BY <1>5, LockEndsKeeps
<1>6. \/ UNCHANGED recordVars
      \/ \E c \in Call : \/ UserCall(c) \/ UserReview(c) \/ MerchantCall(c) \/ MerchantReview(c)
                         \/ AdminCall(c) \/ SettingsCall(c) \/ Save(c) \/ SaveFails(c)
      \/ LockEnds
  BY DEF UpkeepNext, RecordsNext, upkeepVars
<1> QED
  BY <1>1, <1>2, <1>3, <1>4, <1>5, <1>6

(* The rows, and the copies that calls hold, always have their types. *)
THEOREM RowsTypeCorrect == UpkeepSpec => []RowsTypeOK
<1>1. UpkeepInit => RowsTypeOK /\ Kept
  BY InitKeeps
<1>2. RowsTypeOK /\ Kept /\ [UpkeepNext]_upkeepVars => (RowsTypeOK /\ Kept)'
  BY NextKeeps
<1> QED
  BY <1>1, <1>2, PTL DEF UpkeepSpec

(* However many calls, tables and versions there are: where no two calls   *)
(* overlapped and no save failed, wrong PINs are counted to the lock, the  *)
(* status of the user is the one that was decided last, and the version of *)
(* a merchant, an administrator and the settings the one saved last.       *)
THEOREM RowsAreKept == UpkeepSpec => []KeptUnlessShaken
<1>1. UpkeepInit => RowsTypeOK /\ Kept
  BY InitKeeps
<1>2. RowsTypeOK /\ Kept /\ [UpkeepNext]_upkeepVars => (RowsTypeOK /\ Kept)'
  BY NextKeeps
<1>3. Kept => KeptUnlessShaken
  BY DEF Kept, UserKept, VersionKept, KeptUnlessShaken
<1> QED
  BY <1>1, <1>2, <1>3, PTL DEF UpkeepSpec

-----------------------------------------------------------------------------
(* The types of the rate and of the counter. *)

RatesOK ==
  /\ rate = NoRate \/ rate \in [price : Price, spread : Spread]
  /\ updating.at \in {"read", "write"} => updating.price \in Price
  /\ updating.at = "write" =>
       updating.row = NoRate \/ updating.row \in [price : Price, spread : Spread]

LimitOK ==
  /\ count \in 0 .. MaxCount
  /\ (ttl = "none") <=> (count = 0)

\* The rate keeps its type, and so does what the updater has read.
LEMMA RatesNextKeeps ==
  ASSUME RatesOK, RatesNext
  PROVE  RatesOK'
<1> USE DEF RatesOK
<1>1. ASSUME NEW q \in Quoter, FindByPair(q) \/ FillCache(q) PROVE RatesOK'
  BY <1>1 DEF FindByPair, FillCache
<1>2. CASE CacheExpires
  BY <1>2 DEF CacheExpires
<1>3. CASE GetPrices
  <2>1. PICK p \in Price : updating' = [at |-> "read", price |-> p] /\ rate' = rate
    BY <1>3 DEF GetPrices
  <2> QED
    BY <2>1
<1>4. CASE UpdaterReads
  BY <1>4 DEF UpdaterReads
<1>5. CASE UpdaterWrites
  <2>1. updating' = [at |-> "clear"] /\ updating.price \in Price
    BY <1>5 DEF UpdaterWrites
  <2>2. CASE rate' = rate
    BY <2>1, <2>2
  <2>3. CASE rate' = [price |-> updating.price,
                      spread |-> IF updating.row = NoRate THEN Default ELSE updating.row.spread]
    BY <1>5, <2>1, <2>3, RatesAssumption DEF UpdaterWrites
  <2> QED
    BY <1>5, <2>2, <2>3 DEF UpdaterWrites
<1>6. CASE ClearCache
  BY <1>6 DEF ClearCache
<1>7. CASE UpdateExchangeRate
  BY <1>7 DEF UpdateExchangeRate
<1> QED
  BY <1>1, <1>2, <1>3, <1>4, <1>5, <1>6, <1>7 DEF RatesNext

\* The counter is 0 exactly when it has no expiry in any state.
LEMMA LimitNextKeeps ==
  ASSUME LimitOK, LimitNext
  PROVE  LimitOK'
BY RateLimitAssumption
   DEF LimitOK, LimitNext, Incr, SetExpiry, ExpiryIsLost, WindowEnds

(* Every variable stays in its type, whatever calls overlap and fail; and  *)
(* the time to live of the counter is undecided only while the count is 0. *)
THEOREM UpkeepTypeCorrect == UpkeepSpec => []UpkeepTypeOK
<1>1. UpkeepInit => RatesOK /\ LimitOK
  BY RateLimitAssumption DEF UpkeepInit, RatesInit, LimitInit, RatesOK, LimitOK
<1>2. RatesOK /\ LimitOK /\ [UpkeepNext]_upkeepVars => (RatesOK /\ LimitOK)'
  <2> SUFFICES ASSUME RatesOK, LimitOK, [UpkeepNext]_upkeepVars
               PROVE  RatesOK' /\ LimitOK'
    OBVIOUS
  <2>1. ASSUME UNCHANGED rateVars PROVE RatesOK'
    BY <2>1 DEF rateVars, RatesOK
  <2>2. ASSUME UNCHANGED limitVars PROVE LimitOK'
    BY <2>2 DEF limitVars, LimitOK
  <2>3. RatesOK'
    BY <2>1, RatesNextKeeps DEF UpkeepNext, upkeepVars
  <2>4. LimitOK'
    BY <2>2, LimitNextKeeps DEF UpkeepNext, upkeepVars
  <2> QED
    BY <2>3, <2>4
<1>3. RowsTypeOK /\ RatesOK /\ LimitOK => UpkeepTypeOK
  BY DEF RowsTypeOK, RatesOK, LimitOK, UpkeepTypeOK
<1> QED
  BY <1>1, <1>2, <1>3, RowsTypeCorrect, PTL DEF UpkeepSpec
===============================================================================
