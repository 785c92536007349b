---------------------------- MODULE AddressCache ----------------------------
(***************************************************************************)
(* How a user gets a TRON deposit address, and how the deposit monitor     *)
(* learns that it must watch it.                                           *)
(*                                                                         *)
(* Registration (UserUseCase.RegisterOrGet) writes the user and his        *)
(* wallets, then starts a goroutine that generates a key pair, stores the  *)
(* key and finally writes the address into the wallets.  The monitor       *)
(* watches the addresses of an in-memory cache, loaded in full at start    *)
(* and refreshed every five minutes with the wallets whose created_at is   *)
(* later than the last refresh.  A refresh asks MySQL first and takes the  *)
(* time stamp after it has the answer; users go on registering in between. *)
(*                                                                         *)
(* Time is abstracted to the one comparison the code makes: newer holds    *)
(* the users whose wallets were created after lastRefreshAt.               *)
(***************************************************************************)
EXTENDS Integers

CONSTANTS User,     \* the Telegram users
          Faults    \* TRUE: any call to MySQL, Redis or the node may fail

ASSUME FaultsAssumption == Faults \in BOOLEAN

VARIABLES account,       \* MySQL: users, wallet_keys and wallets.deposit_address of a user
          assigning,     \* users whose assignDepositAddress goroutine is alive
          up,            \* the bot process is running
          addrCache,     \* DepositMonitor.addrCache
          refreshed,     \* DepositMonitor.lastRefreshAt is not the zero time
          newer,         \* users whose wallets were created after lastRefreshAt
          query,         \* the answered query of the running refresh, or "none"
          listed,        \* the users it returned
          passed         \* ghost: users the last stamp has passed by

addrVars == <<account, assigning, up, addrCache, refreshed, newer, query, listed, passed>>

refreshVars == <<addrCache, refreshed, newer, passed>>

Account == {"none", "registered", "keyed", "assigned"}

Known    == {u \in User : account[u] # "none"}
Assigned == {u \in User : account[u] = "assigned"}

AddrTypeOK ==
  /\ account \in [User -> Account]
  /\ assigning \subseteq User
  /\ up \in BOOLEAN
  /\ addrCache \subseteq User
  /\ refreshed \in BOOLEAN
  /\ newer \subseteq User
  /\ query \in {"none", "all", "new"}
  /\ listed \subseteq User
  /\ passed \subseteq User

(* The bot is down; some users registered and got their address earlier. *)
AddrInit ==
  /\ account \in [User -> {"none", "assigned"}]
  /\ assigning = {}
  /\ up = FALSE
  /\ addrCache = {}
  /\ refreshed = FALSE
  /\ newer = {}
  /\ query = "none"
  /\ listed = {}
  /\ passed = {}

-----------------------------------------------------------------------------
(* Registration. *)

(* A new user and his three wallets are written and the address goroutine  *)
(* starts.  A known user is returned as he is: one whose wallets could not *)
(* be written remains without them and without the goroutine.              *)
RegisterOrGet(u) ==
  /\ up
  /\ account[u] = "none"
  /\ account' = [account EXCEPT ![u] = "registered"]
  /\ \/ /\ assigning' = assigning \union {u}
        /\ newer' = newer \union {u}
     \/ Faults /\ UNCHANGED <<assigning, newer>>
  /\ UNCHANGED <<up, addrCache, refreshed, query, listed, passed>>

(* assignDepositAddress, first half: no key stored yet, so generate the    *)
(* address and store its encrypted key; any error ends the goroutine.      *)
StoreWalletKey(u) ==
  /\ u \in assigning
  /\ account[u] = "registered"
  /\ \/ /\ account' = [account EXCEPT ![u] = "keyed"]
        /\ UNCHANGED assigning
     \/ /\ Faults
        /\ assigning' = assigning \ {u}
        /\ \/ account' = [account EXCEPT ![u] = "keyed"]
           \/ UNCHANGED account
  /\ UNCHANGED <<up, refreshVars, query, listed>>

(* assignDepositAddress, second half: write the address into the user's    *)
(* USDT and TRX wallets.  created_at keeps its value.                      *)
SetUserDepositAddress(u) ==
  /\ u \in assigning
  /\ account[u] = "keyed"
  /\ assigning' = assigning \ {u}
  /\ \/ account' = [account EXCEPT ![u] = "assigned"]
     \/ Faults /\ UNCHANGED account
  /\ UNCHANGED <<up, refreshVars, query, listed>>

-----------------------------------------------------------------------------
(* The monitor's cache. *)

Ask(kind, answer) == query' = kind /\ listed' = answer

\* Faulty variant: a failed query counts as an empty answer.
ListAllIgnoresError == Ask("all", Assigned) \/ (Faults /\ Ask("all", {}))

\* fullRefreshAddressCache asks for every assigned address.
ListAll == Ask("all", Assigned) \/ (Faults /\ UNCHANGED <<query, listed>>)

\* Faulty variant: wallets without an address are returned too.
IncrementalRefreshAnyWallet ==
  /\ up
  /\ query = "none"
  /\ IF refreshed THEN Ask("new", newer) ELSE ListAll
  /\ UNCHANGED <<account, assigning, up, refreshVars>>

(* incrementalRefreshAddressCache asks for the addresses of the wallets    *)
(* created since the stamp and returns when there are none.  Without a     *)
(* stamp, and when the query fails, it loads everything.                   *)
IncrementalRefresh ==
  /\ up
  /\ query = "none"
  /\ \/ ~refreshed /\ ListAll
     \/ /\ refreshed
        /\ IF newer \intersect Assigned = {}
             THEN UNCHANGED <<query, listed>>
             ELSE Ask("new", newer \intersect Assigned)
     \/ refreshed /\ Faults /\ ListAll
  /\ UNCHANGED <<account, assigning, up, refreshVars>>

\* The refresh is over; wallets that exist by now are older than its stamp.
StampRefresh ==
  /\ up
  /\ query # "none"
  /\ refreshed' = TRUE
  /\ newer' = {}
  /\ passed' = Known \ (addrCache \union listed)
  /\ Ask("none", {})
  /\ UNCHANGED <<account, assigning, up>>

\* Faulty variant: an address is added only if the cache holds it already.
EndRefreshInverted ==
  /\ addrCache' = IF query = "all" THEN listed ELSE addrCache
  /\ StampRefresh

\* A full load replaces the cache, an incremental one adds to it.
EndRefresh ==
  /\ addrCache' = IF query = "all" THEN listed ELSE addrCache \union listed
  /\ StampRefresh

(* The process dies: its goroutines, the cache and the stamp go with it.   *)
AddrDown ==
  /\ up
  /\ up' = FALSE
  /\ assigning' = {}
  /\ addrCache' = {}
  /\ refreshed' = FALSE
  /\ newer' = {}
  /\ passed' = {}
  /\ Ask("none", {})
  /\ UNCHANGED account

(* The process comes up and the monitor asks for its first full load.      *)
(* Without a stamp the next refresh is full again, so newer is not read    *)
(* until then.                                                             *)
AddrUp ==
  /\ ~up
  /\ up' = TRUE
  /\ ListAll
  /\ UNCHANGED <<account, assigning, refreshVars>>

Assign(u) == StoreWalletKey(u) \/ SetUserDepositAddress(u)

Enrol(u) == RegisterOrGet(u) \/ Assign(u)

AddrNext ==
  \/ \E u \in User : Enrol(u)
  \/ IncrementalRefresh
  \/ EndRefresh
  \/ AddrDown
  \/ AddrUp

AddrSpec == AddrInit /\ [][AddrNext]_addrVars

-----------------------------------------------------------------------------
(* The monitor watches only addresses that users were given.               *)
CacheSound == addrCache \subseteq Assigned

(* While the process runs no refresh, full, incremental or failed, makes   *)
(* the monitor forget an address it watches.                               *)
CacheNeverForgets == [][up /\ up' => addrCache \subseteq addrCache']_addrVars

(* A running assignDepositAddress ends with the address in the wallets,    *)
(* and a user who has his address is watched after the next refreshes,     *)
(* unless a refresh was stamped after his wallets were created without     *)
(* having seen his address (while the process stays up and no call fails). *)
AssignedIsWatched ==
  \A u \in User : u \in assigning \union Assigned /\ up
                    ~> u \in addrCache \/ u \in passed \/ ~up
=============================================================================
