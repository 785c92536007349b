----------------------------- MODULE ExchangeRates -----------------------------
(***************************************************************************)
(* One pair of exchange_rates and its entry in Redis.  ExchangeService     *)
(* quotes from the entry while there is one and fills it from the row      *)
(* otherwise; ExchangeUpdater writes the market's rate every five minutes  *)
(* and deletes the entry; an administrator writes the whole row and leaves *)
(* the entry alone.                                                        *)
(***************************************************************************)
EXTENDS Integers

CONSTANTS Price,      \* rates of the market
          Spread,     \* what an administrator may add to them
          Default,    \* the spread of a row the updater creates
          NoRate,     \* no row, no entry, nothing read
          Quoter      \* handlers between reading the row and filling the entry

ASSUME RatesAssumption == Default \in Spread

VARIABLES rate,       \* the row: [price, spread]
          cache,      \* the entry: [quote, ttl], ttl if it will expire
          quoting,    \* the row each handler has read
          updating    \* the row the updater has read

rateVars == <<rate, cache, quoting, updating>>

RatesInit ==
  /\ rate \in [price : Price, spread : Spread] \union {NoRate}
  /\ cache = NoRate
  /\ quoting = [q \in Quoter |-> NoRate]
  /\ updating = [at |-> "idle"]

-----------------------------------------------------------------------------
(* GetExchangePair.  An entry is used as it is.  FindByPair leaves out     *)
(* pairs that are not enabled, and no call disables one: GORM replaces the *)
(* false of an inserted row by the default of the column, which is true.   *)

FindByPair(q) ==
  /\ cache = NoRate
  /\ quoting[q] = NoRate
  /\ rate # NoRate
  /\ quoting' = [quoting EXCEPT ![q] = rate]
  /\ UNCHANGED <<rate, cache, updating>>

\* Faulty variant: the entry has no time to live.
FillCacheForEver(q) ==
  /\ quoting[q] # NoRate
  /\ cache' = [quote |-> quoting[q], ttl |-> FALSE]
  /\ quoting' = [quoting EXCEPT ![q] = NoRate]
  /\ UNCHANGED <<rate, updating>>

\* An error of Redis is ignored, the quote is given all the same.
FillCache(q) ==
  /\ quoting[q] # NoRate
  /\ cache' = [quote |-> quoting[q], ttl |-> TRUE] \/ UNCHANGED cache
  /\ quoting' = [quoting EXCEPT ![q] = NoRate]
  /\ UNCHANGED <<rate, updating>>

CacheExpires ==
  /\ cache # NoRate
  /\ cache.ttl
  /\ cache' = NoRate
  /\ UNCHANGED <<rate, quoting, updating>>

-----------------------------------------------------------------------------
\* Three attempts, seconds apart; without prices the update is over.
GetPrices ==
  /\ updating.at = "idle"
  /\ \E p \in Price : updating' = [at |-> "read", price |-> p]
  /\ UNCHANGED <<rate, cache, quoting>>

UpdaterReads ==
  /\ updating.at = "read"
  /\ updating' = [at |-> "write", price |-> updating.price, row |-> rate]
  /\ UNCHANGED <<rate, cache, quoting>>

(* Upsert: the rate is new, the other columns are those it read, whatever  *)
(* the administrator wrote since.  An error is logged.                     *)
UpdaterWrites ==
  /\ updating.at = "write"
  /\ \/ rate' = [price |-> updating.price,
                 spread |-> IF updating.row = NoRate THEN Default ELSE updating.row.spread]
     \/ UNCHANGED rate
  /\ updating' = [at |-> "clear"]
  /\ UNCHANGED <<cache, quoting>>

ClearCache ==
  /\ updating.at = "clear"
  /\ cache' = NoRate \/ UNCHANGED cache
  /\ updating' = [at |-> "idle"]
  /\ UNCHANGED <<rate, quoting>>

\* An administrator writes all columns.
UpdateExchangeRate ==
  /\ \E p \in Price, s \in Spread : rate' = [price |-> p, spread |-> s]
  /\ UNCHANGED <<cache, quoting, updating>>

RatesNext ==
  \/ \E q \in Quoter : FindByPair(q) \/ FillCache(q)
  \/ CacheExpires
  \/ GetPrices
  \/ UpdaterReads
  \/ UpdaterWrites
  \/ ClearCache
  \/ UpdateExchangeRate
================================================================================
