---------------------------- MODULE QuotaBilling ----------------------------
(***************************************************************************)
(* What a relayed request costs: relay_util.Quota, the quota columns of the *)
(* users and tokens tables, the cached balance in Redis and the batch       *)
(* updater.  One user with one token makes several attempts; a retry of a   *)
(* request is an attempt of its own, since every RelayHandler has its own   *)
(* Quota and an Undo runs beside the next attempt.  A step is one database  *)
(* statement or one Redis command.                                          *)
(***************************************************************************)
EXTENDS Integers

CONSTANTS Attempts,            \* calls of RelayHandler
          UserQuotas,          \* balances the user may start with
          TokenQuota,          \* remain_quota of the token at first
          PreCosts,            \* what PreQuotaConsumption may estimate
          Costs,               \* what GetTotalQuotaByUsage may find
          TrustFactor,         \* 100 in PreQuotaConsumption
          UnlimitedQuota,      \* of the token, in its row and in the request alike
          RedisEnabled, BatchUpdateEnabled,
          MaxFaults            \* bounds restarts and failed writes of a batch

ASSUME AmountsAssumption ==
    /\ UserQuotas \subseteq Int /\ TokenQuota \in Int
    /\ PreCosts \subseteq Nat /\ Costs \subseteq Nat /\ TrustFactor \in Nat
ASSUME SwitchesAssumption ==
    {UnlimitedQuota, RedisEnabled, BatchUpdateEnabled} \subseteq BOOLEAN
ASSUME FaultsAssumption == MaxFaults \in Nat

VARIABLES
    balance,         \* users.quota and tokens.remain_quota
    store,           \* batchUpdateStores
    flush, batch,    \* next step of batchUpdate, and the store it has taken
    key, cached,     \* the Redis key of the user's quota and its value
    pc,              \* next step of an attempt
    seen,            \* the balance it has read, 0 once it is out of scope
    pre, cost,       \* preConsumedQuota and the final quota
    faults,
    \* history
    first,           \* balance at first
    paid,            \* taken for an attempt, less what was given back
    spent, wiped     \* taken for all of them, and lost with a batch or a store

dbVars == <<balance, store, flush, batch>>
redisVars == <<key, cached>>
bookVars == <<paid, spent>>
vars == <<dbVars, redisVars, pc, seen, pre, cost, faults, first, bookVars, wiped>>

Accounts == {"user", "token"}
Steps == {"start", "fill", "check", "token", "user", "takeToken", "takeUser",
          "sending", "undo", "undoToken", "settle", "settleToken", "reload",
          "cache", "refused", "failed", "done", "lost"}
Ended == {"refused", "failed", "done", "lost"}

\* Every variable of the billing has its type.
TypeOK ==
    /\ balance \in [Accounts -> Int] /\ store \in [Accounts -> Int]
    /\ flush \in {"idle", "user", "next", "token"} /\ batch \in Int
    /\ key \in {"none", "timed", "forever"} /\ cached \in Int
    /\ pc \in [Attempts -> Steps]
    /\ seen \in [Attempts -> Int] /\ pre \in [Attempts -> Nat]
    /\ cost \in [Attempts -> Nat]
    /\ faults \in Nat
    /\ first \in [Accounts -> Int]
    /\ paid \in [Accounts -> [Attempts -> Int]]
    /\ spent \in [Accounts -> Int] /\ wiped \in [Accounts -> Int]

Init ==
    /\ \E q \in UserQuotas :
         balance = [acc \in Accounts |-> IF acc = "user" THEN q ELSE TokenQuota]
    /\ store = [acc \in Accounts |-> 0]
    /\ flush = "idle" /\ batch = 0
    /\ key = "none" /\ cached = 0
    /\ pc = [a \in Attempts |-> "start"]
    /\ seen = [a \in Attempts |-> 0]
    /\ pre \in [Attempts -> PreCosts]
    /\ cost = [a \in Attempts |-> 0]
    /\ faults = 0
    /\ first = balance
    /\ paid = [acc \in Accounts |-> [a \in Attempts |-> 0]]
    /\ spent = [acc \in Accounts |-> 0] /\ wiped = [acc \in Accounts |-> 0]

\* The process dies, or the database fails the batch updater.
Fault == faults < MaxFaults /\ faults' = faults + 1

Goto(a, step) == pc' = [pc EXCEPT ![a] = step]

\* IncreaseUserQuota, DecreaseUserQuota, IncreaseTokenQuota, DecreaseTokenQuota.
\* With batching they cannot fail; without it their statement succeeds here.
AddQuota(acc, a, d) ==
    /\ IF BatchUpdateEnabled
         THEN store' = [store EXCEPT ![acc] = @ + d] /\ UNCHANGED balance
         ELSE balance' = [balance EXCEPT ![acc] = @ + d] /\ UNCHANGED store
    /\ paid' = [paid EXCEPT ![acc][a] = @ - d]
    /\ spent' = [spent EXCEPT ![acc] = @ - d]
-----------------------------------------------------------------------------
(* PreQuotaConsumption and PreConsumeTokenQuota.                           *)

\* CacheGetUserQuota, unless there is nothing to pre-consume.
GetUserQuota(a) ==
    /\ pc[a] = "start"
    /\ \/ pre[a] = 0 /\ Goto(a, "sending") /\ UNCHANGED seen
       \/ /\ pre[a] > 0 /\ RedisEnabled /\ key # "none"
          /\ seen' = [seen EXCEPT ![a] = cached] /\ Goto(a, "check")
       \/ /\ pre[a] > 0 /\ RedisEnabled /\ key = "none"
          /\ seen' = [seen EXCEPT ![a] = balance["user"]] /\ Goto(a, "fill")
       \/ /\ pre[a] > 0 /\ ~RedisEnabled
          /\ seen' = [seen EXCEPT ![a] = balance["user"]] /\ Goto(a, "check")
    /\ UNCHANGED <<dbVars, redisVars, pre, cost, faults, first, bookVars, wiped>>

\* It caches what it has read for TokenCacheSeconds.
FillCache(a) ==
    /\ pc[a] = "fill"
    /\ key' = "timed" /\ cached' = seen[a]
    /\ Goto(a, "check")
    /\ UNCHANGED <<dbVars, seen, pre, cost, faults, first, bookVars, wiped>>

\* CacheDecreaseUserQuota: DECRBY makes a key that has expired meanwhile, with
\* no time to live.
DecreaseCache(a) ==
    IF RedisEnabled
      THEN /\ key' = IF key = "none" THEN "forever" ELSE key
           /\ cached' = (IF key = "none" THEN 0 ELSE cached) - pre[a]
      ELSE UNCHANGED redisVars

\* Mutant: what a trusted user would pre-consume is set off against the balance.
CheckUserQuotaSetOff(a) ==
    /\ pc[a] = "check"
    /\ \/ /\ seen[a] < pre[a]
          /\ Goto(a, "refused") /\ UNCHANGED <<redisVars, pre>>
       \/ /\ seen[a] >= pre[a] /\ seen[a] > TrustFactor * pre[a]
          /\ DecreaseCache(a)
          /\ pre' = [pre EXCEPT ![a] = @ - seen[a]]
          /\ Goto(a, "sending")
       \/ /\ seen[a] >= pre[a] /\ seen[a] <= TrustFactor * pre[a]
          /\ DecreaseCache(a)
          /\ Goto(a, "token") /\ UNCHANGED pre
    /\ seen' = [seen EXCEPT ![a] = 0]
    /\ UNCHANGED <<dbVars, cost, faults, first, bookVars, wiped>>

\* A user who has plenty is trusted and nothing is pre-consumed.
CheckUserQuota(a) ==
    /\ pc[a] = "check"
    /\ \/ /\ seen[a] < pre[a]
          /\ Goto(a, "refused") /\ UNCHANGED <<redisVars, pre>>
       \/ /\ seen[a] >= pre[a] /\ seen[a] > TrustFactor * pre[a]
          /\ DecreaseCache(a)
          /\ pre' = [pre EXCEPT ![a] = 0]
          /\ Goto(a, "sending")
       \/ /\ seen[a] >= pre[a] /\ seen[a] <= TrustFactor * pre[a]
          /\ DecreaseCache(a)
          /\ Goto(a, "token") /\ UNCHANGED pre
    /\ seen' = [seen EXCEPT ![a] = 0]
    /\ UNCHANGED <<dbVars, cost, faults, first, bookVars, wiped>>

CheckToken(a) ==
    /\ pc[a] = "token"
    /\ Goto(a, IF ~UnlimitedQuota /\ balance["token"] < pre[a] THEN "refused" ELSE "user")
    /\ UNCHANGED <<dbVars, redisVars, seen, pre, cost, faults, first, bookVars, wiped>>

CheckUser(a) ==
    /\ pc[a] = "user"
    /\ Goto(a, IF balance["user"] < pre[a] THEN "refused"
               ELSE IF UnlimitedQuota THEN "takeUser" ELSE "takeToken")
    /\ UNCHANGED <<dbVars, redisVars, seen, pre, cost, faults, first, bookVars, wiped>>

TakeToken(a) ==
    /\ pc[a] = "takeToken"
    /\ AddQuota("token", a, -pre[a])
    /\ Goto(a, "takeUser")
    /\ UNCHANGED <<flush, batch, redisVars, seen, pre, cost, faults, first, wiped>>

TakeUser(a) ==
    /\ pc[a] = "takeUser"
    /\ AddQuota("user", a, -pre[a])
    /\ Goto(a, "sending")
    /\ UNCHANGED <<flush, batch, redisVars, seen, pre, cost, faults, first, wiped>>
-----------------------------------------------------------------------------
(* RelayHandler after relay.send: Undo or Consume, in a goroutine.         *)

\* Mutant: a failed attempt keeps what it has pre-consumed.
SendFailsKeeping(a) ==
    /\ pc[a] = "sending"
    /\ Goto(a, "failed")
    /\ UNCHANGED <<dbVars, redisVars, seen, pre, cost, faults, first, bookVars, wiped>>

\* HandelStatus is true exactly if something was pre-consumed.
SendFails(a) ==
    /\ pc[a] = "sending"
    /\ Goto(a, IF pre[a] > 0 THEN "undo" ELSE "failed")
    /\ UNCHANGED <<dbVars, redisVars, seen, pre, cost, faults, first, bookVars, wiped>>

Undo(a) ==
    /\ pc[a] = "undo"
    /\ AddQuota("user", a, pre[a])
    /\ Goto(a, IF UnlimitedQuota THEN "failed" ELSE "undoToken")
    /\ UNCHANGED <<flush, batch, redisVars, seen, pre, cost, faults, first, wiped>>

UndoToken(a) ==
    /\ pc[a] = "undoToken"
    /\ AddQuota("token", a, pre[a])
    /\ Goto(a, "failed")
    /\ UNCHANGED <<flush, batch, redisVars, seen, pre, cost, faults, first, wiped>>

\* completedQuotaConsumption does nothing to the balances if the quota is 0, and
\* PostConsumeTokenQuotaWithInfo nothing for a difference of 0.
SendSucceeds(a) ==
    /\ pc[a] = "sending"
    /\ \E c \in Costs :
         /\ cost' = [cost EXCEPT ![a] = c]
         /\ Goto(a, CASE c = 0 -> "done"
                      [] c > 0 /\ c = pre[a] -> "reload"
                      [] OTHER -> "settle")
    /\ UNCHANGED <<dbVars, redisVars, seen, pre, faults, first, bookVars, wiped>>

Settle(a) ==
    /\ pc[a] = "settle"
    /\ AddQuota("user", a, pre[a] - cost[a])
    /\ Goto(a, IF UnlimitedQuota THEN "reload" ELSE "settleToken")
    /\ UNCHANGED <<flush, batch, redisVars, seen, pre, cost, faults, first, wiped>>

\* Mutant: the token gets back what was too much and pays nothing more.
SettleTokenBack(a) ==
    /\ pc[a] = "settleToken"
    /\ AddQuota("token", a, IF pre[a] > cost[a] THEN pre[a] - cost[a] ELSE 0)
    /\ Goto(a, "reload")
    /\ UNCHANGED <<flush, batch, redisVars, seen, pre, cost, faults, first, wiped>>

SettleToken(a) ==
    /\ pc[a] = "settleToken"
    /\ AddQuota("token", a, pre[a] - cost[a])
    /\ Goto(a, "reload")
    /\ UNCHANGED <<flush, batch, redisVars, seen, pre, cost, faults, first, wiped>>

\* CacheUpdateUserQuota reads the balance and then caches it.
ReloadUser(a) ==
    /\ pc[a] = "reload"
    /\ IF RedisEnabled
         THEN seen' = [seen EXCEPT ![a] = balance["user"]] /\ Goto(a, "cache")
         ELSE Goto(a, "done") /\ UNCHANGED seen
    /\ UNCHANGED <<dbVars, redisVars, pre, cost, faults, first, bookVars, wiped>>

CacheUser(a) ==
    /\ pc[a] = "cache"
    /\ key' = "timed" /\ cached' = seen[a]
    /\ Goto(a, "done")
    /\ seen' = [seen EXCEPT ![a] = 0]
    /\ UNCHANGED <<dbVars, pre, cost, faults, first, bookVars, wiped>>

\* A client that got an error asks again, or Relay retries with another channel.
AskAgain(a) ==
    /\ pc[a] \in {"refused", "failed"}
    /\ \E p \in PreCosts : pre' = [pre EXCEPT ![a] = p]
    /\ Goto(a, "start")
    /\ UNCHANGED <<dbVars, redisVars, seen, cost, faults, first, bookVars, wiped>>
-----------------------------------------------------------------------------
(* Redis, the batch updater and restarts.                                  *)

ExpireKey ==
    /\ key = "timed"
    /\ key' = "none" /\ cached' = 0
    /\ UNCHANGED <<dbVars, pc, seen, pre, cost, faults, first, bookVars, wiped>>

\* batchUpdate: the two stores with balances, one after the other.  A store is
\* taken under its lock and then written to the database.
TakeStore ==
    /\ BatchUpdateEnabled
    /\ \/ /\ flush = "idle" /\ flush' = "user"
          /\ batch' = store["user"] /\ store' = [store EXCEPT !["user"] = 0]
       \/ /\ flush = "next" /\ flush' = "token"
          /\ batch' = store["token"] /\ store' = [store EXCEPT !["token"] = 0]
    /\ UNCHANGED <<balance, redisVars, pc, seen, pre, cost, faults, first, bookVars,
                   wiped>>

\* Mutant: the store is emptied only once it has been written.
WriteStoreThenReset ==
    /\ flush \in Accounts
    /\ balance' = [balance EXCEPT ![flush] = @ + batch]
    /\ store' = [store EXCEPT ![flush] = 0]
    /\ flush' = IF flush = "user" THEN "next" ELSE "idle"
    /\ batch' = 0
    /\ UNCHANGED <<redisVars, pc, seen, pre, cost, faults, first, bookVars, wiped>>

\* An error of increaseUserQuota or increaseTokenQuota is logged only, and what
\* was taken from the store is gone.
WriteStore ==
    /\ flush \in Accounts
    /\ \/ balance' = [balance EXCEPT ![flush] = @ + batch] /\ UNCHANGED <<faults, wiped>>
       \/ Fault /\ wiped' = [wiped EXCEPT ![flush] = @ + batch] /\ UNCHANGED balance
    /\ flush' = IF flush = "user" THEN "next" ELSE "idle"
    /\ batch' = 0
    /\ UNCHANGED <<store, redisVars, pc, seen, pre, cost, first, bookVars>>

\* What a batchUpdate has taken from the store of this account and not written.
Taken(acc) == IF flush = acc THEN batch ELSE 0

\* The process ends: the stores and the goroutines are gone.
Crash ==
    /\ Fault
    /\ pc' = [a \in Attempts |-> IF pc[a] \in Ended \cup {"start"} THEN pc[a] ELSE "lost"]
    /\ wiped' = [acc \in Accounts |-> wiped[acc] + store[acc] + Taken(acc)]
    /\ store' = [acc \in Accounts |-> 0]
    /\ flush' = "idle" /\ batch' = 0
    /\ UNCHANGED <<balance, redisVars, seen, pre, cost, first, bookVars>>
-----------------------------------------------------------------------------
PreConsume(a) ==
    \/ GetUserQuota(a) \/ FillCache(a) \/ CheckUserQuota(a) \/ CheckToken(a)
    \/ CheckUser(a) \/ TakeToken(a) \/ TakeUser(a)

PostConsume(a) ==
    \/ SendFails(a) \/ Undo(a) \/ UndoToken(a)
    \/ SendSucceeds(a) \/ Settle(a) \/ SettleToken(a) \/ ReloadUser(a) \/ CacheUser(a)

Next ==
    \/ \E a \in Attempts : PreConsume(a) \/ PostConsume(a) \/ AskAgain(a)
    \/ ExpireKey \/ TakeStore \/ WriteStore \/ Crash

Spec == Init /\ [][Next]_vars
-----------------------------------------------------------------------------
(* Properties.                                                             *)

\* An attempt that was refused or has failed costs the user nothing, and one
\* that succeeded costs exactly what GetTotalQuotaByUsage says, whatever was
\* pre-consumed and however attempts overlap.  The exception is usage of 0, which
\* costs what was pre-consumed.
PaidExactly ==
    \A a \in Attempts :
       /\ pc[a] \in {"refused", "failed"} => paid["user"][a] = 0
       /\ pc[a] = "done" => paid["user"][a] = IF cost[a] > 0 THEN cost[a] ELSE pre[a]

\* A limited token pays what its user pays, an unlimited one nothing.
TokenPaysToo ==
    \A a \in Attempts :
       /\ UnlimitedQuota => paid["token"][a] = 0
       /\ ~UnlimitedQuota /\ pc[a] \in Ended \ {"lost"} =>
             paid["token"][a] = paid["user"][a]

\* Balance in the database, batch store and the batch being written always add
\* up to what was there at first less what was spent, but for what was lost in
\* stores that a crash wiped and in batches whose write failed: adding to a store
\* while it is taken and written neither loses nor doubles anything.
BooksBalance ==
    \A acc \in Accounts :
       balance[acc] + store[acc] + Taken(acc) + spent[acc] + wiped[acc] = first[acc]
-----------------------------------------------------------------------------
\* The inductive invariant: what an attempt has paid at each of its steps.
Unpaid == {"start", "fill", "check", "token", "user", "takeToken", "refused", "failed"}

LedgerOf(a) ==
    /\ pc[a] \in Unpaid \cup {"takeUser", "undoToken"} => paid["user"][a] = 0
    /\ pc[a] \in {"sending", "undo", "settle"} => paid["user"][a] = pre[a]
    /\ pc[a] \in {"settleToken", "reload", "cache"} => paid["user"][a] = cost[a]
    /\ pc[a] \in {"settle", "settleToken", "reload", "cache"} => cost[a] > 0
    /\ pc[a] = "done" => paid["user"][a] = IF cost[a] > 0 THEN cost[a] ELSE pre[a]

TokenLedgerOf(a) ==
    /\ UnlimitedQuota =>
          /\ paid["token"][a] = 0
          /\ pc[a] \notin {"takeToken", "undoToken", "settleToken"}
    /\ ~UnlimitedQuota =>
          /\ pc[a] \in Unpaid => paid["token"][a] = 0
          /\ pc[a] \in {"takeUser", "sending", "undo", "undoToken", "settle",
                        "settleToken"} => paid["token"][a] = pre[a]
          /\ pc[a] \in {"reload", "cache", "done"} => paid["token"][a] = paid["user"][a]

Ledger == \A a \in Attempts : LedgerOf(a)
TokenLedger == \A a \in Attempts : TokenLedgerOf(a)
IInv == TypeOK /\ BooksBalance /\ Ledger /\ TokenLedger
=============================================================================
