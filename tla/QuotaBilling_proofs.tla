------------------------ MODULE QuotaBilling_proofs ------------------------
(***************************************************************************)
(* Proofs about QuotaBilling, for every set of attempts, every estimate and *)
(* cost, any number of faults, with and without Redis and batching.        *)
(***************************************************************************)
EXTENDS QuotaBilling, TLAPS

\* What AddQuota does to the types and to the books.
LEMMA AddQuotaEffect ==
    ASSUME TypeOK, NEW acc \in Accounts, NEW a \in Attempts, NEW d \in Int,
           AddQuota(acc, a, d)
    PROVE  /\ balance' \in [Accounts -> Int] /\ store' \in [Accounts -> Int]
           /\ paid' \in [Accounts -> [Attempts -> Int]] /\ spent' \in [Accounts -> Int]
           /\ paid'[acc][a] = paid[acc][a] - d
           /\ \A c \in Accounts, b \in Attempts :
                 c # acc \/ b # a => paid'[c][b] = paid[c][b]
           /\ \A c \in Accounts :
                 balance'[c] + store'[c] + spent'[c] = balance[c] + store[c] + spent[c]
<1>1. balance' \in [Accounts -> Int] /\ store' \in [Accounts -> Int]
  BY DEF TypeOK, AddQuota
<1>2. spent' \in [Accounts -> Int]
  BY DEF TypeOK, AddQuota
<1>3. paid' \in [Accounts -> [Attempts -> Int]]
  <2> DEFINE row == [paid[acc] EXCEPT ![a] = @ - d]
  <2>1. paid[acc] \in [Attempts -> Int]
    BY DEF TypeOK
  <2>2. paid[acc][a] - d \in Int
    BY <2>1
  <2>3. row \in [Attempts -> Int]
    BY <2>1, <2>2
  <2>4. paid' = [paid EXCEPT ![acc] = row]
    BY DEF AddQuota
  <2> HIDE DEF row
  <2> QED BY <2>3, <2>4 DEF TypeOK
<1>4. paid'[acc][a] = paid[acc][a] - d
  BY DEF TypeOK, AddQuota
<1>5. \A c \in Accounts, b \in Attempts : c # acc \/ b # a => paid'[c][b] = paid[c][b]
  BY DEF TypeOK, AddQuota
<1>6. \A c \in Accounts :
         balance'[c] + store'[c] + spent'[c] = balance[c] + store[c] + spent[c]
  BY DEF TypeOK, AddQuota
<1> QED BY <1>1, <1>2, <1>3, <1>4, <1>5, <1>6

\* Every step keeps the types.
LEMMA TypeStep == TypeOK /\ [Next]_vars => TypeOK'
<1> SUFFICES ASSUME TypeOK, [Next]_vars PROVE TypeOK'
    OBVIOUS
<1> USE AmountsAssumption DEF TypeOK, Accounts, Steps, Goto, dbVars, redisVars, bookVars
<1>1. ASSUME NEW a \in Attempts, PreConsume(a) PROVE TypeOK'
  <2>1. CASE GetUserQuota(a) BY <2>1 DEF GetUserQuota
  <2>2. CASE FillCache(a) BY <2>2 DEF FillCache
  <2>3. CASE CheckUserQuota(a) BY <2>3 DEF CheckUserQuota, DecreaseCache
  <2>4. CASE CheckToken(a) BY <2>4 DEF CheckToken
  <2>5. CASE CheckUser(a) BY <2>5 DEF CheckUser
  <2>6. CASE TakeToken(a)
    <3>1. AddQuota("token", a, -pre[a])
      BY <2>6 DEF TakeToken
    <3>2. -pre[a] \in Int
      BY DEF TypeOK
    <3> QED BY <2>6, <3>1, <3>2, AddQuotaEffect DEF TakeToken
  <2>7. CASE TakeUser(a)
    <3>1. AddQuota("user", a, -pre[a])
      BY <2>7 DEF TakeUser
    <3>2. -pre[a] \in Int
      BY DEF TypeOK
    <3> QED BY <2>7, <3>1, <3>2, AddQuotaEffect DEF TakeUser
  <2> QED BY <1>1, <2>1, <2>2, <2>3, <2>4, <2>5, <2>6, <2>7 DEF PreConsume
<1>2. ASSUME NEW a \in Attempts, PostConsume(a) PROVE TypeOK'
  <2>1. CASE SendFails(a) BY <2>1 DEF SendFails
  <2>2. CASE Undo(a)
    <3>1. AddQuota("user", a, pre[a])
      BY <2>2 DEF Undo
    <3>2. pre[a] \in Int
      BY DEF TypeOK
    <3> QED BY <2>2, <3>1, <3>2, AddQuotaEffect DEF Undo
  <2>3. CASE UndoToken(a)
    <3>1. AddQuota("token", a, pre[a])
      BY <2>3 DEF UndoToken
    <3>2. pre[a] \in Int
      BY DEF TypeOK
    <3> QED BY <2>3, <3>1, <3>2, AddQuotaEffect DEF UndoToken
  <2>4. CASE SendSucceeds(a) BY <2>4 DEF SendSucceeds
  <2>5. CASE Settle(a)
    <3>1. AddQuota("user", a, pre[a] - cost[a])
      BY <2>5 DEF Settle
    <3>2. pre[a] - cost[a] \in Int
      BY DEF TypeOK
    <3> QED BY <2>5, <3>1, <3>2, AddQuotaEffect DEF Settle
  <2>6. CASE SettleToken(a)
    <3>1. AddQuota("token", a, pre[a] - cost[a])
      BY <2>6 DEF SettleToken
    <3>2. pre[a] - cost[a] \in Int
      BY DEF TypeOK
    <3> QED BY <2>6, <3>1, <3>2, AddQuotaEffect DEF SettleToken
  <2>7. CASE ReloadUser(a) BY <2>7 DEF ReloadUser
  <2>8. CASE CacheUser(a) BY <2>8 DEF CacheUser
  <2> QED BY <1>2, <2>1, <2>2, <2>3, <2>4, <2>5, <2>6, <2>7, <2>8 DEF PostConsume
<1>3. ASSUME NEW a \in Attempts, AskAgain(a) PROVE TypeOK'
  BY <1>3 DEF AskAgain
<1>4. CASE ExpireKey BY <1>4 DEF ExpireKey
<1>5. CASE TakeStore BY <1>5 DEF TakeStore
<1>6. CASE WriteStore BY <1>6 DEF WriteStore, Fault
<1>7. CASE Crash BY <1>7 DEF Crash, Fault, Taken
<1>8. CASE UNCHANGED vars BY <1>8 DEF vars
<1> QED BY <1>1, <1>2, <1>3, <1>4, <1>5, <1>6, <1>7, <1>8 DEF Next
\* Every step keeps the books balanced, since AddQuota moves quota between columns.
LEMMA AddQuotaBooks ==
    ASSUME TypeOK, BooksBalance,
           NEW acc \in Accounts, NEW a \in Attempts, NEW d \in Int,
           AddQuota(acc, a, d), UNCHANGED <<flush, batch, first, wiped>>
    PROVE  BooksBalance'
<1> SUFFICES ASSUME NEW c \in Accounts
             PROVE  balance'[c] + store'[c] + Taken(c)' + spent'[c] + wiped'[c] = first'[c]
    BY DEF BooksBalance
<1>1. balance'[c] + store'[c] + spent'[c] = balance[c] + store[c] + spent[c]
  BY AddQuotaEffect
<1>2. balance[c] + store[c] + Taken(c) + spent[c] + wiped[c] = first[c]
  BY DEF BooksBalance
<1>3. Taken(c)' = Taken(c) /\ wiped' = wiped /\ first' = first
  BY DEF Taken
<1>4. /\ {balance[c], store[c], spent[c], wiped[c], first[c], Taken(c)} \subseteq Int
      /\ {balance'[c], store'[c], spent'[c]} \subseteq Int
  BY AddQuotaEffect DEF TypeOK, Taken
<1> QED BY <1>1, <1>2, <1>3, <1>4

\* Every step keeps the books balanced.
LEMMA BooksStep == TypeOK /\ BooksBalance /\ [Next]_vars => BooksBalance'
<1> SUFFICES ASSUME TypeOK, BooksBalance, [Next]_vars PROVE BooksBalance'
    OBVIOUS
<1> USE DEF BooksBalance, Taken, Accounts, Goto, dbVars, redisVars, bookVars
<1>1. ASSUME NEW a \in Attempts, PreConsume(a) PROVE BooksBalance'
  <2>1. CASE GetUserQuota(a) BY <2>1 DEF GetUserQuota, TypeOK
  <2>2. CASE FillCache(a) BY <2>2 DEF FillCache, TypeOK
  <2>3. CASE CheckUserQuota(a) BY <2>3 DEF CheckUserQuota, DecreaseCache, TypeOK
  <2>4. CASE CheckToken(a) BY <2>4 DEF CheckToken, TypeOK
  <2>5. CASE CheckUser(a) BY <2>5 DEF CheckUser, TypeOK
  <2>6. CASE TakeToken(a)
    <3>1. AddQuota("token", a, -pre[a])
      BY <2>6 DEF TakeToken
    <3>2. -pre[a] \in Int
      BY DEF TypeOK
    <3> QED BY <2>6, <3>1, <3>2, AddQuotaBooks DEF TakeToken, TypeOK
  <2>7. CASE TakeUser(a)
    <3>1. AddQuota("user", a, -pre[a])
      BY <2>7 DEF TakeUser
    <3>2. -pre[a] \in Int
      BY DEF TypeOK
    <3> QED BY <2>7, <3>1, <3>2, AddQuotaBooks DEF TakeUser, TypeOK
  <2> QED BY <1>1, <2>1, <2>2, <2>3, <2>4, <2>5, <2>6, <2>7 DEF PreConsume
<1>2. ASSUME NEW a \in Attempts, PostConsume(a) PROVE BooksBalance'
  <2>1. CASE SendFails(a) BY <2>1 DEF SendFails, TypeOK
  <2>2. CASE Undo(a)
    <3>1. AddQuota("user", a, pre[a])
      BY <2>2 DEF Undo
    <3>2. pre[a] \in Int
      BY DEF TypeOK
    <3> QED BY <2>2, <3>1, <3>2, AddQuotaBooks DEF Undo, TypeOK
  <2>3. CASE UndoToken(a)
    <3>1. AddQuota("token", a, pre[a])
      BY <2>3 DEF UndoToken
    <3>2. pre[a] \in Int
      BY DEF TypeOK
    <3> QED BY <2>3, <3>1, <3>2, AddQuotaBooks DEF UndoToken, TypeOK
  <2>4. CASE SendSucceeds(a) BY <2>4 DEF SendSucceeds, TypeOK
  <2>5. CASE Settle(a)
    <3>1. AddQuota("user", a, pre[a] - cost[a])
      BY <2>5 DEF Settle
    <3>2. pre[a] - cost[a] \in Int
      BY DEF TypeOK
    <3> QED BY <2>5, <3>1, <3>2, AddQuotaBooks DEF Settle, TypeOK
  <2>6. CASE SettleToken(a)
    <3>1. AddQuota("token", a, pre[a] - cost[a])
      BY <2>6 DEF SettleToken
    <3>2. pre[a] - cost[a] \in Int
      BY DEF TypeOK
    <3> QED BY <2>6, <3>1, <3>2, AddQuotaBooks DEF SettleToken, TypeOK
  <2>7. CASE ReloadUser(a) BY <2>7 DEF ReloadUser, TypeOK
  <2>8. CASE CacheUser(a) BY <2>8 DEF CacheUser, TypeOK
  <2> QED BY <1>2, <2>1, <2>2, <2>3, <2>4, <2>5, <2>6, <2>7, <2>8 DEF PostConsume
<1>3. ASSUME NEW a \in Attempts, AskAgain(a) PROVE BooksBalance'
  BY <1>3 DEF AskAgain, TypeOK
<1>4. CASE ExpireKey BY <1>4 DEF ExpireKey, TypeOK
<1>5. CASE TakeStore BY <1>5 DEF TakeStore, TypeOK
<1>6. CASE WriteStore BY <1>6 DEF WriteStore, Fault, TypeOK
<1>7. CASE Crash BY <1>7 DEF Crash, Fault, Ended, TypeOK
<1>8. CASE UNCHANGED vars BY <1>8 DEF vars
<1> QED BY <1>1, <1>2, <1>3, <1>4, <1>5, <1>6, <1>7, <1>8 DEF Next

\* Every step keeps what users have paid in line with the steps of their attempts.
LEMMA LedgerStep == TypeOK /\ Ledger /\ [Next]_vars => Ledger'
<1> SUFFICES ASSUME TypeOK, Ledger, [Next]_vars PROVE Ledger'
    OBVIOUS
<1> USE DEF Ledger, LedgerOf, Unpaid, Steps, Accounts, Goto, dbVars, redisVars, bookVars
<1>1. ASSUME NEW a \in Attempts, PreConsume(a) PROVE Ledger'
  <2>1. CASE GetUserQuota(a) BY <2>1 DEF GetUserQuota, TypeOK
  <2>2. CASE FillCache(a) BY <2>2 DEF FillCache, TypeOK
  <2>3. CASE CheckUserQuota(a) BY <2>3 DEF CheckUserQuota, DecreaseCache, TypeOK
  <2>4. CASE CheckToken(a) BY <2>4 DEF CheckToken, TypeOK
  <2>5. CASE CheckUser(a) BY <2>5 DEF CheckUser, TypeOK
  <2>6. CASE TakeToken(a)
    <3>1. AddQuota("token", a, -pre[a])
      BY <2>6 DEF TakeToken
    <3>2. -pre[a] \in Int
      BY DEF TypeOK
    <3> QED BY <2>6, <3>1, <3>2, AddQuotaEffect DEF TakeToken, TypeOK
  <2>7. CASE TakeUser(a)
    <3>1. AddQuota("user", a, -pre[a])
      BY <2>7 DEF TakeUser
    <3>2. -pre[a] \in Int
      BY DEF TypeOK
    <3> QED BY <2>7, <3>1, <3>2, AddQuotaEffect DEF TakeUser, TypeOK
  <2> QED BY <1>1, <2>1, <2>2, <2>3, <2>4, <2>5, <2>6, <2>7 DEF PreConsume
<1>2. ASSUME NEW a \in Attempts, PostConsume(a) PROVE Ledger'
  <2>1. CASE SendFails(a) BY <2>1 DEF SendFails, TypeOK
  <2>2. CASE Undo(a)
    <3>1. AddQuota("user", a, pre[a])
      BY <2>2 DEF Undo
    <3>2. pre[a] \in Int
      BY DEF TypeOK
    <3> QED BY <2>2, <3>1, <3>2, AddQuotaEffect DEF Undo, TypeOK
  <2>3. CASE UndoToken(a)
    <3>1. AddQuota("token", a, pre[a])
      BY <2>3 DEF UndoToken
    <3>2. pre[a] \in Int
      BY DEF TypeOK
    <3> QED BY <2>3, <3>1, <3>2, AddQuotaEffect DEF UndoToken, TypeOK
  <2>4. CASE SendSucceeds(a)
    <3>1. PICK c \in Costs :
             /\ cost' = [cost EXCEPT ![a] = c]
             /\ Goto(a, CASE c = 0 -> "done"
                          [] c > 0 /\ c = pre[a] -> "reload"
                          [] OTHER -> "settle")
      BY <2>4 DEF SendSucceeds
    <3>2. c \in Nat
      BY AmountsAssumption
    <3>3. CASE c = 0
      BY <2>4, <3>1, <3>3 DEF SendSucceeds, TypeOK
    <3>4. CASE c > 0 /\ c = pre[a]
      BY <2>4, <3>1, <3>2, <3>4 DEF SendSucceeds, TypeOK
    <3>5. CASE c > 0 /\ c # pre[a]
      BY <2>4, <3>1, <3>2, <3>5 DEF SendSucceeds, TypeOK
    <3>6. c = 0 \/ (c > 0 /\ c = pre[a]) \/ (c > 0 /\ c # pre[a])
      BY <3>2
    <3> HIDE DEF Ledger
    <3> QED BY <3>3, <3>4, <3>5, <3>6
  <2>5. CASE Settle(a)
    <3>1. AddQuota("user", a, pre[a] - cost[a])
      BY <2>5 DEF Settle
    <3>2. pre[a] - cost[a] \in Int
      BY DEF TypeOK
    <3> QED BY <2>5, <3>1, <3>2, AddQuotaEffect DEF Settle, TypeOK
  <2>6. CASE SettleToken(a)
    <3>1. AddQuota("token", a, pre[a] - cost[a])
      BY <2>6 DEF SettleToken
    <3>2. pre[a] - cost[a] \in Int
      BY DEF TypeOK
    <3> QED BY <2>6, <3>1, <3>2, AddQuotaEffect DEF SettleToken, TypeOK
  <2>7. CASE ReloadUser(a) BY <2>7 DEF ReloadUser, TypeOK
  <2>8. CASE CacheUser(a) BY <2>8 DEF CacheUser, TypeOK
  <2> QED BY <1>2, <2>1, <2>2, <2>3, <2>4, <2>5, <2>6, <2>7, <2>8 DEF PostConsume
<1>3. ASSUME NEW a \in Attempts, AskAgain(a) PROVE Ledger'
  BY <1>3 DEF AskAgain, TypeOK
<1>4. CASE ExpireKey BY <1>4 DEF ExpireKey, TypeOK
<1>5. CASE TakeStore BY <1>5 DEF TakeStore, TypeOK
<1>6. CASE WriteStore BY <1>6 DEF WriteStore, Fault, TypeOK
<1>7. CASE Crash BY <1>7 DEF Crash, Fault, Ended, TypeOK
<1>8. CASE UNCHANGED vars BY <1>8 DEF vars
<1> QED BY <1>1, <1>2, <1>3, <1>4, <1>5, <1>6, <1>7, <1>8 DEF Next

\* Every step keeps what tokens have paid in line with the steps of the attempts.
LEMMA TokenLedgerStep == TypeOK /\ Ledger /\ TokenLedger /\ [Next]_vars => TokenLedger'
<1> SUFFICES ASSUME TypeOK, Ledger, TokenLedger, [Next]_vars PROVE TokenLedger'
    OBVIOUS
<1> USE DEF TokenLedger, TokenLedgerOf, Ledger, LedgerOf, Unpaid, Steps, Accounts, Goto, dbVars, redisVars, bookVars
<1>1. ASSUME NEW a \in Attempts, PreConsume(a) PROVE TokenLedger'
  <2>1. CASE GetUserQuota(a) BY <2>1 DEF GetUserQuota, TypeOK
  <2>2. CASE FillCache(a) BY <2>2 DEF FillCache, TypeOK
  <2>3. CASE CheckUserQuota(a) BY <2>3 DEF CheckUserQuota, DecreaseCache, TypeOK
  <2>4. CASE CheckToken(a) BY <2>4 DEF CheckToken, TypeOK
  <2>5. CASE CheckUser(a) BY <2>5 DEF CheckUser, TypeOK
  <2>6. CASE TakeToken(a)
    <3>1. AddQuota("token", a, -pre[a])
      BY <2>6 DEF TakeToken
    <3>2. -pre[a] \in Int
      BY DEF TypeOK
    <3> QED BY <2>6, <3>1, <3>2, AddQuotaEffect DEF TakeToken, TypeOK
  <2>7. CASE TakeUser(a)
    <3>1. AddQuota("user", a, -pre[a])
      BY <2>7 DEF TakeUser
    <3>2. -pre[a] \in Int
      BY DEF TypeOK
    <3> QED BY <2>7, <3>1, <3>2, AddQuotaEffect DEF TakeUser, TypeOK
  <2> QED BY <1>1, <2>1, <2>2, <2>3, <2>4, <2>5, <2>6, <2>7 DEF PreConsume
<1>2. ASSUME NEW a \in Attempts, PostConsume(a) PROVE TokenLedger'
  <2>1. CASE SendFails(a) BY <2>1 DEF SendFails, TypeOK
  <2>2. CASE Undo(a)
    <3>1. AddQuota("user", a, pre[a])
      BY <2>2 DEF Undo
    <3>2. pre[a] \in Int
      BY DEF TypeOK
    <3> QED BY <2>2, <3>1, <3>2, AddQuotaEffect DEF Undo, TypeOK
  <2>3. CASE UndoToken(a)
    <3>1. AddQuota("token", a, pre[a])
      BY <2>3 DEF UndoToken
    <3>2. pre[a] \in Int
      BY DEF TypeOK
    <3> QED BY <2>3, <3>1, <3>2, AddQuotaEffect DEF UndoToken, TypeOK
  <2>4. CASE SendSucceeds(a)
    <3>1. PICK c \in Costs :
             /\ cost' = [cost EXCEPT ![a] = c]
             /\ Goto(a, CASE c = 0 -> "done"
                          [] c > 0 /\ c = pre[a] -> "reload"
                          [] OTHER -> "settle")
      BY <2>4 DEF SendSucceeds
    <3>2. c \in Nat
      BY AmountsAssumption
    <3>3. CASE c = 0
      BY <2>4, <3>1, <3>3 DEF SendSucceeds, TypeOK
    <3>4. CASE c > 0 /\ c = pre[a]
      BY <2>4, <3>1, <3>2, <3>4 DEF SendSucceeds, TypeOK
    <3>5. CASE c > 0 /\ c # pre[a]
      BY <2>4, <3>1, <3>2, <3>5 DEF SendSucceeds, TypeOK
    <3>6. c = 0 \/ (c > 0 /\ c = pre[a]) \/ (c > 0 /\ c # pre[a])
      BY <3>2
    <3> HIDE DEF Ledger
    <3> QED BY <3>3, <3>4, <3>5, <3>6
  <2>5. CASE Settle(a)
    <3>1. AddQuota("user", a, pre[a] - cost[a])
      BY <2>5 DEF Settle
    <3>2. pre[a] - cost[a] \in Int
      BY DEF TypeOK
    <3> QED BY <2>5, <3>1, <3>2, AddQuotaEffect DEF Settle, TypeOK
  <2>6. CASE SettleToken(a)
    <3>1. AddQuota("token", a, pre[a] - cost[a])
      BY <2>6 DEF SettleToken
    <3>2. pre[a] - cost[a] \in Int
      BY DEF TypeOK
    <3> QED BY <2>6, <3>1, <3>2, AddQuotaEffect DEF SettleToken, TypeOK
  <2>7. CASE ReloadUser(a) BY <2>7 DEF ReloadUser, TypeOK
  <2>8. CASE CacheUser(a) BY <2>8 DEF CacheUser, TypeOK
  <2> QED BY <1>2, <2>1, <2>2, <2>3, <2>4, <2>5, <2>6, <2>7, <2>8 DEF PostConsume
<1>3. ASSUME NEW a \in Attempts, AskAgain(a) PROVE TokenLedger'
  BY <1>3 DEF AskAgain, TypeOK
<1>4. CASE ExpireKey BY <1>4 DEF ExpireKey, TypeOK
<1>5. CASE TakeStore BY <1>5 DEF TakeStore, TypeOK
<1>6. CASE WriteStore BY <1>6 DEF WriteStore, Fault, TypeOK
<1>7. CASE Crash BY <1>7 DEF Crash, Fault, Ended, TypeOK
<1>8. CASE UNCHANGED vars BY <1>8 DEF vars
<1> QED BY <1>1, <1>2, <1>3, <1>4, <1>5, <1>6, <1>7, <1>8 DEF Next

\* The invariant holds at first.
LEMMA InitOK == Init => IInv
<1> SUFFICES ASSUME Init PROVE IInv
    OBVIOUS
<1>1. TypeOK
  <2>1. balance \in [Accounts -> Int] /\ first \in [Accounts -> Int]
    BY AmountsAssumption DEF Init, Accounts
  <2>2. pre \in [Attempts -> Nat]
    BY AmountsAssumption DEF Init
  <2>3. /\ store \in [Accounts -> Int] /\ spent \in [Accounts -> Int]
        /\ wiped \in [Accounts -> Int]
    BY DEF Init
  <2>4. paid \in [Accounts -> [Attempts -> Int]]
    BY DEF Init
  <2>5. /\ pc \in [Attempts -> Steps] /\ seen \in [Attempts -> Int]
        /\ cost \in [Attempts -> Nat]
    BY DEF Init, Steps
  <2> QED BY <2>1, <2>2, <2>3, <2>4, <2>5 DEF Init, TypeOK
<1>2. BooksBalance
  BY <1>1 DEF Init, BooksBalance, Taken, Accounts, TypeOK
<1>3. Ledger /\ TokenLedger
  BY DEF Init, Ledger, LedgerOf, TokenLedger, TokenLedgerOf, Unpaid, Accounts
<1> QED BY <1>1, <1>2, <1>3 DEF IInv

\* The inductive invariant holds throughout.
THEOREM Invariance == Spec => []IInv
<1>1. IInv /\ [Next]_vars => IInv'
  BY TypeStep, BooksStep, LedgerStep, TokenLedgerStep DEF IInv
<1> QED BY InitOK, <1>1, PTL DEF Spec

\* Every variable has its type, for every value of the constants.
THEOREM TypeCorrect == Spec => []TypeOK
<1>1. IInv => TypeOK
  BY DEF IInv
<1> QED BY Invariance, <1>1, PTL

\* However attempts, retries, expiring keys, batch updates and faults
\* interleave, refused and failed attempts are free and successful ones cost
\* what completedQuotaConsumption finds.
THEOREM PaidCorrect == Spec => []PaidExactly
<1>1. Ledger => PaidExactly
  BY DEF Ledger, LedgerOf, PaidExactly, Unpaid
<1>2. IInv => PaidExactly
  BY <1>1 DEF IInv
<1> QED BY Invariance, <1>2, PTL

\* The token of a request pays what its user pays, unless it is unlimited.
THEOREM TokenCorrect == Spec => []TokenPaysToo
<1>1. Ledger /\ TokenLedger => TokenPaysToo
  BY DEF Ledger, LedgerOf, TokenLedger, TokenLedgerOf, TokenPaysToo, Unpaid, Ended
<1>2. IInv => TokenPaysToo
  BY <1>1 DEF IInv
<1> QED BY Invariance, <1>2, PTL

\* The database, the batch stores and the batch being written account for all
\* that was spent, up to what crashes and failed writes of a batch have lost.
THEOREM BooksCorrect == Spec => []BooksBalance
<1>1. IInv => BooksBalance
  BY DEF IInv
<1> QED BY Invariance, <1>1, PTL
=============================================================================
