------------------------- MODULE RelayRetry_proofs -------------------------
(***************************************************************************)
(* Proofs about RelayRetry, for any number of requests, channels and        *)
(* retries and any grouping, priorities and mappings.                       *)
(***************************************************************************)
EXTENDS RelayRetry, FiniteSetTheorems, TLAPS

\* SetCooldowns keeps the type of the cooldowns.
LEMMA CooldownTypes ==
    ASSUME TypeOK, NEW c \in Channels, NEW m \in Models, SetCooldowns(c, m)
    PROVE  cooldown' \in [Channels -> [Models -> {"none", "on", "expired"}]]
<1> DEFINE v == IF RetryCooldownSeconds > 0 /\ cooldown[c][m] = "none" THEN "on"
                ELSE cooldown[c][m]
           row == [cooldown[c] EXCEPT ![m] = v]
<1>1. cooldown[c] \in [Models -> {"none", "on", "expired"}]
  BY DEF TypeOK
<1>2. v \in {"none", "on", "expired"}
  BY <1>1
<1>3. cooldown' = [cooldown EXCEPT ![c] = row]
  BY DEF SetCooldowns
<1> HIDE DEF v
<1>4. row \in [Models -> {"none", "on", "expired"}]
  BY <1>1, <1>2
<1> HIDE DEF row
<1> QED BY <1>3, <1>4 DEF TypeOK

\* Next returns a channel of the group that is not to be skipped.
LEMMA CandidateUsable ==
    ASSUME NEW r, NEW grp \in Groups, NEW c \in Candidates(r, grp)
    PROVE  c \in Channels /\ c \notin skip[r]
  BY RuleAssumption DEF Candidates, Usable

\* Every step keeps the types.
LEMMA TypeStep == TypeOK /\ TriedSkipped /\ [Next]_vars => TypeOK'
<1> SUFFICES ASSUME TypeOK, TriedSkipped, [Next]_vars PROVE TypeOK'
    OBVIOUS
<1> USE RuleAssumption, RetryAssumption DEF TypeOK, Goto, choiceVars, Groups
<1>1. ASSUME NEW r \in Requests, Relay(r) PROVE TypeOK'
  <2>1. CASE FetchChannelById(r) BY <2>1 DEF FetchChannelById, Choose
  <2>2. CASE FetchFromPrimary(r) BY <2>2 DEF FetchFromPrimary, Choose, Candidates, Usable
  <2>3. CASE FetchFromBackup(r) BY <2>3 DEF FetchFromBackup, Choose, Candidates, Usable
  <2>4. CASE FetchFails(r) BY <2>4 DEF FetchFails, Errors
  <2>5. CASE SendSucceeds(r)
    <3>1. chan[r] \in Channels
      BY <2>5 DEF SendSucceeds, TriedSkipped
    <3> QED BY <2>5, <3>1 DEF SendSucceeds, Errors
  <2>6. CASE SendFails(r)
    <3>1. chan[r] \in Channels
      BY <2>6 DEF SendFails, TriedSkipped
    <3> QED BY <2>6, <3>1 DEF SendFails, Retries, Errors, Retryable
  <2>7. CASE Retry(r)
    <3>1. chan[r] \in Channels /\ left[r] > 0
      BY <2>7 DEF Retry, TriedSkipped
    <3>2. cooldown' \in [Channels -> [Models -> {"none", "on", "expired"}]]
      <4>1. NewModel[chan[r]][model[r]] \in Models
        BY <3>1
      <4>2. CASE err[r] = "limited"
        BY <2>7, <3>1, <4>1, <4>2, CooldownTypes DEF Retry
      <4>3. CASE err[r] # "limited"
        BY <2>7, <4>3 DEF Retry
      <4> QED BY <4>2, <4>3
    <3>3. left' \in [Requests -> 0..RetryTimes]
      BY <2>7, <3>1 DEF Retry
    <3>4. skip' \in [Requests -> SUBSET Channels]
      BY <2>7, <3>1 DEF Retry
    <3>5. err' \in [Requests -> Errors \cup {"none"}] /\ pc' \in [Requests -> {"choose", "send", "failed", "answered"}]
      BY <2>7 DEF Retry, Errors
    <3> QED BY <2>7, <3>2, <3>3, <3>4, <3>5 DEF Retry
  <2> QED BY <1>1, <2>1, <2>2, <2>3, <2>4, <2>5, <2>6, <2>7 DEF Relay
<1>2. CASE DisableChannel BY <1>2 DEF DisableChannel
<1>3. CASE EnableChannel BY <1>3 DEF EnableChannel
<1>4. CASE Expire BY <1>4 DEF Expire
<1>5. CASE CleanupExpiredCooldowns BY <1>5 DEF CleanupExpiredCooldowns
<1>6. CASE UNCHANGED vars BY <1>6 DEF vars, choiceVars
<1> QED BY <1>1, <1>2, <1>3, <1>4, <1>5, <1>6 DEF Next, Chooser

\* Every step keeps what was tried among what is skipped.
LEMMA SkippedStep == TypeOK /\ TriedSkipped /\ [Next]_vars => TriedSkipped'
<1> SUFFICES ASSUME TypeOK, TriedSkipped, [Next]_vars PROVE TriedSkipped'
    OBVIOUS
<1> USE RuleAssumption, NoneAssumption DEF TriedSkipped, Goto, choiceVars
<1>1. ASSUME NEW r \in Requests, Relay(r) PROVE TriedSkipped'
  <2>1. CASE FetchChannelById(r) BY <2>1 DEF FetchChannelById, Choose, TypeOK
  <2>2. CASE FetchFromPrimary(r)
    <3>1. PICK c \in Candidates(r, "primary") : Choose(r, c, "primary")
      BY <2>2 DEF FetchFromPrimary
    <3>2. c \in Channels /\ c \notin skip[r]
      BY CandidateUsable DEF Groups
    <3> QED BY <2>2, <3>1, <3>2 DEF FetchFromPrimary, Choose, TypeOK
  <2>3. CASE FetchFromBackup(r)
    <3>1. PICK c \in Candidates(r, "backup") : Choose(r, c, "backup")
      BY <2>3 DEF FetchFromBackup
    <3>2. c \in Channels /\ c \notin skip[r]
      BY CandidateUsable DEF Groups
    <3> QED BY <2>3, <3>1, <3>2 DEF FetchFromBackup, Choose, TypeOK
  <2>4. CASE FetchFails(r) BY <2>4 DEF FetchFails, TypeOK
  <2>5. CASE SendSucceeds(r) BY <2>5 DEF SendSucceeds, TypeOK
  <2>6. CASE SendFails(r) BY <2>6 DEF SendFails, Retries, Errors, Retryable, TypeOK
  <2>7. CASE Retry(r) BY <2>7 DEF Retry, SetCooldowns, TypeOK
  <2> QED BY <1>1, <2>1, <2>2, <2>3, <2>4, <2>5, <2>6, <2>7 DEF Relay
<1>2. CASE DisableChannel BY <1>2 DEF DisableChannel, TypeOK
<1>3. CASE EnableChannel BY <1>3 DEF EnableChannel, TypeOK
<1>4. CASE Expire BY <1>4 DEF Expire, TypeOK
<1>5. CASE CleanupExpiredCooldowns BY <1>5 DEF CleanupExpiredCooldowns, TypeOK
<1>6. CASE UNCHANGED vars BY <1>6 DEF vars, choiceVars
<1> QED BY <1>1, <1>2, <1>3, <1>4, <1>5, <1>6 DEF Next, Chooser

\* One more channel is at most one more in the count.
LEMMA AddedOne ==
    ASSUME NEW S, IsFiniteSet(S), NEW c, NEW n \in Int, Cardinality(S) <= n
    PROVE  IsFiniteSet(S \cup {c}) /\ Cardinality(S \cup {c}) <= n + 1
<1>1. Cardinality(S) \in Nat
  BY FS_CardinalityType
<1> QED BY <1>1, FS_AddElement

\* Every step keeps the count of what was tried.
LEMMA CountedStep == TypeOK /\ TriedCounted /\ [Next]_vars => TriedCounted'
<1> SUFFICES ASSUME TypeOK, TriedCounted, [Next]_vars PROVE TriedCounted'
    OBVIOUS
<1> USE RetryAssumption DEF TriedCounted, Goto, choiceVars
<1>1. ASSUME NEW r \in Requests, Relay(r) PROVE TriedCounted'
  <2>1. CASE FetchChannelById(r) BY <2>1 DEF FetchChannelById, Choose, TypeOK
  <2>2. CASE FetchFromPrimary(r) BY <2>2 DEF FetchFromPrimary, Choose, Candidates, Usable, TypeOK
  <2>3. CASE FetchFromBackup(r) BY <2>3 DEF FetchFromBackup, Choose, Candidates, Usable, TypeOK
  <2>4. CASE FetchFails(r)
    <3>1. left' = left /\ tried' = tried /\ pc[r] = "choose" /\ pc'[r] = "answered"
      BY <2>4 DEF FetchFails, TypeOK
    <3>2. \A q \in Requests \ {r} : pc'[q] = pc[q]
      BY <2>4 DEF FetchFails, TypeOK
    <3>3. left[r] \in 0..RetryTimes /\ Cardinality(tried[r]) \in Nat
      BY FS_CardinalityType DEF TypeOK
    <3> QED BY <3>1, <3>2, <3>3
  <2>5. CASE SendSucceeds(r)
    <3>1. IsFiniteSet(tried[r]) /\ Cardinality(tried[r]) <= RetryTimes - left[r]
      BY <2>5 DEF SendSucceeds
    <3>n. RetryTimes - left[r] \in Int
      BY DEF TypeOK
    <3>2. /\ IsFiniteSet(tried[r] \cup {chan[r]})
          /\ Cardinality(tried[r] \cup {chan[r]}) <= RetryTimes - left[r] + 1
      <4> HIDE DEF TriedCounted
      <4> QED BY ONLY <3>1, <3>n, AddedOne
    <3>3. tried' = [tried EXCEPT ![r] = tried[r] \cup {chan[r]}] /\ left' = left
      BY <2>5 DEF SendSucceeds
    <3>4. pc'[r] \in {"failed", "answered"} /\ \A q \in Requests \ {r} : pc'[q] = pc[q]
      BY <2>5 DEF SendSucceeds, TypeOK
    <3>5. left[r] \in 0..RetryTimes /\ tried'[r] = tried[r] \cup {chan[r]}
      BY <3>3 DEF TypeOK
    <3>6. Cardinality(tried'[r]) <= RetryTimes + 1
      BY <3>2, <3>5, FS_CardinalityType
    <3> QED BY <3>2, <3>3, <3>4, <3>5, <3>6 DEF TypeOK
  <2>6. CASE SendFails(r)
    <3>1. IsFiniteSet(tried[r]) /\ Cardinality(tried[r]) <= RetryTimes - left[r]
      BY <2>6 DEF SendFails
    <3>n. RetryTimes - left[r] \in Int
      BY DEF TypeOK
    <3>2. /\ IsFiniteSet(tried[r] \cup {chan[r]})
          /\ Cardinality(tried[r] \cup {chan[r]}) <= RetryTimes - left[r] + 1
      <4> HIDE DEF TriedCounted
      <4> QED BY ONLY <3>1, <3>n, AddedOne
    <3>3. tried' = [tried EXCEPT ![r] = tried[r] \cup {chan[r]}] /\ left' = left
      BY <2>6 DEF SendFails
    <3>4. pc'[r] \in {"failed", "answered"} /\ \A q \in Requests \ {r} : pc'[q] = pc[q]
      BY <2>6 DEF SendFails, TypeOK
    <3>5. left[r] \in 0..RetryTimes /\ tried'[r] = tried[r] \cup {chan[r]}
      BY <3>3 DEF TypeOK
    <3>6. Cardinality(tried'[r]) <= RetryTimes + 1
      BY <3>2, <3>5, FS_CardinalityType
    <3> QED BY <3>2, <3>3, <3>4, <3>5, <3>6 DEF TypeOK
  <2>7. CASE Retry(r)
    <3>1. left' = [left EXCEPT ![r] = left[r] - 1] /\ tried' = tried
      BY <2>7 DEF Retry
    <3>2. pc[r] = "failed" /\ pc'[r] \in {"choose", "answered"}
      BY <2>7 DEF Retry, TypeOK
    <3>3. \A q \in Requests \ {r} : pc'[q] = pc[q] /\ left'[q] = left[q]
      BY <2>7 DEF Retry, TypeOK
    <3>4. left'[r] = left[r] - 1 /\ left[r] \in 0..RetryTimes
      BY <3>1 DEF TypeOK
    <3>5. Cardinality(tried[r]) \in Nat
      BY FS_CardinalityType
    <3> QED BY <3>1, <3>2, <3>3, <3>4, <3>5 DEF TypeOK
  <2> QED BY <1>1, <2>1, <2>2, <2>3, <2>4, <2>5, <2>6, <2>7 DEF Relay
<1>2. CASE DisableChannel BY <1>2 DEF DisableChannel, TypeOK
<1>3. CASE EnableChannel BY <1>3 DEF EnableChannel, TypeOK
<1>4. CASE Expire BY <1>4 DEF Expire, TypeOK
<1>5. CASE CleanupExpiredCooldowns BY <1>5 DEF CleanupExpiredCooldowns, TypeOK
<1>6. CASE UNCHANGED vars BY <1>6 DEF vars, choiceVars
<1> QED BY <1>1, <1>2, <1>3, <1>4, <1>5, <1>6 DEF Next, Chooser

\* The invariant holds at first.
LEMMA InitOK == Init => IInv
<1> SUFFICES ASSUME Init PROVE IInv
    OBVIOUS
<1>1. TypeOK
  BY RuleAssumption, RetryAssumption DEF Init, TypeOK, Groups
<1>2. TriedSkipped
  BY DEF Init, TriedSkipped
<1>3. TriedCounted
  BY RetryAssumption, FS_EmptySet DEF Init, TriedCounted
<1> QED BY <1>1, <1>2, <1>3 DEF IInv

\* The inductive invariant holds throughout.
THEOREM Invariance == Spec => []IInv
<1>1. IInv /\ [Next]_vars => IInv'
  BY TypeStep, SkippedStep, CountedStep DEF IInv
<1> QED BY InitOK, <1>1, PTL DEF Spec

\* Every variable of the retry loop keeps its type.
THEOREM TypeCorrect == Spec => []TypeOK
<1>1. IInv => TypeOK
  BY DEF IInv
<1> QED BY Invariance, <1>1, PTL

\* No request is sent to a channel twice, whatever cooldowns, edits and other
\* requests do between its rounds.
THEOREM ChannelsDiffer == Spec => []NoChannelTwice
<1>1. IInv => NoChannelTwice
  BY DEF IInv, TriedSkipped, NoChannelTwice
<1> QED BY Invariance, <1>1, PTL

\* No request is sent to more than RetryTimes + 1 channels.
THEOREM RetriesBounded == Spec => []CallsBounded
<1>1. ASSUME TypeOK, TriedCounted PROVE CallsBounded
  <2> SUFFICES ASSUME NEW r \in Requests PROVE Cardinality(tried[r]) <= RetryTimes + 1
    BY DEF CallsBounded
  <2>1. left[r] \in 0..RetryTimes /\ Cardinality(tried[r]) \in Nat
    BY <1>1, FS_CardinalityType DEF TypeOK, TriedCounted
  <2> QED BY <1>1, <2>1, RetryAssumption DEF TypeOK, TriedCounted
<1>2. IInv => CallsBounded
  BY <1>1 DEF IInv
<1> QED BY Invariance, <1>2, PTL
=============================================================================
