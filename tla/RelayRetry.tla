----------------------------- MODULE RelayRetry -----------------------------
(***************************************************************************)
(* How the relay picks channels: Relay with its retry loop, GroupManager,   *)
(* ChannelsChooser.Next with cooldowns, and the disabling of channels by    *)
(* relay errors.  Requests run side by side and share the chooser.  Time is *)
(* left to chance: a cooldown may pass and a request may have taken too     *)
(* long at any moment.                                                      *)
(***************************************************************************)
EXTENDS Integers, FiniteSets

CONSTANTS Requests, Channels, Models,
          Members,        \* Rule: the channels of the primary and backup group
          Priority,       \* of a channel
          NewModel,       \* model mapping of a channel
          Unsuitable,     \* kept from a request by its kind or by an administrator
          RetryTimes, RetryCooldownSeconds,
          None

Groups == {"primary", "backup"}

ASSUME RuleAssumption ==
    /\ Members \in [Groups -> SUBSET Channels]
    /\ Priority \in [Channels -> Int]
    /\ NewModel \in [Channels -> [Models -> Models]]
    /\ Unsuitable \in [Requests -> SUBSET Channels]
ASSUME RetryAssumption == RetryTimes \in Nat /\ RetryCooldownSeconds \in Nat
ASSUME NoneAssumption == None \notin Channels

VARIABLES
    \* the gin context and the locals of Relay, per request
    pc, model, specific,  \* next step; requested model; specific_channel_id
    chan, group,          \* the channel chosen and the group it was found in
    ratio,                \* the group whose group_ratio the context has
    skip,                 \* skip_channel_ids
    left, err,            \* retries left, and apiErr
    \* ChannelsChooser and the channel table
    cooldown,             \* Cooldowns: "none", "on", or "expired" and not cleaned up
    disabled,             \* channels disabled in the table and in the snapshot
    failing,              \* processChannelRelayError goroutines that will disable
    \* history
    tried                 \* channels a request was sent to

choiceVars == <<chan, group, ratio>>
vars == <<pc, model, specific, choiceVars, skip, left, err, cooldown, disabled,
          failing, tried>>

\* StatusCode and LocalError of an answer, as shouldRetry tells them apart: 429;
\* 401 and whatever else disables a channel; 5xx; 400, 408, 504, 524; and
\* local errors or done.
Retryable == {"limited", "unauthorized", "server"}
Errors == Retryable \cup {"rejected", "local", "timeout", "noChannel"}

\* Every variable of the retry loop has its type.
TypeOK ==
    /\ pc \in [Requests -> {"choose", "send", "failed", "answered"}]
    /\ model \in [Requests -> Models]
    /\ specific \in [Requests -> Channels \cup {None}]
    /\ chan \in [Requests -> Channels \cup {None}]
    /\ group \in [Requests -> Groups] /\ ratio \in [Requests -> Groups]
    /\ skip \in [Requests -> SUBSET Channels]
    /\ left \in [Requests -> 0..RetryTimes]
    /\ err \in [Requests -> Errors \cup {"none"}]
    /\ cooldown \in [Channels -> [Models -> {"none", "on", "expired"}]]
    /\ disabled \in SUBSET Channels /\ failing \in SUBSET Channels
    /\ tried \in [Requests -> SUBSET Channels]

\* An administrator may name a channel.
Init ==
    /\ pc = [r \in Requests |-> "choose"]
    /\ model \in [Requests -> Models]
    /\ specific \in [Requests -> Channels \cup {None}]
    /\ chan = [r \in Requests |-> None]
    /\ group = [r \in Requests |-> "primary"]
    /\ ratio = [r \in Requests |-> "primary"]
    /\ skip = [r \in Requests |-> {}]
    /\ left = [r \in Requests |-> RetryTimes]
    /\ err = [r \in Requests |-> "none"]
    /\ cooldown = [c \in Channels |-> [m \in Models |-> "none"]]
    /\ disabled = {} /\ failing = {}
    /\ tried = [r \in Requests |-> {}]

Goto(r, label) == pc' = [pc EXCEPT ![r] = label]
-----------------------------------------------------------------------------
(* setProvider: fetchChannel, TryWithGroups and Next.                      *)

\* Mutant: the channels to skip are not looked at.
UsableUnskipped(r, grp) ==
    {c \in Members[grp] : /\ c \notin disabled
                          /\ cooldown[c][model[r]] # "on"
                          /\ c \notin Unsuitable[r]}

\* What balancer leaves of a group.
Usable(r, grp) ==
    {c \in Members[grp] : /\ c \notin disabled
                          /\ cooldown[c][model[r]] # "on"
                          /\ c \notin skip[r] \cup Unsuitable[r]}

\* Next: any channel of the highest priority with a usable one; the weights say
\* only how likely each is.
Candidates(r, grp) ==
    {c \in Usable(r, grp) : \A d \in Usable(r, grp) : Priority[d] <= Priority[c]}

Choose(r, c, grp) ==
    /\ chan' = [chan EXCEPT ![r] = c]
    /\ group' = [group EXCEPT ![r] = grp]
    /\ Goto(r, "send")

FetchChannelById(r) ==
    /\ pc[r] = "choose" /\ specific[r] # None
    /\ specific[r] \notin disabled
    /\ Choose(r, specific[r], "primary")
    /\ UNCHANGED <<model, specific, ratio, skip, left, err, cooldown, disabled,
                   failing, tried>>

FetchFromPrimary(r) ==
    /\ pc[r] = "choose" /\ specific[r] = None
    /\ \E c \in Candidates(r, "primary") : Choose(r, c, "primary")
    /\ UNCHANGED <<model, specific, ratio, skip, left, err, cooldown, disabled,
                   failing, tried>>

FetchFromBackup(r) ==
    /\ pc[r] = "choose" /\ specific[r] = None
    /\ Candidates(r, "primary") = {}
    /\ \E c \in Candidates(r, "backup") : Choose(r, c, "backup")
    /\ ratio' = [ratio EXCEPT ![r] = "backup"]
    /\ UNCHANGED <<model, specific, skip, left, err, cooldown, disabled, failing,
                   tried>>

\* Mutant: a request waits for a channel to become usable.
FetchWaits(r) ==
    /\ pc[r] = "choose"
    /\ specific[r] # None /\ specific[r] \in disabled
    /\ err' = [err EXCEPT ![r] = IF @ = "none" THEN "noChannel" ELSE @]
    /\ Goto(r, "answered")
    /\ UNCHANGED <<model, specific, choiceVars, skip, left, cooldown, disabled,
                   failing, tried>>

\* No channel, or a backup group without a ratio; a provider that fails once its
\* channel is chosen is left out.  A retry answers with the error it had.
FetchFails(r) ==
    /\ pc[r] = "choose"
    /\ IF specific[r] # None THEN specific[r] \in disabled ELSE Candidates(r, "primary") = {}
    /\ err' = [err EXCEPT ![r] = IF @ = "none" THEN "noChannel" ELSE @]
    /\ Goto(r, "answered")
    /\ UNCHANGED <<model, specific, choiceVars, skip, left, cooldown, disabled,
                   failing, tried>>
-----------------------------------------------------------------------------
(* RelayHandler, and the retry loop of Relay.                              *)

SendSucceeds(r) ==
    /\ pc[r] = "send"
    /\ err' = [err EXCEPT ![r] = "none"]
    /\ tried' = [tried EXCEPT ![r] = @ \cup {chan[r]}]
    /\ Goto(r, "answered")
    /\ UNCHANGED <<model, specific, choiceVars, skip, left, cooldown, disabled, failing>>

\* Mutant: one round too many.
RetriesOnceMore(r, e) == e \in Retryable /\ specific[r] = None

\* shouldRetry, which leaves requests for a specific channel alone.
Retries(r, e) == left[r] > 0 /\ e \in Retryable /\ specific[r] = None

\* An unauthorized answer stands for all that make ShouldDisableChannel true.
SendFails(r) ==
    /\ pc[r] = "send"
    /\ tried' = [tried EXCEPT ![r] = @ \cup {chan[r]}]
    /\ \E e \in Retryable \cup {"rejected", "local"} :
         /\ err' = [err EXCEPT ![r] = e]
         /\ failing' = IF e = "unauthorized" THEN failing \cup {chan[r]} ELSE failing
         /\ Goto(r, IF Retries(r, e) THEN "failed" ELSE "answered")
    /\ UNCHANGED <<model, specific, choiceVars, skip, left, cooldown, disabled>>

\* SetCooldowns: LoadOrStore keeps an entry that has expired.
SetCooldowns(c, m) ==
    cooldown' = [cooldown EXCEPT ![c][m] =
       IF RetryCooldownSeconds > 0 /\ @ = "none" THEN "on" ELSE @]

\* Mutant: the loop does not count its rounds.
RetryUncounted(r) ==
    /\ pc[r] = "failed"
    /\ IF err[r] = "limited" THEN SetCooldowns(chan[r], NewModel[chan[r]][model[r]])
                             ELSE UNCHANGED cooldown
    /\ skip' = [skip EXCEPT ![r] = @ \cup {chan[r]}]
    /\ \/ Goto(r, "choose") /\ UNCHANGED err
       \/ Goto(r, "answered") /\ err' = [err EXCEPT ![r] = "timeout"]
    /\ UNCHANGED <<model, specific, choiceVars, left, disabled, failing, tried>>

\* shouldCooldowns, and the test of RetryTimeOut.  The key has the mapped name.
Retry(r) ==
    /\ pc[r] = "failed"
    /\ IF err[r] = "limited" THEN SetCooldowns(chan[r], NewModel[chan[r]][model[r]])
                             ELSE UNCHANGED cooldown
    /\ skip' = [skip EXCEPT ![r] = @ \cup {chan[r]}]
    /\ left' = [left EXCEPT ![r] = @ - 1]
    /\ \/ Goto(r, "choose") /\ UNCHANGED err
       \/ Goto(r, "answered") /\ err' = [err EXCEPT ![r] = "timeout"]
    /\ UNCHANGED <<model, specific, choiceVars, disabled, failing, tried>>
-----------------------------------------------------------------------------
(* What goes on beside the requests.                                       *)

\* processChannelRelayError disables the channel of an error that calls for it.
\* The snapshot follows the row by a goroutine; WorkerLifecycle has both.
DisableChannel ==
    /\ \E c \in failing :
         failing' = failing \ {c} /\ disabled' = disabled \cup {c}
    /\ UNCHANGED <<pc, model, specific, choiceVars, skip, left, err, cooldown, tried>>

\* An administrator or a channel test enables it again.
EnableChannel ==
    /\ \E c \in disabled : disabled' = disabled \ {c}
    /\ UNCHANGED <<pc, model, specific, choiceVars, skip, left, err, cooldown, failing,
                   tried>>

\* A cooldown runs out.
Expire ==
    /\ \E c \in Channels, m \in Models :
         /\ cooldown[c][m] = "on"
         /\ cooldown' = [cooldown EXCEPT ![c][m] = "expired"]
    /\ UNCHANGED <<pc, model, specific, choiceVars, skip, left, err, disabled, failing,
                   tried>>

\* Every hour.
CleanupExpiredCooldowns ==
    /\ \E c \in Channels, m \in Models : cooldown[c][m] = "expired"
    /\ cooldown' = [c \in Channels |-> [m \in Models |->
                      IF cooldown[c][m] = "expired" THEN "none" ELSE cooldown[c][m]]]
    /\ UNCHANGED <<pc, model, specific, choiceVars, skip, left, err, disabled, failing,
                   tried>>
-----------------------------------------------------------------------------
Relay(r) ==
    \/ FetchChannelById(r) \/ FetchFromPrimary(r) \/ FetchFromBackup(r) \/ FetchFails(r)
    \/ SendSucceeds(r) \/ SendFails(r) \/ Retry(r)

Chooser ==
    \/ DisableChannel \/ EnableChannel \/ Expire \/ CleanupExpiredCooldowns

Next == (\E r \in Requests : Relay(r)) \/ Chooser

\* Every request's goroutine runs and providers answer or time out.
Fairness == \A r \in Requests : WF_vars(Relay(r))

Spec == Init /\ [][Next]_vars
FairSpec == Spec /\ Fairness
-----------------------------------------------------------------------------
(* Properties.                                                             *)

\* No request is sent to the same channel twice, whatever cooldowns, other
\* requests and administrators do between two rounds of the retry loop.
NoChannelTwice == \A r \in Requests : pc[r] = "send" => chan[r] \notin tried[r]

\* A request costs at most RetryTimes + 1 calls of providers.
CallsBounded == \A r \in Requests : Cardinality(tried[r]) <= RetryTimes + 1

\* Every request is answered in the end.
Answered == \A r \in Requests : <>(pc[r] = "answered")

\* The ratio a request is charged with when it is sent is that of the group
\* whose channel it is sent to.
RatioOfGroup ==
    \A r \in Requests : pc[r] = "send" /\ specific[r] = None => ratio[r] = group[r]
-----------------------------------------------------------------------------
\* The inductive invariant: what a request has tried is what it skips, and how
\* much of it there is at each step.
TriedSkipped ==
    \A r \in Requests :
       /\ pc[r] \in {"choose", "send"} =>
             tried[r] \subseteq skip[r] /\ (specific[r] # None => tried[r] = {})
       /\ pc[r] = "send" /\ specific[r] = None => chan[r] \notin skip[r]
       /\ pc[r] = "send" => chan[r] \in Channels
       /\ pc[r] = "failed" =>
             /\ specific[r] = None /\ left[r] > 0 /\ chan[r] \in Channels
             /\ tried[r] \subseteq skip[r] \cup {chan[r]}

TriedCounted ==
    \A r \in Requests :
       /\ IsFiniteSet(tried[r])
       /\ pc[r] \in {"choose", "send"} => Cardinality(tried[r]) <= RetryTimes - left[r]
       /\ pc[r] = "failed" => Cardinality(tried[r]) <= RetryTimes - left[r] + 1
       /\ pc[r] = "answered" => Cardinality(tried[r]) <= RetryTimes + 1

IInv == TypeOK /\ TriedSkipped /\ TriedCounted
=============================================================================
