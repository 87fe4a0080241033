-------------------------- MODULE WorkerDirectory --------------------------
(***************************************************************************)
(* What worker registration promises.  A namespace is leased to at most    *)
(* one session at a time, a lease passes from one session to the next only *)
(* by being given up first, and what the directory says of a worker (its   *)
(* owner, whether it is online, its channel) is written only under the     *)
(* lease.  WorkerLifecycle implements this with                            *)
(* SessionManager.byNamespace and the worker node rows.                    *)
(***************************************************************************)
CONSTANTS Namespaces, Sessions, Users, Channels, None

VARIABLES lease,     \* who holds each namespace
          provider,  \* the user a namespace belongs to, once registered
          presence,  \* whether the directory lists its worker
          route      \* the channel that stands for it

Presence == {"online", "busy", "offline"}

Init ==
    /\ lease = [n \in Namespaces |-> None]
    /\ provider = [n \in Namespaces |-> None]
    /\ presence = [n \in Namespaces |-> "offline"]
    /\ route = [n \in Namespaces |-> None]

Grant(n, s) ==
    /\ lease[n] = None
    /\ lease' = [lease EXCEPT ![n] = s]
    /\ UNCHANGED <<provider, presence, route>>

\* A namespace keeps the user that registered it first; no two namespaces
\* are routed to the same channel.
Enroll(n, u, c) ==
    /\ lease[n] # None
    /\ provider[n] \in {None, u}
    /\ \A m \in Namespaces \ {n} : route[m] # c
    /\ provider' = [provider EXCEPT ![n] = u]
    /\ route' = [route EXCEPT ![n] = c]
    /\ presence' = [presence EXCEPT ![n] = "online"]
    /\ UNCHANGED lease

Report(n, st) ==
    /\ lease[n] # None
    /\ provider[n] # None
    /\ presence' = [presence EXCEPT ![n] = st]
    /\ UNCHANGED <<lease, provider, route>>

GiveUp(n) ==
    /\ lease[n] # None
    /\ lease' = [lease EXCEPT ![n] = None]
    /\ UNCHANGED <<provider, presence, route>>

\* The gateway loses its memory, never its directory.
Forget ==
    /\ lease' = [n \in Namespaces |-> None]
    /\ UNCHANGED <<provider, presence, route>>

Next ==
    \/ \E n \in Namespaces :
         \/ \E s \in Sessions : Grant(n, s)
         \/ \E u \in Users, c \in Channels : Enroll(n, u, c)
         \/ \E st \in Presence : Report(n, st)
         \/ GiveUp(n)
    \/ Forget

vars == <<lease, provider, presence, route>>

Spec == Init /\ [][Next]_vars
=============================================================================
