------------------------- MODULE SmuxSession_order --------------------------
(* In SmuxSession readers get the data of a stream in order, and the end of   *)
(* an accepted stream after all of them, for any number of streams and units, *)
(* capacities of the channels and windows.                                    *)
EXTENDS SmuxSession_proofs

USE DEF transport, loops, queues, registry, tokens, handles, counts, shared, setup

\* A step is Zenon's unless it names SMT.
USE Zenon

-----------------------------------------------------------------------------
(* The units a queue carries.                                              *)

\* An empty queue carries no unit.
LEMMA CarriesEmpty == \A s : \A a \in Nat : Carries(<<>>, s, a, a)
BY SMT DEF Carries

\* A queue with no data of a stream carries none of its units.
LEMMA CarriesNothing ==
  ASSUME NEW q \in Seq(Frames), NEW s, NEW a \in Nat, NEW b \in Nat, Carries(q, s, a, b),
         ~Has(q, "PSH", s)
  PROVE  a = b
<1>1. a < b => a + 1 \in (a + 1)..b
    BY SMT
<1> QED
    BY <1>1, SMT DEF Carries, Has, Range

\* The next unit of a stream joins at the end of those a queue carries.
LEMMA CarriesAppend ==
  ASSUME NEW q \in Seq(Frames), NEW s, NEW a \in Nat, NEW b \in Nat, Carries(q, s, a, b),
         NEW f \in Frames
  PROVE  /\ ~(f.cmd = "PSH" /\ f.sid = s) => Carries(Append(q, f), s, a, b)
         /\ f.cmd = "PSH" /\ f.sid = s /\ f.n = b + 1 => Carries(Append(q, f), s, a, b + 1)
<1> DEFINE r == Append(q, f)
<1>1. \A k \in DOMAIN r : (k \in DOMAIN q /\ r[k] = q[k]) \/ (k = Len(q) + 1 /\ r[k] = f)
    BY AppendIs, SMT
<1>2. \A k \in DOMAIN q : k \in DOMAIN r /\ r[k] = q[k] /\ k < Len(q) + 1 /\ q[k] \in Frames
    BY AppendIs, SMT
<1>3. Len(q) + 1 \in DOMAIN r /\ r[Len(q) + 1] = f
    BY AppendIs, SMT
<1> HIDE DEF r
<1>4. CASE ~(f.cmd = "PSH" /\ f.sid = s)
    BY <1>1, <1>2, <1>3, <1>4, ZenonT(60) DEF Carries, r
<1>5. CASE f.cmd = "PSH" /\ f.sid = s /\ f.n = b + 1
  <2>1. \A i \in DOMAIN r : r[i].cmd = "PSH" /\ r[i].sid = s => r[i].n \in (a + 1)..(b + 1)
      BY <1>1, <1>5, SMT DEF Carries
  <2>2. \A n \in (a + 1)..(b + 1) : \E i \in DOMAIN r :
           r[i].cmd = "PSH" /\ r[i].sid = s /\ r[i].n = n
    <3> TAKE n \in (a + 1)..(b + 1)
    <3>1. CASE n = b + 1
        BY <3>1, <1>3, <1>5
    <3>2. CASE n \in (a + 1)..b
        BY <3>2, <1>2 DEF Carries
    <3> QED
        BY <3>1, <3>2, SMT
  <2>3. \A i, j \in DOMAIN r :
         /\ r[i].cmd = "PSH" /\ r[j].cmd = "PSH" /\ r[i].sid = s /\ r[j].sid = s /\ i < j
         => r[i].n < r[j].n
    <3> SUFFICES ASSUME NEW i \in DOMAIN r, NEW j \in DOMAIN r, r[i].cmd = "PSH",
                        r[j].cmd = "PSH", r[i].sid = s, r[j].sid = s, i < j
                 PROVE  r[i].n < r[j].n
        OBVIOUS
    <3>1. i \in DOMAIN q /\ r[i] = q[i]
        BY <1>1, <1>2, AppendIs, SMT DEF r
    <3>2. CASE j \in DOMAIN q /\ r[j] = q[j]
        BY <3>1, <3>2 DEF Carries
    <3>3. CASE r[j] = f
        BY <3>1, <3>3, <1>5, SMT DEF Carries
    <3> QED
        BY <3>2, <3>3, <1>1
  <2>4. a <= b + 1
      BY SMT DEF Carries
  <2> QED
      BY <1>5, <2>1, <2>2, <2>3, <2>4 DEF Carries, r
<1> QED
    BY <1>4, <1>5 DEF r

\* The head of a queue is the first of the units of its stream there.
LEMMA CarriesTail ==
  ASSUME NEW q \in Seq(Frames), q # <<>>, NEW s, NEW a \in Nat, NEW b \in Nat,
         Carries(q, s, a, b)
  PROVE  /\ ~(Head(q).cmd = "PSH" /\ Head(q).sid = s) => Carries(Tail(q), s, a, b)
         /\ Head(q).cmd = "PSH" /\ Head(q).sid = s =>
              Head(q).n = a + 1 /\ a + 1 <= b /\ Carries(Tail(q), s, a + 1, b)
<1> DEFINE r == Tail(q)
<1>1. \A k \in DOMAIN r : k + 1 \in DOMAIN q /\ r[k] = q[k + 1] /\ k \in Nat \ {0}
    BY TailIs, SMT
<1>2. \A k \in DOMAIN q : k = 1 \/ (k - 1 \in DOMAIN r /\ q[k] = r[k - 1] /\ k \in Nat /\ k > 1)
    BY TailIs, SMT
<1>3. 1 \in DOMAIN q /\ Head(q) = q[1]
    BY TailIs, SMT
<1>0. /\ a <= b
      /\ \A i \in DOMAIN q : q[i].cmd = "PSH" /\ q[i].sid = s => q[i].n \in (a + 1)..b
      /\ \A n \in (a + 1)..b : \E i \in DOMAIN q :
            q[i].cmd = "PSH" /\ q[i].sid = s /\ q[i].n = n
      /\ \A i, j \in DOMAIN q :
            /\ q[i].cmd = "PSH" /\ q[j].cmd = "PSH" /\ q[i].sid = s /\ q[j].sid = s /\ i < j
            => q[i].n < q[j].n
    BY DEF Carries
<1> HIDE DEF r
<1>4. \A i, j \in DOMAIN r :
         /\ r[i].cmd = "PSH" /\ r[j].cmd = "PSH" /\ r[i].sid = s /\ r[j].sid = s /\ i < j
         => r[i].n < r[j].n
  <2> SUFFICES ASSUME NEW i \in DOMAIN r, NEW j \in DOMAIN r, r[i].cmd = "PSH",
                      r[j].cmd = "PSH", r[i].sid = s, r[j].sid = s, i < j
               PROVE  r[i].n < r[j].n
      OBVIOUS
  <2>1. i + 1 < j + 1
      BY <1>1, SMT
  <2>2. /\ i + 1 \in DOMAIN q /\ j + 1 \in DOMAIN q /\ r[i] = q[i + 1]
        /\ r[j] = q[j + 1]
      BY <1>1
  <2> QED
      BY <1>0, <2>1, <2>2, SMT
<1>5. CASE ~(Head(q).cmd = "PSH" /\ Head(q).sid = s)
  <2>1. \A n \in (a + 1)..b : \E i \in DOMAIN r :
           r[i].cmd = "PSH" /\ r[i].sid = s /\ r[i].n = n
    <3> TAKE n \in (a + 1)..b
    <3>1. PICK i \in DOMAIN q : q[i].cmd = "PSH" /\ q[i].sid = s /\ q[i].n = n
        BY <1>0
    <3> QED
        BY <1>2, <1>3, <1>5, <3>1
  <2>2. \A i \in DOMAIN r : r[i].cmd = "PSH" /\ r[i].sid = s => r[i].n \in (a + 1)..b
      BY <1>0, <1>1, SMT
  <2> QED
      BY <1>0, <1>4, <1>5, <2>1, <2>2 DEF Carries, r
<1>6. CASE Head(q).cmd = "PSH" /\ Head(q).sid = s
  <2>1. q[1].n \in (a + 1)..b
      BY <1>3, <1>6 DEF Carries
  <2>2. PICK k \in DOMAIN q : q[k].cmd = "PSH" /\ q[k].sid = s /\ q[k].n = a + 1
    <3>1. a + 1 \in (a + 1)..b
        BY <2>1, SMT
    <3> QED
        BY <3>1 DEF Carries
  <2>3. k = 1
    <3>1. k # 1 => 1 < k
        BY <1>2
    <3>2. 1 < k => q[1].n < q[k].n
        BY <1>3, <1>6, <2>2 DEF Carries
    <3> QED
        BY <2>1, <2>2, <3>1, <3>2, SMT
  <2>4. \A i \in DOMAIN r : r[i].cmd = "PSH" /\ r[i].sid = s => r[i].n \in (a + 2)..b
    <3> SUFFICES ASSUME NEW i \in DOMAIN r, r[i].cmd = "PSH", r[i].sid = s
                 PROVE  r[i].n \in (a + 2)..b
        OBVIOUS
    <3>1. q[1].n < q[i + 1].n /\ q[i + 1].n \in (a + 1)..b
        BY <1>1, <1>3, <1>6, SMT DEF Carries
    <3> QED
        BY <3>1, <2>2, <2>3, <1>1, SMT
  <2>5. \A n \in (a + 2)..b : \E i \in DOMAIN r : r[i].cmd = "PSH" /\ r[i].sid = s /\ r[i].n = n
    <3> TAKE n \in (a + 2)..b
    <3>1. PICK j \in DOMAIN q : q[j].cmd = "PSH" /\ q[j].sid = s /\ q[j].n = n
        BY SMT DEF Carries
    <3>2. j # 1
        BY <3>1, <2>2, <2>3, SMT
    <3> QED
        BY <3>1, <3>2, <1>2
  <2> QED
      BY <1>4, <1>6, <2>1, <2>2, <2>3, <2>4, <2>5, <1>3, SMT DEF Carries, r
<1> QED
    BY <1>5, <1>6 DEF r

\* The first data frame on the wire is the unit after the last one received.
LEMMA CarriedTake ==
  ASSUME NEW w \in Seq(Frames), w # <<>>, NEW q, NEW s, NEW a \in Nat, NEW b \in Nat, NEW on,
         Carried(w, q, s, a, b, on)
  PROVE  /\ Head(w).cmd = "PSH" /\ Head(w).sid = s =>
              Head(w).n = a + 1 /\ Carried(Tail(w), q, s, a + 1, b, on)
         /\ ~(Head(w).cmd = "PSH" /\ Head(w).sid = s) => Carried(Tail(w), q, s, a, b, on)
<1>1. PICK m \in 0..b : Carries(w, s, a, m) /\ (on => Carries(q, s, m, b))
    BY DEF Carried
<1>2. m \in Nat
    BY SMT
<1>3. /\ Head(w).cmd = "PSH" /\ Head(w).sid = s =>
            Head(w).n = a + 1 /\ Carries(Tail(w), s, a + 1, m)
      /\ ~(Head(w).cmd = "PSH" /\ Head(w).sid = s) => Carries(Tail(w), s, a, m)
    BY <1>1, <1>2, CarriesTail
<1> QED
    BY <1>1, <1>3 DEF Carried

-----------------------------------------------------------------------------
(* Where the units of a stream are.                                        *)

\* The last unit that reached an end, by where it is.
LEMMA LastIs ==
  ASSUME TypeOK, NEW d \in Ends, NEW s \in Sids
  PROVE  /\ numRead[d][s] \in Nat /\ inbox[d][s] \in Seq(Nat) /\ Len(inbox[d][s]) \in Nat
         /\ LastUnit(d, s) \in Nat /\ held[d].n \in Nat /\ held[d].sid \in Sids
         /\ recv[d] = "blocked" /\ held[d].sid = s =>
              LastUnit(d, s) = numRead[d][s] + Len(inbox[d][s]) + 1
         /\ ~(recv[d] = "blocked" /\ held[d].sid = s) =>
              LastUnit(d, s) = numRead[d][s] + Len(inbox[d][s])
<1>1. numRead[d][s] \in Nat /\ inbox[d][s] \in Seq(Nat)
    BY SMT DEF TypeOK, CountTypes, RegistryTypes, PerStream, Bounded
<1>2. held[d] \in Frames
    BY DEF TypeOK, LoopTypes
<1>3. held[d].n \in Nat /\ held[d].sid \in Sids
    BY <1>2, FrameIs
<1> QED
    BY <1>1, <1>3, SMT DEF LastUnit

\* A sum with nothing to add.
LEMMA NoMore == \A x \in Nat : x + 0 = x
BY SMT

\* Lengths of the data channels.
LEMMA Sizes ==
  ASSUME NEW q \in Seq(Nat), NEW n \in Nat
  PROVE  /\ Len(q) \in Nat /\ Len(Append(q, n)) = Len(q) + 1
         /\ q # <<>> => Len(Tail(q)) = Len(q) - 1
BY SMT

\* The same, after the step.
LEMMA LastNext ==
  ASSUME TypeOK', NEW d \in Ends, NEW s \in Sids
  PROVE  /\ numRead'[d][s] \in Nat /\ Len(inbox'[d][s]) \in Nat
         /\ recv'[d] = "blocked" /\ held'[d].sid = s =>
              LastUnit(d, s)' = numRead'[d][s] + Len(inbox'[d][s]) + 1
         /\ ~(recv'[d] = "blocked" /\ held'[d].sid = s) =>
              LastUnit(d, s)' = numRead'[d][s] + Len(inbox'[d][s])
<1>1. numRead'[d][s] \in Nat /\ inbox'[d][s] \in Seq(Nat)
    BY SMT DEF TypeOK, CountTypes, RegistryTypes, PerStream, Bounded
<1>2. Len(inbox'[d][s]) \in Nat
    BY <1>1, Sizes
<1> QED
    BY <1>1, <1>2, SMT DEF LastUnit

\* Taking a unit from the wire adds one to the units of its stream, and of no other.
LEMMA UnitTaken ==
  ASSUME IInv, OrderInv, TypeOK', NEW e \in Ends, TakesUnit(e), NEW d \in Ends, NEW s \in Sids
  PROVE  /\ e = d /\ Head(wire[Peer(e)]).sid = s => LastUnit(d, s)' = LastUnit(d, s) + 1
         /\ ~(e = d /\ Head(wire[Peer(e)]).sid = s) => LastUnit(d, s)' = LastUnit(d, s)
<1>9. TypeOK
    BY DEF IInv, OrderInv
<1>4. inbox[d][s] \in Seq(Nat)
    BY <1>9, LastIs
<1>5. /\ numRead[d][s] \in Nat /\ Len(inbox[d][s]) \in Nat
      /\ recv[d] = "blocked" /\ held[d].sid = s =>
              LastUnit(d, s) = numRead[d][s] + Len(inbox[d][s]) + 1
      /\ ~(recv[d] = "blocked" /\ held[d].sid = s) =>
              LastUnit(d, s) = numRead[d][s] + Len(inbox[d][s])
    BY <1>9, LastIs
<1>6. /\ numRead'[d][s] \in Nat /\ Len(inbox'[d][s]) \in Nat
      /\ recv'[d] = "blocked" /\ held'[d].sid = s =>
              LastUnit(d, s)' = numRead'[d][s] + Len(inbox'[d][s]) + 1
      /\ ~(recv'[d] = "blocked" /\ held'[d].sid = s) =>
              LastUnit(d, s)' = numRead'[d][s] + Len(inbox'[d][s])
    BY LastNext
<1>7. ASSUME numRead'[d][s] = numRead[d][s], inbox'[d][s] = inbox[d][s],
             \/ recv'[d] = recv[d] /\ held'[d] = held[d]
             \/ recv[d] # "blocked" /\ recv'[d] # "blocked"
      PROVE  LastUnit(d, s)' = LastUnit(d, s)
    BY <1>5, <1>6, <1>7
<1>8. held \in [Ends -> Frames] /\ recv \in [Ends -> {"reading", "tokens", "blocked", "ended"}]
    BY DEF IInv, TypeOK, LoopTypes
<1> DEFINE h == Head(wire[Peer(e)])
<1>1. recv[e] = "reading" /\ UNCHANGED numRead /\ h.sid \in Sids /\ h.n \in Nat
    BY HeadOf DEF TakesUnit, Takes
<1>2. CASE Looped(e, entry[e]) /\ UNCHANGED held /\ Filled(e, h.sid, h.n)
  <2>1. recv'[d] = recv[d] \/ (recv[d] # "blocked" /\ recv'[d] # "blocked")
      BY <1>1, <1>2 DEF Looped
  <2>2. CASE e = d /\ h.sid = s
    <3>1. inbox'[d][s] = Append(inbox[d][s], h.n)
        BY <1>2, <2>2 DEF Filled
    <3>2. Len(inbox'[d][s]) = Len(inbox[d][s]) + 1
        BY <1>1, <1>4, <3>1, Sizes
    <3>3. recv[d] # "blocked" /\ recv'[d] # "blocked"
        BY <1>1, <1>2, <2>2 DEF Looped
    <3>4. LastUnit(d, s)' = LastUnit(d, s) + 1
      <4>1. numRead'[d][s] = numRead[d][s]
          BY <1>1
      <4> QED
          BY <1>5, <1>6, <3>2, <3>3, <4>1, SMT
    <3> QED
        BY <2>2, <3>4
  <2>3. CASE ~(e = d /\ h.sid = s)
    <3>1. inbox'[d][s] = inbox[d][s]
        BY <1>2, <2>3 DEF Filled
    <3> QED
        BY <1>1, <1>2, <1>7, <2>1, <2>3, <3>1
  <2> QED
      BY <2>2, <2>3
<1>3. CASE /\ recv' = [recv EXCEPT ![e] = "blocked"] /\ UNCHANGED inbox
           /\ held' = [held EXCEPT ![e] = h]
  <2>1. CASE d # e
    <3>1. recv'[d] = recv[d] /\ held'[d] = held[d]
        BY <1>3, <1>8, <2>1
    <3> QED
        BY <1>1, <1>3, <1>7, <2>1, <3>1
  <2>2. CASE d = e
    <3>1. recv'[d] = "blocked" /\ held'[d] = h /\ recv[d] # "blocked"
        BY <1>1, <1>3, <1>8, <2>2
    <3>2. CASE h.sid = s
      <4>1. LastUnit(d, s)' = LastUnit(d, s) + 1
        <5>1. numRead'[d][s] = numRead[d][s] /\ inbox'[d][s] = inbox[d][s]
            BY <1>1, <1>3
        <5> QED
            BY <1>5, <1>6, <3>1, <3>2, <5>1, ZenonT(60)
      <4> QED
          BY <2>2, <3>2, <4>1
    <3>3. CASE h.sid # s
      <4>1. numRead'[d][s] = numRead[d][s] /\ inbox'[d][s] = inbox[d][s]
          BY <1>1, <1>3
      <4> QED
          BY <1>5, <1>6, <3>1, <3>3, <4>1
    <3> QED
        BY <3>2, <3>3
  <2> QED
      BY <2>1, <2>2
<1> QED
    BY <1>2, <1>3, UnitAt

\* A unit leaves the wire, or what has left it stays where it is or goes on.
LEMMA UnitsStep ==
  ASSUME IInv, OrderInv, Links \/ Rests \/ \E e \in Ends : Moves(e), NEW d \in Ends, NEW s \in Sids,
         st'[d][s] # "dropped"
  PROVE  \/ LastUnit(d, s)' = LastUnit(d, s)
         \/ /\ TakesUnit(d) /\ Head(wire[Peer(d)]).sid = s
            /\ LastUnit(d, s)' = LastUnit(d, s) + 1
<1> DEFINE G == \/ LastUnit(d, s)' = LastUnit(d, s)
                \/ /\ TakesUnit(d) /\ Head(wire[Peer(d)]).sid = s
                   /\ LastUnit(d, s)' = LastUnit(d, s) + 1
<1>0. TypeOK /\ TypeOK'
    BY TypeStep DEF IInv, OrderInv
<1>14. inbox[d][s] \in Seq(Nat)
    BY <1>0, LastIs
<1>1. /\ numRead[d][s] \in Nat /\ Len(inbox[d][s]) \in Nat
      /\ recv[d] = "blocked" /\ held[d].sid = s =>
              LastUnit(d, s) = numRead[d][s] + Len(inbox[d][s]) + 1
      /\ ~(recv[d] = "blocked" /\ held[d].sid = s) =>
              LastUnit(d, s) = numRead[d][s] + Len(inbox[d][s])
    BY <1>0, LastIs
<1>2. /\ numRead'[d][s] \in Nat /\ Len(inbox'[d][s]) \in Nat
      /\ recv'[d] = "blocked" /\ held'[d].sid = s =>
              LastUnit(d, s)' = numRead'[d][s] + Len(inbox'[d][s]) + 1
      /\ ~(recv'[d] = "blocked" /\ held'[d].sid = s) =>
              LastUnit(d, s)' = numRead'[d][s] + Len(inbox'[d][s])
    BY <1>0, LastNext
<1>3. ASSUME numRead'[d][s] = numRead[d][s], inbox'[d][s] = inbox[d][s],
             \/ recv'[d] = recv[d] /\ held'[d] = held[d]
             \/ recv[d] # "blocked" /\ recv'[d] # "blocked"
      PROVE  G
    BY <1>1, <1>2, <1>3
<1>4. ASSUME UNCHANGED <<numRead, inbox, recv, held>>
      PROVE  G
    BY <1>3, <1>4
<1>5. CASE Links \/ Rests
    BY <1>4, <1>5 DEF Links, Rests
<1>6. ASSUME NEW e \in Ends,
             \/ OpenStream(e) \/ Accept(e) \/ Puts(e) \/ Stops(e)
             \/ \E f \in late[e] : LateUpdate(e, f)
             \/ \E t \in Sids : Writes(e, t) \/ Waits(e, t) \/ ReadEof(e, t) \/ CloseStream(e, t)
      PROVE  G
  <2>1. CASE \/ OpenStream(e) \/ Accept(e) \/ Puts(e) \/ Stops(e)
             \/ \E f \in late[e] : LateUpdate(e, f)
      BY <1>4, <2>1 DEF OpenStream, Accept, Puts, Stops, LateUpdate
  <2>2. CASE \E t \in Sids : Writes(e, t) \/ Waits(e, t) \/ ReadEof(e, t) \/ CloseStream(e, t)
      BY <1>4, <2>2 DEF Writes, Waits, ReadEof, CloseStream
  <2> QED
      BY <1>6, <2>1, <2>2
<1>7. inbox \in PerStream(Bounded(Nat, InboxCap)) /\ numRead \in PerStream(Nat)
      /\ held \in [Ends -> Frames] /\ recv \in [Ends -> {"reading", "tokens", "blocked", "ended"}]
    BY DEF IInv, TypeOK, RegistryTypes, CountTypes, LoopTypes
<1>8. ASSUME NEW e \in Ends, NEW t \in Sids, Reads(e, t)
      PROVE  G
  <2>1. /\ inbox[e][t] # <<>> /\ inbox' = [inbox EXCEPT ![e][t] = Tail(@)]
        /\ numRead' = [numRead EXCEPT ![e][t] = @ + 1] /\ UNCHANGED <<recv, held>>
      BY <1>8 DEF Reads
  <2>2. CASE e = d /\ t = s
    <3>1. inbox'[d][s] = Tail(inbox[d][s]) /\ numRead'[d][s] = numRead[d][s] + 1
        BY <1>7, <2>1, <2>2 DEF PerStream
    <3>2. Len(inbox'[d][s]) = Len(inbox[d][s]) - 1
        BY <1>14, <2>1, <2>2, <3>1, Sizes
    <3>3. recv'[d] = recv[d] /\ held'[d] = held[d]
        BY <2>1
    <3> QED
      <4>1. numRead'[d][s] = numRead[d][s] + 1
          BY <3>1
      <4> QED
        <5>1. \A n, k \in Nat : (n + 1) + (k - 1) = n + k /\ (n + 1) + (k - 1) + 1 = n + k + 1
            BY SMT
        <5>2. numRead'[d][s] + Len(inbox'[d][s]) = numRead[d][s] + Len(inbox[d][s])
            BY <1>1, <3>2, <4>1, <5>1, ZenonT(60)
        <5> QED
            BY <1>1, <1>2, <3>3, <5>2
  <2>3. CASE ~(e = d /\ t = s)
    <3>1. inbox'[d][s] = inbox[d][s] /\ numRead'[d][s] = numRead[d][s]
        BY <1>7, <2>1, <2>3 DEF PerStream
    <3> QED
        BY <1>3, <2>1, <3>1
  <2> QED
      BY <2>2, <2>3
<1>9. ASSUME NEW e \in Ends, NEW t \in Sids, DropStream(e, t)
      PROVE  G
  <2>1. /\ inbox' = [inbox EXCEPT ![e][t] = <<>>] /\ UNCHANGED <<numRead, recv, held>>
        /\ Handled(e, t, "dropped")
      BY <1>9, Handling DEF DropStream
  <2>2. ~(e = d /\ t = s)
      BY <2>1 DEF Handled
  <2>3. inbox'[d][s] = inbox[d][s]
      BY <1>7, <2>1, <2>2 DEF PerStream
  <2> QED
      BY <1>3, <2>1, <2>3
<1>10. ASSUME NEW e \in Ends, NEW x, Looped(e, x), recv[e] # "blocked",
              UNCHANGED <<numRead, inbox, held>>
       PROVE  G
  <2>1. recv'[d] = recv[d] \/ (recv[d] # "blocked" /\ recv'[d] # "blocked")
      BY <1>10 DEF Looped
  <2> QED
      BY <1>3, <1>10, <2>1
<1>11. ASSUME NEW e \in Ends, TakesSyn(e) \/ TakesFin(e) \/ TakesRest(e) \/ Loops(e)
       PROVE  G
  <2>1. recv[e] # "blocked"
      BY <1>11 DEF TakesSyn, TakesFin, TakesRest, Takes, Loops
  <2>2. UNCHANGED <<numRead, inbox, held>>
      BY <1>11 DEF TakesSyn, TakesFin, TakesRest, Takes, Loops
  <2>3. \E x : Looped(e, x)
      BY <1>11, SynAt, FinAt, RestAt, LoopsAt
  <2> QED
      BY <1>10, <2>1, <2>2, <2>3
<1>12. ASSUME NEW e \in Ends, TakesUnit(e)
       PROVE  G
    BY <1>0, <1>12, UnitTaken
<1>13. ASSUME NEW e \in Ends, Unblocks(e)
       PROVE  G
  <2>1. /\ recv[e] = "blocked" /\ UNCHANGED <<numRead, st>> /\ held[e].sid \in Sids
        /\ held[e].n \in Nat
      BY <1>0, <1>13, LastIs DEF Unblocks
  <2>0. held' = [held EXCEPT ![e] = NoFrame]
      BY <1>13 DEF Unblocks
  <2>2. CASE d # e
    <3>1. recv'[d] = recv[d] /\ held'[d] = held[d]
        BY <1>7, <1>13, <2>0, <2>2, UnblockAt, SMT DEF Looped
    <3>2. inbox'[d][s] = inbox[d][s]
      <4>1. Filled(e, held[e].sid, held[e].n) \/ UNCHANGED inbox
          BY <1>13, UnblockAt
      <4> QED
          BY <2>2, <4>1 DEF Filled
    <3>3. numRead'[d][s] = numRead[d][s]
        BY <2>1
    <3> QED
        BY <1>3, <3>1, <3>2, <3>3, ZenonT(60)
  <2>3. CASE d = e
    <3>0. recv'[d] # "blocked"
        BY <1>13, <2>3, UnblockAt, ZenonT(60) DEF Looped
    <3>1. CASE held[e].sid = s
      <4>1. inbox'[d][s] = Append(inbox[d][s], held[e].n)
        <5>1. st[e][held[e].sid] # "dropped"
            BY <2>1, <2>3, <3>1
        <5>2. Filled(e, held[e].sid, held[e].n)
            BY <1>13, <5>1, UnblockAt
        <5> QED
            BY <2>3, <3>1, <5>2 DEF Filled
      <4>2. Len(inbox'[d][s]) = Len(inbox[d][s]) + 1
          BY <1>14, <2>1, <4>1, Sizes
      <4> QED
        <5>1. numRead'[d][s] = numRead[d][s]
            BY <2>1
        <5>2. recv[d] = "blocked" /\ held[d].sid = s
            BY <2>1, <2>3, <3>1
        <5> QED
            BY <1>1, <1>2, <3>0, <4>2, <5>1, <5>2, SMT
    <3>2. CASE held[e].sid # s
      <4>1. inbox'[d][s] = inbox[d][s]
        <5>1. Filled(e, held[e].sid, held[e].n) \/ UNCHANGED inbox
            BY <1>13, UnblockAt
        <5> QED
            BY <2>3, <3>2, <5>1 DEF Filled
      <4> QED
        <5>1. numRead'[d][s] = numRead[d][s]
            BY <2>1
        <5> QED
            BY <1>1, <1>2, <2>3, <3>0, <3>2, <4>1, <5>1
    <3> QED
        BY <3>1, <3>2
  <2> QED
      BY <2>2, <2>3
<1> QED
    BY <1>5, <1>6, <1>8, <1>9, <1>11, <1>12, <1>13 DEF Moves, Receives

-----------------------------------------------------------------------------
(* The data channels.                                                      *)

\* What the streams map gains and loses.
LEMMA EntryStep ==
  ASSUME IInv, OrderInv, Links \/ Rests \/ \E e \in Ends : Moves(e), NEW d \in Ends, NEW s \in Sids
  PROVE  /\ recv[d] = "ended" => recv'[d] = "ended"
         /\ s \in entry'[d] => s \in entry[d] \/ st[d][s] = "none"
         /\ s \in entry[d] => \/ s \in entry'[d] \/ recv'[d] = "ended" \/ st[d][s] = "dropped"
                              \/ TakesFin(d) /\ Head(wire[Peer(d)]).sid = s
<1> DEFINE R == recv[d] = "ended" => recv'[d] = "ended"
           G == s \in entry'[d] => s \in entry[d] \/ st[d][s] = "none"
           L == s \in entry[d] => \/ s \in entry'[d] \/ recv'[d] = "ended" \/ st[d][s] = "dropped"
                                  \/ TakesFin(d) /\ Head(wire[Peer(d)]).sid = s
<1>1. ASSUME UNCHANGED <<recv, entry>>
      PROVE  R /\ G /\ L
    BY <1>1
<1>2. CASE Links \/ Rests
    BY <1>1, <1>2 DEF Links, Rests
<1>3. ASSUME NEW e \in Ends,
             \/ Accept(e) \/ Puts(e) \/ Stops(e) \/ \E f \in late[e] : LateUpdate(e, f)
             \/ \E t \in Sids : \/ Writes(e, t) \/ Waits(e, t) \/ Reads(e, t) \/ ReadEof(e, t)
                                \/ CloseStream(e, t) \/ DropStream(e, t)
      PROVE  UNCHANGED <<recv, entry>>
  <2>1. CASE Accept(e) \/ Puts(e) \/ Stops(e) \/ \E f \in late[e] : LateUpdate(e, f)
      BY <2>1 DEF Accept, Puts, Stops, LateUpdate
  <2>2. ASSUME NEW t \in Sids, \/ Writes(e, t) \/ Waits(e, t) \/ Reads(e, t) \/ ReadEof(e, t)
                               \/ CloseStream(e, t) \/ DropStream(e, t)
        PROVE  UNCHANGED <<recv, entry>>
      BY <2>2 DEF Writes, Waits, Reads, ReadEof, CloseStream, DropStream
  <2> QED
      BY <1>3, <2>1, <2>2
<1>4. ASSUME NEW e \in Ends, OpenStream(e)
      PROVE  R /\ G /\ L
  <2>1. /\ UNCHANGED recv /\ entry \in [Ends -> SUBSET Sids]
        /\ entry' = [entry EXCEPT ![e] = @ \cup {nextId[e]}]
      BY <1>4 DEF OpenStream, IInv, TypeOK, RegistryTypes
  <2>2. st[e][nextId[e]] = "none"
      BY <1>4, FirstSyn
  <2>3. /\ s \in entry[d] => s \in entry'[d]
        /\ s \in entry'[d] => s \in entry[d] \/ (d = e /\ s = nextId[e])
      BY <2>1
  <2> QED
      BY <2>1, <2>2, <2>3
<1>5. ASSUME NEW e \in Ends, NEW x, Looped(e, x), recv[e] # "ended",
             d = e => /\ s \in x => s \in entry[e] \/ st[e][s] = "none"
                      /\ s \in entry[e] => \/ s \in x \/ st[e][s] = "dropped"
                                           \/ TakesFin(e) /\ Head(wire[Peer(e)]).sid = s
      PROVE  R /\ G /\ L
  <2>1. CASE d # e
      BY <1>5, <2>1 DEF Looped
  <2>2. CASE d = e
    <3>1. (s \in entry'[e] => s \in x) /\ (recv'[e] # "ended" => entry'[e] = x)
        BY <1>5 DEF Looped
    <3> QED
        BY <1>5, <2>2, <3>1
  <2> QED
      BY <2>1, <2>2
<1>6. ASSUME NEW e \in Ends, Takes(e) \/ Unblocks(e) \/ Loops(e)
      PROVE  recv[e] # "ended"
    BY <1>6 DEF Takes, Unblocks, Loops
<1>7. ASSUME NEW e \in Ends, TakesSyn(e)
      PROVE  R /\ G /\ L
  <2>1. Looped(e, entry[e] \cup {Head(wire[Peer(e)]).sid}) /\ Takes(e)
      BY <1>7, SynAt DEF TakesSyn
  <2>2. st[e][Head(wire[Peer(e)]).sid] = "none"
      BY <1>7, SynNew DEF TakesSyn, Takes
  <2>3. /\ s \in entry[e] \cup {Head(wire[Peer(e)]).sid} => s \in entry[e] \/ st[e][s] = "none"
        /\ s \in entry[e] => s \in entry[e] \cup {Head(wire[Peer(e)]).sid}
      BY <2>2
  <2> QED
      BY <1>5, <1>6, <2>1, <2>3
<1>8. ASSUME NEW e \in Ends, TakesFin(e)
      PROVE  R /\ G /\ L
  <2>1. Looped(e, entry[e] \ {Head(wire[Peer(e)]).sid}) /\ Takes(e)
      BY <1>8, FinAt DEF TakesFin
  <2>2. /\ s \in entry[e] \ {Head(wire[Peer(e)]).sid} => s \in entry[e]
        /\ s \in entry[e] => \/ s \in entry[e] \ {Head(wire[Peer(e)]).sid}
                             \/ Head(wire[Peer(e)]).sid = s
      OBVIOUS
  <2> QED
      BY <1>5, <1>6, <1>8, <2>1, <2>2
<1>9. ASSUME NEW e \in Ends, TakesRest(e)
      PROVE  R /\ G /\ L
  <2>1. PICK D \in SUBSET Sids : /\ \A t \in D : t \in entry[e] => st[e][t] = "dropped"
                                 /\ Looped(e, entry[e] \ D)
      BY <1>9, RestAt
  <2>2. /\ s \in entry[e] \ D => s \in entry[e]
        /\ s \in entry[e] => s \in entry[e] \ D \/ st[e][s] = "dropped"
      BY <2>1
  <2>3. Takes(e)
      BY <1>9 DEF TakesRest
  <2> QED
      BY <1>5, <1>6, <2>1, <2>2, <2>3
<1>10. ASSUME NEW e \in Ends, Loops(e)
       PROVE  R /\ G /\ L
    BY <1>5, <1>6, <1>10, LoopsAt
<1>11. ASSUME NEW e \in Ends, TakesUnit(e)
       PROVE  R /\ G /\ L
  <2>1. Takes(e)
      BY <1>11 DEF TakesUnit
  <2>2. CASE Looped(e, entry[e])
      BY <1>5, <1>6, <2>1, <2>2
  <2>3. CASE recv' = [recv EXCEPT ![e] = "blocked"] /\ UNCHANGED entry
    <3>1. recv'[d] = recv[d] \/ d = e
        BY <2>3 DEF IInv, TypeOK, LoopTypes
    <3> QED
        BY <1>6, <2>1, <2>3, <3>1
  <2> QED
      BY <1>11, <2>2, <2>3, UnitAt
<1>12. ASSUME NEW e \in Ends, Unblocks(e)
       PROVE  R /\ G /\ L
  <2>1. CASE Looped(e, entry[e])
      BY <1>5, <1>6, <1>12, <2>1
  <2>2. CASE Looped(e, entry[e] \ {held[e].sid}) /\ st[e][held[e].sid] = "dropped"
    <3>1. /\ s \in entry[e] \ {held[e].sid} => s \in entry[e]
          /\ s \in entry[e] => s \in entry[e] \ {held[e].sid} \/ st[e][s] = "dropped"
        BY <2>2
    <3> QED
        BY <1>5, <1>6, <1>12, <2>2, <3>1
  <2> QED
      BY <1>12, <2>1, <2>2, UnblockAt
<1> QED
    BY <1>1, <1>2, <1>3, <1>4, <1>7, <1>8, <1>9, <1>10, <1>11, <1>12 DEF Moves, Receives

\* A stream that is dropped, or gone from the map, stays so.
LEMMA AliveStep ==
  ASSUME IInv, OrderInv, Links \/ Rests \/ \E e \in Ends : Moves(e), NEW d \in Ends, NEW s \in Sids
  PROVE  /\ st[d][s] = "dropped" => st'[d][s] = "dropped"
         /\ st[d][s] # "none" => st'[d][s] # "none"
         /\ Alive(d, s)' => Alive(d, s)
<1>1. st[d][s] = "dropped" => st'[d][s] = "dropped"
  <2>1. CASE UNCHANGED st
      BY <2>1
  <2>2. ASSUME NEW e \in Ends, OpenStream(e), Handled(e, nextId[e], "open")
        PROVE  st[d][s] = "dropped" => st'[d][s] = "dropped"
    <3>1. st[e][nextId[e]] = "none"
        BY <2>2, FirstSyn
    <3> QED
        BY <2>2, <3>1 DEF Handled
  <2>3. ASSUME NEW e \in Ends, Accept(e), Handled(e, Head(backlog[e]), "open")
        PROVE  st[d][s] = "dropped" => st'[d][s] = "dropped"
    <3>1. backlog[e] # <<>> => 1 \in DOMAIN backlog[e] /\ Head(backlog[e]) = backlog[e][1]
        BY SMT DEF IInv, TypeOK, RegistryTypes, Bounded
    <3>2. st[e][Head(backlog[e])] = "queued"
        BY <2>3, <3>1 DEF Accept, OrderInv, Handles, Queued
    <3> QED
        BY <2>3, <3>2 DEF Handled
  <2>4. ASSUME NEW e \in Ends, TakesSyn(e), Handled(e, Head(wire[Peer(e)]).sid, "queued")
        PROVE  st[d][s] = "dropped" => st'[d][s] = "dropped"
    <3>1. st[e][Head(wire[Peer(e)]).sid] = "none"
        BY <2>4, SynNew DEF TakesSyn, Takes
    <3> QED
        BY <2>4, <3>1 DEF Handled
  <2>5. ASSUME NEW e, NEW t, Handled(e, t, "dropped")
        PROVE  st[d][s] = "dropped" => st'[d][s] = "dropped"
      BY <2>5 DEF Handled
  <2> QED
      BY <2>1, <2>2, <2>3, <2>4, <2>5, HandleMoves
<1>2. st[d][s] # "none" => st'[d][s] # "none"
    BY Kept
<1>3. s \in entry'[d] => s \in entry[d] \/ st[d][s] = "none"
    BY EntryStep
<1> QED
    BY <1>1, <1>2, <1>3 DEF Alive

\* The unit that a stream takes continues what it has.
LEMMA NextUnit ==
  ASSUME IInv, OrderInv, NEW e \in Ends, TakesUnit(e)
  PROVE  Head(wire[Peer(e)]).n = LastUnit(e, Head(wire[Peer(e)]).sid) + 1
<1>1. PICK s : s = Head(wire[Peer(e)]).sid
    OBVIOUS
<1>2. PICK p : p = Peer(e)
    OBVIOUS
<1>3. /\ p \in Ends /\ Peer(p) = e /\ wire[p] # <<>> /\ wire[p] \in Seq(Frames) /\ s \in Sids
      /\ Head(wire[p]).cmd = "PSH" /\ s \in entry[e] /\ st[e][s] # "dropped"
    BY <1>1, <1>2, HeadOf, Ending DEF TakesUnit, Takes
<1>4. Alive(e, s)
    BY <1>3 DEF Alive
<1>5. Carried(wire[p], DataQueue(p, s), s, LastUnit(e, s), written[p][s], Up(p))
    BY <1>3, <1>4 DEF OrderInv, Flow
<1>6. LastUnit(e, s) \in Nat /\ written[p][s] \in Nat
  <2>1. LastUnit(e, s) \in Nat
      BY <1>3, LastIs DEF IInv, OrderInv
  <2>2. written[p][s] \in Nat
      BY <1>3, SMT DEF IInv, TypeOK, CountTypes, PerStream
  <2> QED
      BY <2>1, <2>2
<1>7. PICK on \in BOOLEAN : on = Up(p)
    BY DEF Up
<1>8. Carried(wire[p], DataQueue(p, s), s, LastUnit(e, s), written[p][s], on)
    BY <1>5, <1>7 DEF Carried
<1>10. Head(wire[p]).sid = s
    BY <1>1, <1>2
<1>9. Head(wire[p]).n = LastUnit(e, s) + 1
    BY <1>3, <1>6, <1>8, <1>10, CarriedTake, ZenonT(60)
<1> QED
    BY <1>1, <1>2, <1>9

\* A step keeps HeldNext: the blocked loop holds the next unit.
LEMMA HeldStep ==
  ASSUME IInv, OrderInv, Links \/ Rests \/ \E e \in Ends : Moves(e)
  PROVE  HeldNext'
<1> SUFFICES ASSUME NEW d \in Ends, recv'[d] = "blocked", st'[d][held'[d].sid] # "dropped"
             PROVE  (held[d].sid \in entry[d] /\ held[d].n = LastUnit(d, held[d].sid))'
    BY DEF HeldNext
<1> DEFINE G == (held[d].sid \in entry[d] /\ held[d].n = LastUnit(d, held[d].sid))'
<1>0. /\ held \in [Ends -> Frames] /\ recv \in [Ends -> {"reading", "tokens", "blocked", "ended"}]
      /\ TypeOK
    BY DEF IInv, TypeOK, LoopTypes
<1>1. ASSUME recv[d] = "blocked", held'[d] = held[d]
      PROVE  G
  <2>0. PICK s : s = held[d].sid
      OBVIOUS
  <2>1. s \in Sids /\ st'[d][s] # "dropped" /\ held'[d].sid = s
    <3>1. held[d].sid \in Sids
        BY <1>0, FrameIs
    <3>2. held'[d].sid = s
        BY <1>1, <2>0
    <3> QED
        BY <2>0, <3>1, <3>2
  <2>2. st[d][s] # "dropped"
      BY <2>1, AliveStep
  <2>3. s \in entry[d] /\ held[d].n = LastUnit(d, s)
      BY <1>1, <2>0, <2>2 DEF OrderInv, HeldNext
  <2>4. ~TakesUnit(d) /\ ~TakesFin(d) /\ recv'[d] # "ended"
      BY <1>1 DEF TakesUnit, TakesFin, Takes
  <2>5. s \in entry'[d]
      BY <2>1, <2>2, <2>3, <2>4, EntryStep
  <2>6. LastUnit(d, s)' = LastUnit(d, s)
      BY <2>1, <2>4, UnitsStep
  <2> QED
      BY <1>1, <2>1, <2>3, <2>5, <2>6
<1>2. ASSUME UNCHANGED <<recv, held>>
      PROVE  G
    BY <1>1, <1>2
<1>3. CASE Links \/ Rests
    BY <1>2, <1>3 DEF Links, Rests
<1>4. ASSUME NEW e \in Ends,
             \/ OpenStream(e) \/ Accept(e) \/ Puts(e) \/ Stops(e)
             \/ \E f \in late[e] : LateUpdate(e, f)
      PROVE  G
    BY <1>2, <1>4 DEF OpenStream, Accept, Puts, Stops, LateUpdate
<1>5. ASSUME NEW e \in Ends, NEW t \in Sids,
             \/ Writes(e, t) \/ Waits(e, t) \/ Reads(e, t) \/ ReadEof(e, t)
             \/ CloseStream(e, t) \/ DropStream(e, t)
      PROVE  G
    BY <1>2, <1>5 DEF Writes, Waits, Reads, ReadEof, CloseStream, DropStream
<1>6. ASSUME NEW e \in Ends, NEW x, Looped(e, x), UNCHANGED held \/ held' = [held EXCEPT ![e] = NoFrame]
      PROVE  G
  <2>1. d # e /\ recv[d] = "blocked"
      BY <1>6 DEF Looped
  <2>2. held'[d] = held[d]
      BY <1>0, <1>6, <2>1
  <2> QED
      BY <1>1, <2>1, <2>2
<1>7. ASSUME NEW e \in Ends, TakesSyn(e) \/ TakesFin(e) \/ TakesRest(e) \/ Loops(e) \/ Unblocks(e)
      PROVE  G
  <2>1. UNCHANGED held \/ held' = [held EXCEPT ![e] = NoFrame]
      BY <1>7, SynAt, FinAt, RestAt, LoopsAt, UnblockAt
  <2>2. \E x : Looped(e, x)
      BY <1>7, SynAt, FinAt, RestAt, LoopsAt, UnblockAt
  <2> QED
      BY <1>6, <2>1, <2>2
<1>8. ASSUME NEW e \in Ends, TakesUnit(e)
      PROVE  G
  <2>1. CASE Looped(e, entry[e]) /\ UNCHANGED held
      BY <1>6, <2>1
  <2>2. CASE /\ recv' = [recv EXCEPT ![e] = "blocked"] /\ UNCHANGED <<entry, inbox>>
             /\ held' = [held EXCEPT ![e] = Head(wire[Peer(e)])]
    <3>1. CASE d # e
      <4>1. recv'[d] = recv[d] /\ held'[d] = held[d]
          BY <1>0, <2>2, <3>1
      <4> QED
          BY <1>1, <4>1
    <3>2. CASE d = e
      <4>0. PICK s : s = Head(wire[Peer(e)]).sid
          OBVIOUS
      <4>1. held'[d] = Head(wire[Peer(e)]) /\ UNCHANGED entry
          BY <1>0, <2>2, <3>2
      <4>2. /\ s \in entry[e] /\ s \in Sids /\ UNCHANGED <<st, numRead>> /\ recv[e] # "blocked"
            /\ Head(wire[Peer(e)]).n = LastUnit(e, s) + 1
        <5>1. s \in Sids
            BY <1>8, <4>0, HeadOf DEF TakesUnit, Takes
        <5>2. recv[e] = "reading" /\ UNCHANGED <<st, numRead>> /\ s \in entry[e]
            BY <1>8, <4>0 DEF TakesUnit, Takes
        <5>3. recv[e] # "blocked"
            BY <5>2
        <5> QED
            BY <1>8, <4>0, <5>1, <5>2, <5>3, NextUnit
      <4>3. LastUnit(e, s) = numRead[e][s] + Len(inbox[e][s])
          BY <1>0, <4>2, LastIs
      <4>4. held'[e].sid = s /\ recv'[e] = "blocked"
          BY <3>2, <4>0, <4>1
      <4>5. LastUnit(e, s)' = numRead[e][s] + Len(inbox[e][s]) + 1
        <5>1. numRead'[e][s] = numRead[e][s] /\ inbox'[e][s] = inbox[e][s]
            BY <2>2, <4>2
        <5> QED
            BY <4>4, <5>1 DEF LastUnit
      <4> QED
          BY <3>2, <4>1, <4>2, <4>3, <4>4, <4>5
    <3> QED
        BY <3>1, <3>2
  <2> QED
      BY <1>8, <2>1, <2>2, UnitAt
<1> QED
    BY <1>3, <1>4, <1>5, <1>7, <1>8 DEF Moves, Receives

\* A step keeps InOrder.
LEMMA InOrderStep ==
  ASSUME IInv, OrderInv, Links \/ Rests \/ \E e \in Ends : Moves(e)
  PROVE  InOrder'
<1> SUFFICES ASSUME NEW d \in Ends, NEW s \in Sids
             PROVE  \A i \in DOMAIN inbox'[d][s] : inbox'[d][s][i] = numRead'[d][s] + i
    BY DEF InOrder
<1> DEFINE G == \A i \in DOMAIN inbox'[d][s] : inbox'[d][s][i] = numRead'[d][s] + i
<1>0. TypeOK /\ inbox \in PerStream(Bounded(Nat, InboxCap)) /\ numRead \in PerStream(Nat)
    BY DEF IInv, TypeOK, RegistryTypes, CountTypes
<1>1. numRead[d][s] \in Nat /\ inbox[d][s] \in Seq(Nat)
    BY <1>0, LastIs
<1>2. \A i \in DOMAIN inbox[d][s] : inbox[d][s][i] = numRead[d][s] + i
    BY DEF OrderInv, InOrder
<1>3. ASSUME inbox'[d][s] = inbox[d][s], numRead'[d][s] = numRead[d][s]
      PROVE  G
    BY <1>2, <1>3
<1>4. ASSUME NEW n, n = numRead[d][s] + Len(inbox[d][s]) + 1,
             inbox'[d][s] = Append(inbox[d][s], n), numRead'[d][s] = numRead[d][s]
      PROVE  G
  <2>1. ASSUME NEW q \in Seq(Nat), NEW k \in Nat, NEW r, r = Append(q, k)
        PROVE  /\ DOMAIN r = 1..(Len(q) + 1) /\ DOMAIN q = 1..Len(q)
               /\ r[Len(q) + 1] = k
               /\ \A i \in 1..Len(q) : r[i] = q[i]
      BY <2>1, SMT
  <2>2. Len(inbox[d][s]) \in Nat
      BY <1>1, SMT
  <2>3. n \in Nat
      BY <1>1, <1>4, <2>2, SMT
  <2>4. \A i \in 1..(Len(inbox[d][s]) + 1) :
           i \in 1..Len(inbox[d][s]) \/ i = Len(inbox[d][s]) + 1
      BY <2>2, SMT
  <2>5. /\ DOMAIN inbox'[d][s] = 1..(Len(inbox[d][s]) + 1)
        /\ DOMAIN inbox[d][s] = 1..Len(inbox[d][s])
        /\ inbox'[d][s][Len(inbox[d][s]) + 1] = n
        /\ \A i \in 1..Len(inbox[d][s]) : inbox'[d][s][i] = inbox[d][s][i]
    <3>1. PICK q \in Seq(Nat) : q = inbox[d][s]
        BY <1>1
    <3>2. PICK r : r = inbox'[d][s]
        OBVIOUS
    <3>3. r = Append(q, n)
        BY <1>4, <3>1, <3>2
    <3>4. /\ DOMAIN r = 1..(Len(q) + 1) /\ DOMAIN q = 1..Len(q)
          /\ r[Len(q) + 1] = n
          /\ \A i \in 1..Len(q) : r[i] = q[i]
        BY <2>1, <2>3, <3>3, SMT
    <3> QED
        BY <3>1, <3>2, <3>4
  <2>6. numRead[d][s] + Len(inbox[d][s]) + 1 = numRead[d][s] + (Len(inbox[d][s]) + 1)
      BY <1>1, <2>2, SMT
  <2> QED
    <3> SUFFICES ASSUME NEW i \in DOMAIN inbox'[d][s]
                 PROVE  inbox'[d][s][i] = numRead'[d][s] + i
        OBVIOUS
    <3>1. CASE i \in 1..Len(inbox[d][s])
        BY <1>2, <1>4, <2>5, <3>1
    <3>2. CASE i = Len(inbox[d][s]) + 1
        BY <1>4, <2>5, <2>6, <3>2
    <3> QED
        BY <2>4, <2>5, <3>1, <3>2
<1>5. ASSUME UNCHANGED <<inbox, numRead>>
      PROVE  G
    BY <1>3, <1>5
<1>6. CASE Links \/ Rests
    BY <1>5, <1>6 DEF Links, Rests
<1>7. ASSUME NEW e \in Ends,
             \/ OpenStream(e) \/ Accept(e) \/ Puts(e) \/ Stops(e)
             \/ \E f \in late[e] : LateUpdate(e, f)
      PROVE  G
    BY <1>5, <1>7 DEF OpenStream, Accept, Puts, Stops, LateUpdate
<1>8. ASSUME NEW e \in Ends, NEW t \in Sids,
             Writes(e, t) \/ Waits(e, t) \/ ReadEof(e, t) \/ CloseStream(e, t)
      PROVE  G
    BY <1>5, <1>8 DEF Writes, Waits, ReadEof, CloseStream
<1>9. ASSUME NEW e \in Ends, TakesSyn(e) \/ TakesFin(e) \/ TakesRest(e) \/ Loops(e)
      PROVE  G
    BY <1>5, <1>9 DEF TakesSyn, TakesFin, TakesRest, Takes, Loops
<1>10. ASSUME NEW e \in Ends, NEW t \in Sids, DropStream(e, t)
       PROVE  G
  <2>1. inbox' = [inbox EXCEPT ![e][t] = <<>>] /\ UNCHANGED numRead
      BY <1>10 DEF DropStream
  <2>2. inbox'[d][s] = <<>> \/ inbox'[d][s] = inbox[d][s]
      BY <1>0, <2>1 DEF PerStream
  <2>3. CASE inbox'[d][s] = <<>>
      BY <2>3, SMT
  <2> QED
      BY <1>3, <2>1, <2>2, <2>3
<1>11. ASSUME NEW e \in Ends, NEW t \in Sids, Reads(e, t)
       PROVE  G
  <2>1. /\ inbox[e][t] # <<>> /\ inbox' = [inbox EXCEPT ![e][t] = Tail(@)]
        /\ numRead' = [numRead EXCEPT ![e][t] = @ + 1]
      BY <1>11 DEF Reads
  <2>2. CASE e = d /\ t = s
    <3>1. inbox'[d][s] = Tail(inbox[d][s]) /\ numRead'[d][s] = numRead[d][s] + 1
        BY <1>0, <2>1, <2>2 DEF PerStream
    <3>2. \A q \in Seq(Nat) : q # <<>> =>
            \A i \in DOMAIN Tail(q) : i \in Nat /\ i + 1 \in DOMAIN q /\ Tail(q)[i] = q[i + 1]
        BY SMT
    <3>3. \A i \in DOMAIN inbox'[d][s] :
            /\ i \in Nat /\ i + 1 \in DOMAIN inbox[d][s]
            /\ inbox'[d][s][i] = inbox[d][s][i + 1]
        BY <1>1, <2>1, <2>2, <3>1, <3>2
    <3>4. \A i \in Nat : numRead[d][s] + (i + 1) = (numRead[d][s] + 1) + i
        BY <1>1, SMT
    <3> QED
        BY <1>2, <3>1, <3>3, <3>4
  <2>3. CASE ~(e = d /\ t = s)
    <3>1. inbox'[d][s] = inbox[d][s] /\ numRead'[d][s] = numRead[d][s]
        BY <1>0, <2>1, <2>3 DEF PerStream
    <3> QED
        BY <1>3, <3>1
  <2> QED
      BY <2>2, <2>3
<1>12. ASSUME NEW e \in Ends, NEW t \in Sids, NEW n, Filled(e, t, n), UNCHANGED numRead,
              n = numRead[e][t] + Len(inbox[e][t]) + 1
       PROVE  G
  <2>1. CASE e = d /\ t = s
      BY <1>4, <1>12, <2>1 DEF Filled
  <2>2. CASE ~(e = d /\ t = s)
      BY <1>3, <1>12, <2>2 DEF Filled
  <2> QED
      BY <2>1, <2>2
<1>13. ASSUME NEW e \in Ends, TakesUnit(e)
       PROVE  G
  <2>0. PICK h : h = Head(wire[Peer(e)])
      OBVIOUS
  <2>1. recv[e] = "reading" /\ UNCHANGED numRead /\ h.sid \in Sids /\ h.n = LastUnit(e, h.sid) + 1
      BY <1>13, <2>0, HeadOf, NextUnit DEF TakesUnit, Takes
  <2>2. recv[e] # "blocked"
      BY <2>1
  <2>3. LastUnit(e, h.sid) = numRead[e][h.sid] + Len(inbox[e][h.sid])
      BY <1>0, <2>1, <2>2, LastIs
  <2>4. Filled(e, h.sid, h.n) \/ UNCHANGED inbox
      BY <1>13, <2>0, UnitAt
  <2> QED
      BY <1>5, <1>12, <2>1, <2>3, <2>4
<1>14. ASSUME NEW e \in Ends, Unblocks(e)
       PROVE  G
  <2>1. recv[e] = "blocked" /\ UNCHANGED numRead /\ held[e].sid \in Sids
    <3>1. held[e] \in Frames
        BY DEF IInv, TypeOK, LoopTypes
    <3> QED
        BY <1>14, <3>1, FrameIs DEF Unblocks
  <2>2. CASE Filled(e, held[e].sid, held[e].n) /\ st[e][held[e].sid] # "dropped"
    <3>1. held[e].n = LastUnit(e, held[e].sid)
        BY <2>1, <2>2 DEF OrderInv, HeldNext
    <3>2. LastUnit(e, held[e].sid) = numRead[e][held[e].sid] + Len(inbox[e][held[e].sid]) + 1
        BY <1>0, <2>1, LastIs
    <3> QED
        BY <1>12, <2>1, <2>2, <3>1, <3>2
  <2>3. CASE UNCHANGED inbox
      BY <1>5, <2>1, <2>3
  <2> QED
      BY <1>14, <2>2, <2>3, UnblockAt
<1> QED
    BY <1>6, <1>7, <1>8, <1>9, <1>10, <1>11, <1>13, <1>14 DEF Moves, Receives

-----------------------------------------------------------------------------
(* The data on their way.                                                  *)

\* A wire that does not shrink was not read.
LEMMA NotTaken ==
  ASSUME IInv, OrderInv, NEW d \in Ends,
         \/ wire'[Peer(d)] = wire[Peer(d)]
         \/ \E f \in Frames : wire'[Peer(d)] = Append(wire[Peer(d)], f)
  PROVE  ~Takes(d)
<1> SUFFICES ASSUME Takes(d)
             PROVE  FALSE
    OBVIOUS
<1>1. PICK q : q = wire[Peer(d)]
    OBVIOUS
<1>2. PICK r : r = wire'[Peer(d)]
    OBVIOUS
<1>3. q \in Seq(Frames) /\ q # <<>> /\ r = Tail(q)
    BY <1>1, <1>2, HeadOf, TakesAt DEF Takes
<1>4. r = q \/ \E f \in Frames : r = Append(q, f)
    BY <1>1, <1>2
<1> QED
    BY <1>3, <1>4, SMT

\* Data that reach a living stream, or one that is not open yet, are taken.
LEMMA DataTaken ==
  ASSUME IInv, OrderInv, NEW d \in Ends, NEW s \in Sids, Alive(d, s), Takes(d), Receives(d),
         Head(wire[Peer(d)]).cmd = "PSH", Head(wire[Peer(d)]).sid = s
  PROVE  TakesUnit(d)
<1>1. PICK p : p = Peer(d)
    OBVIOUS
<1>2. p \in Ends /\ Peer(p) = d /\ p # d /\ wire[p] # <<>> /\ recv[d] = "reading"
    BY <1>1, Ending DEF Takes
<1>3. wire[p] \in Seq(Frames) /\ Made(p, Head(wire[p])) /\ Head(wire[p]).cmd = "PSH"
      /\ Head(wire[p]).sid = s
    BY <1>1, <1>2, HeadOf
<1>4. st[p][s] # "none"
    BY <1>3 DEF Made
<1>5. st[d][s] # "none"
  <2>1. CASE Opener(s) = p
    <3>1. SynOrder(wire[p], ctrl[p], s, st[p][s], st[d][s], Up(p))
        BY <1>2, <2>1 DEF OrderInv, SynFirst
    <3>2. PICK up \in BOOLEAN : up = Up(p)
        BY DEF Up
    <3>3. SynOrder(wire[p], ctrl[p], s, st[p][s], st[d][s], up)
        BY <3>1, <3>2 DEF SynOrder
    <3> QED
        BY <1>2, <1>3, <3>3, SynTaken
  <2>2. CASE Opener(s) # p
    <3>1. Opener(s) = d
        BY <1>1, <2>2, OpenerIs, Ending, SMT
    <3>2. SynOrder(wire[d], ctrl[d], s, st[d][s], st[p][s], Up(d))
        BY <1>1, <3>1 DEF OrderInv, SynFirst
    <3> QED
        BY <1>4, <3>2 DEF SynOrder
  <2> QED
      BY <2>1, <2>2
<1>6. s \in entry[d] /\ st[d][s] # "dropped"
    BY <1>5 DEF Alive
<1>7. ~TakesSyn(d) /\ ~TakesFin(d) /\ ~Unblocks(d) /\ ~TakesRest(d)
  <2>1. ~TakesSyn(d) /\ ~TakesFin(d)
      BY DEF TakesSyn, TakesFin
  <2>2. ~Unblocks(d)
      BY <1>2 DEF Unblocks
  <2>3. ~TakesRest(d)
      BY <1>6 DEF TakesRest
  <2> QED
      BY <2>1, <2>2, <2>3
<1>8. ~Loops(d)
  <2>1. Loops(d) => wire' = wire
      BY DEF Loops
  <2> QED
      BY <2>1, NotTaken
<1> QED
    BY <1>7, <1>8 DEF Receives

\* What a step does to the data of a stream on their way from d: nothing; a frame
\* joins the queue; one goes on the wire; the queue or the wire is lost; the peer
\* takes one off the wire.
Still(d, s) ==
    wire'[d] = wire[d] /\ DataQueue(d, s)' = DataQueue(d, s) /\ written'[d][s] = written[d][s]

Joins(d, s, f) ==
    /\ wire'[d] = wire[d] /\ DataQueue(d, s)' = Append(DataQueue(d, s), f)
    /\ f.cmd = "PSH" /\ f.sid = s =>
        ~finSent[d][s] /\ f.n = written[d][s] + 1 /\ written'[d][s] = written[d][s] + 1
    /\ ~(f.cmd = "PSH" /\ f.sid = s) => written'[d][s] = written[d][s]

Passes(d, s, f) ==
    /\ Up(d) /\ wire'[d] = Append(wire[d], f) /\ written'[d][s] = written[d][s]
    /\ \/ /\ DataQueue(d, s) # <<>> /\ f = Head(DataQueue(d, s))
          /\ DataQueue(d, s)' = Tail(DataQueue(d, s)) \/ (~Up(d)' /\ DataQueue(d, s)' = <<>>)
       \/ /\ ~(f.cmd = "PSH" /\ f.sid = s) /\ (f.cmd = "FIN" /\ f.sid = s => Opener(s) = d)
          /\ DataQueue(d, s)' = DataQueue(d, s) \/ (~Up(d)' /\ DataQueue(d, s)' = <<>>)

Halts(d, s) ==
    /\ ~Up(d)' /\ written'[d][s] = written[d][s]
    /\ \/ wire'[d] = wire[d] /\ DataQueue(d, s)' = <<>>
       \/ /\ wire'[d] = <<>> /\ DataQueue(d, s)' = DataQueue(d, s)
          /\ UNCHANGED <<recv, held, inbox, numRead>>

Arrives(d, s) ==
    /\ Takes(Peer(d)) /\ Receives(Peer(d)) /\ DataQueue(d, s)' = DataQueue(d, s)
    /\ written'[d][s] = written[d][s]

Transmits(d, s) ==
    \/ Halts(d, s)
    \/ /\ Up(d)' => Up(d)
       /\ \/ Still(d, s) \/ Arrives(d, s)
          \/ \E f \in Frames : Joins(d, s, f) \/ Passes(d, s, f)

\* What a step does to the data of one stream under way.
LEMMA Transmitting ==
  ASSUME IInv, OrderInv, Links \/ Rests \/ \E e \in Ends : Moves(e), NEW d \in Ends, NEW s \in Sids
  PROVE  Transmits(d, s)
<1>1. /\ Opener(s) = d => DataQueue(d, s) = data[d] /\ DataQueue(d, s)' = data'[d]
      /\ Opener(s) # d => DataQueue(d, s) = ctrl[d] /\ DataQueue(d, s)' = ctrl'[d]
    BY DEF DataQueue
<1>2. ASSUME UNCHANGED <<wire, ctrl, data, writer, link, written>>
      PROVE  Transmits(d, s)
  <2>1. Still(d, s)
      BY <1>1, <1>2 DEF Still
  <2>2. Up(d)' => Up(d)
      BY <1>2 DEF Up
  <2> QED
      BY <2>1, <2>2 DEF Transmits
<1>3. wire[d] \in Seq(Frames) /\ ctrl[d] \in Seq(Frames) /\ data[d] \in Seq(Frames)
    BY Channels DEF IInv, TypeOK
<1>4. CASE Links
  <2>1. /\ wire'[d] = wire[d] \/ (wire'[d] = <<>> /\ link' = "broken")
        /\ UNCHANGED <<ctrl, data, writer, written, recv, held, inbox, numRead>>
      BY <1>4 DEF Links
  <2>2. Up(d)' => Up(d)
      BY <1>4 DEF Up, Links
  <2>3. CASE wire'[d] = wire[d]
    <3>1. Still(d, s)
        BY <1>1, <2>1, <2>3 DEF Still
    <3> QED
        BY <2>2, <3>1 DEF Transmits
  <2>4. CASE wire'[d] = <<>> /\ link' = "broken"
      BY <1>1, <2>1, <2>4 DEF Transmits, Halts, Up
  <2> QED
      BY <2>1, <2>3, <2>4
<1>5. CASE Rests
    BY <1>2, <1>5 DEF Rests
<1>6. ASSUME NEW e \in Ends, \/ Accept(e) \/ Unblocks(e) \/ Loops(e)
                             \/ \E t \in Sids : Waits(e, t) \/ ReadEof(e, t) \/ DropStream(e, t)
      PROVE  Transmits(d, s)
    BY <1>2, <1>6 DEF Accept, Unblocks, Loops, Waits, ReadEof, DropStream
<1>7. ASSUME NEW e \in Ends, NEW f \in Frames, Queues(e, f), f.cmd # "PSH",
             UNCHANGED <<wire, data, writer, link, written>>
      PROVE  Transmits(d, s)
  <2>1. Up(d)' => Up(d)
      BY <1>7 DEF Up
  <2>2. ctrl'[d] = ctrl[d] \/ ctrl'[d] = Append(ctrl[d], f)
      BY <1>7, QueuesAt
  <2>3. Still(d, s) \/ Joins(d, s, f)
      BY <1>1, <1>7, <2>2 DEF Still, Joins
  <2> QED
      BY <2>1, <2>3 DEF Transmits
<1>8. ASSUME NEW e \in Ends, OpenStream(e)
      PROVE  Transmits(d, s)
  <2>0. PICK f : f = Frame("SYN", nextId[e], 0)
      OBVIOUS
  <2>1. f \in Frames /\ Queues(e, f)
      BY <1>8, <2>0, FirstSyn
  <2>2. f.cmd # "PSH"
      BY <2>0 DEF Frame
  <2>3. UNCHANGED <<wire, data, writer, link, written>>
      BY <1>8 DEF OpenStream
  <2> QED
      BY <1>7, <2>1, <2>2, <2>3
<1>9. ASSUME NEW e \in Ends, NEW t \in Sids, CloseStream(e, t)
      PROVE  Transmits(d, s)
  <2>0. PICK f : f = Frame("FIN", t, 0)
      OBVIOUS
  <2>1. f \in Frames /\ f.cmd # "PSH"
      BY <2>0, Framed DEF Frame
  <2>2. Queues(e, f) /\ UNCHANGED <<wire, data, writer, link, written>>
      BY <1>9, <2>0, Sending DEF CloseStream, IInv, TypeOK
  <2> QED
      BY <1>7, <2>1, <2>2
<1>10. ASSUME NEW e \in Ends, NEW t \in Sids, Reads(e, t)
       PROVE  Transmits(d, s)
  <2>0. numRead[e][t] + 1 \in Nat
      BY SMT DEF IInv, TypeOK, CountTypes, PerStream
  <2>1. PICK f : f = Frame("UPD", t, numRead[e][t] + 1)
      OBVIOUS
  <2>3. f \in Frames /\ f.cmd # "PSH"
      BY <2>0, <2>1, Framed DEF Frame
  <2>2. (Queues(e, f) \/ UNCHANGED ctrl) /\ UNCHANGED <<wire, data, writer, link, written>>
      BY <1>10, <2>1 DEF Reads
  <2> QED
      BY <1>2, <1>7, <2>2, <2>3, ZenonT(60)
<1>11. ASSUME NEW e \in Ends, NEW f \in late[e], LateUpdate(e, f)
       PROVE  Transmits(d, s)
  <2>1. f \in Frames /\ f.cmd # "PSH"
      BY DEF IInv, OrderInv, TypeOK, QueueTypes, Sources
  <2>2. Queues(e, f) /\ UNCHANGED <<wire, data, writer, link, written>>
      BY <1>11, Sending DEF LateUpdate, IInv, TypeOK
  <2> QED
      BY <1>7, <2>1, <2>2
<1>12. ASSUME NEW e \in Ends, NEW t \in Sids, Writes(e, t)
       PROVE  Transmits(d, s)
  <2>0. PICK f : f = Frame("PSH", t, written[e][t] + 1)
      OBVIOUS
  <2>1. f \in Frames /\ f.cmd = "PSH" /\ f.sid = t /\ f.n = written[e][t] + 1
      BY <1>12, <2>0, WritesAt, ZenonT(60) DEF Frame
  <2>2. /\ \A c \in Ends : c # e => ctrl'[c] = ctrl[c] /\ data'[c] = data[c]
        /\ Opener(t) = e => data'[e] = Append(data[e], f) /\ ctrl'[e] = ctrl[e]
        /\ Opener(t) # e => ctrl'[e] = Append(ctrl[e], f) /\ data'[e] = data[e]
        /\ d = e /\ s = t => written'[d][s] = written[d][s] + 1
        /\ ~(d = e /\ s = t) => written'[d][s] = written[d][s]
        /\ UNCHANGED <<wire, writer, link>> /\ ~finSent[e][t]
    <3>1. /\ \A c \in Ends : c # e => ctrl'[c] = ctrl[c] /\ data'[c] = data[c]
          /\ Opener(t) = e => data'[e] = Append(data[e], f) /\ ctrl'[e] = ctrl[e]
          /\ Opener(t) # e => ctrl'[e] = Append(ctrl[e], f) /\ data'[e] = data[e]
        BY <1>12, <2>0, WritesAt, ZenonT(60)
    <3>2. written'[d][s] = IF d = e /\ s = t THEN written[d][s] + 1 ELSE written[d][s]
        BY <1>12, WritesAt, SMT
    <3>3. UNCHANGED <<wire, writer, link>> /\ ~finSent[e][t]
        BY <1>12, WritesAt, ZenonT(60)
    <3> QED
        BY <3>1, <3>2, <3>3, ZenonT(60)
  <2>3. Up(d)' => Up(d)
      BY <2>2 DEF Up
  <2>4. CASE d # e
      BY <1>1, <2>2, <2>3, <2>4 DEF Transmits, Still
  <2>5. CASE d = e /\ (Opener(s) = e <=> Opener(t) = e)
    <3>1. DataQueue(d, s)' = Append(DataQueue(d, s), f)
        BY <1>1, <2>2, <2>5
    <3>2. Joins(d, s, f)
        BY <2>1, <2>2, <2>5, <3>1 DEF Joins
    <3> QED
        BY <2>1, <2>3, <3>2 DEF Transmits
  <2>6. CASE d = e /\ ~(Opener(s) = e <=> Opener(t) = e)
      BY <1>1, <2>2, <2>3, <2>6 DEF Transmits, Still
  <2> QED
      BY <2>4, <2>5, <2>6

<1>13. ASSUME NEW e \in Ends, Stops(e)
       PROVE  Transmits(d, s)
  <2>1. UNCHANGED <<wire, link, written>>
      BY <1>13, StopsAt
  <2>2. CASE e = d
    <3>1. ctrl'[d] = <<>> /\ data'[d] = <<>> /\ writer'[d] = "ended"
        BY <1>13, <2>2, StopsAt
    <3>2. ~Up(d)'
        BY <3>1 DEF Up
    <3> QED
        BY <1>1, <2>1, <3>1, <3>2 DEF Transmits, Halts
  <2>3. CASE e # d
    <3>1. ctrl'[d] = ctrl[d] /\ data'[d] = data[d] /\ writer'[d] = writer[d]
        BY <1>13, <2>3, StopsAt
    <3>2. Up(d)' => Up(d)
        BY <2>1, <3>1 DEF Up
    <3> QED
        BY <1>1, <2>1, <3>1, <3>2 DEF Transmits, Still
  <2> QED
      BY <2>2, <2>3
<1>14. ASSUME NEW e \in Ends, Puts(e)
       PROVE  Transmits(d, s)
  <2>1. UNCHANGED <<link, written>>
      BY <1>14, PutsAt
  <2>2. CASE e # d
    <3>1. /\ ctrl'[d] = ctrl[d] /\ data'[d] = data[d] /\ writer'[d] = writer[d]
          /\ wire'[d] = wire[d]
        BY <1>14, <2>2, PutsAt
    <3>2. Up(d)' => Up(d)
        BY <2>1, <3>1 DEF Up
    <3> QED
        BY <1>1, <2>1, <3>1, <3>2 DEF Transmits, Still
  <2>3. CASE e = d
    <3>1. PICK f \in Frames :
            /\ wire'[d] = Append(wire[d], f)
            /\ \/ ctrl[d] # <<>> /\ f = Head(ctrl[d])
               \/ ctrl[d] = <<>> /\ data[d] # <<>> /\ f = Head(data[d])
               \/ f = NoFrame
            /\ \/ writer'[d] = "ended" /\ ctrl'[d] = <<>> /\ data'[d] = <<>>
               \/ /\ data'[d] = data[d]
                  /\ ctrl[d] # <<>> /\ f = Head(ctrl[d]) /\ ctrl'[d] = Tail(ctrl[d])
               \/ /\ ctrl'[d] = ctrl[d] /\ ctrl[d] = <<>>
                  /\ data[d] # <<>> /\ f = Head(data[d]) /\ data'[d] = Tail(data[d])
               \/ ctrl'[d] = ctrl[d] /\ data'[d] = data[d] /\ f = NoFrame
        BY <1>14, <2>3, PutsAt
    <3>2. Up(d)
        BY <1>14, <2>3, PutsAt DEF Up
    <3>3. writer'[d] = "ended" => ~Up(d)'
        BY DEF Up
    <3>4. /\ f \in Range(ctrl[d]) => (f.cmd = "PSH" => Opener(f.sid) # d)
          /\ f \in Range(data[d]) => f.cmd = "PSH" /\ Opener(f.sid) = d
        BY DEF OrderInv, Sources
    <3>5. /\ ctrl[d] # <<>> => Head(ctrl[d]) \in Range(ctrl[d])
          /\ data[d] # <<>> => Head(data[d]) \in Range(data[d])
        BY <1>3, RangeTailed
    <3>6. f = NoFrame => f.cmd # "PSH" /\ f.cmd # "FIN"
        BY SMT DEF NoFrame, Frame
    <3>7. "PSH" # "FIN"
        OBVIOUS
    <3>8. CASE Opener(s) = d
      <4>1. DataQueue(d, s) = data[d] /\ DataQueue(d, s)' = data'[d]
          BY <1>1, <3>8
      <4>2. CASE ctrl[d] # <<>> /\ f = Head(ctrl[d])
        <5>1. ~(f.cmd = "PSH" /\ f.sid = s)
            BY <3>4, <3>5, <3>8, <4>2
        <5>2. data'[d] = data[d] \/ (~Up(d)' /\ data'[d] = <<>>)
            BY <3>1, <3>3, <4>2
        <5> QED
            BY <2>1, <3>1, <3>2, <3>8, <4>1, <5>1, <5>2 DEF Transmits, Passes
      <4>3. CASE ctrl[d] = <<>> /\ data[d] # <<>> /\ f = Head(data[d]) /\ f # NoFrame
        <5>1. data'[d] = Tail(data[d]) \/ (~Up(d)' /\ data'[d] = <<>>)
            BY <3>1, <3>3, <4>3
        <5> QED
            BY <2>1, <3>1, <3>2, <4>1, <4>3, <5>1 DEF Transmits, Passes
      <4>4. CASE f = NoFrame /\ ~(ctrl[d] # <<>> /\ f = Head(ctrl[d]))
        <5>1. ~(data[d] # <<>> /\ f = Head(data[d]))
            BY <3>4, <3>5, <3>6, <4>4
        <5>2. data'[d] = data[d] \/ (~Up(d)' /\ data'[d] = <<>>)
            BY <3>1, <3>3, <4>4, <5>1
        <5> QED
            BY <2>1, <3>1, <3>2, <3>6, <4>1, <4>4, <5>2 DEF Transmits, Passes
      <4> QED
          BY <3>1, <4>2, <4>3, <4>4
    <3>9. CASE Opener(s) # d
      <4>1. DataQueue(d, s) = ctrl[d] /\ DataQueue(d, s)' = ctrl'[d]
          BY <1>1, <3>9
      <4>3. CASE ctrl[d] = <<>> /\ data[d] # <<>> /\ f = Head(data[d])
        <5>1. ~(f.cmd = "PSH" /\ f.sid = s) /\ f.cmd # "FIN"
            BY <3>4, <3>5, <3>7, <3>9, <4>3
        <5>2. ctrl'[d] = ctrl[d] \/ (~Up(d)' /\ ctrl'[d] = <<>>)
            BY <3>1, <3>3, <4>3
        <5> QED
            BY <2>1, <3>1, <3>2, <4>1, <5>1, <5>2 DEF Transmits, Passes
      <4>4. CASE f = NoFrame /\ (ctrl'[d] = ctrl[d] \/ (writer'[d] = "ended" /\ ctrl'[d] = <<>>))
        <5>1. ctrl'[d] = ctrl[d] \/ (~Up(d)' /\ ctrl'[d] = <<>>)
            BY <3>3, <4>4
        <5> QED
            BY <2>1, <3>1, <3>2, <3>6, <4>1, <4>4, <5>1 DEF Transmits, Passes
      <4>5. CASE ctrl[d] # <<>> /\ f = Head(ctrl[d]) /\ ctrl'[d] = Tail(ctrl[d])
          BY <2>1, <3>1, <3>2, <4>1, <4>5 DEF Transmits, Passes
      <4>6. CASE ctrl[d] # <<>> /\ f = Head(ctrl[d]) /\ writer'[d] = "ended" /\ ctrl'[d] = <<>>
        <5>1. ~Up(d)' /\ ctrl'[d] = <<>>
            BY <3>3, <4>6
        <5> QED
            BY <2>1, <3>1, <3>2, <4>1, <4>6, <5>1 DEF Transmits, Passes
      <4> QED
          BY <3>1, <4>3, <4>4, <4>5, <4>6
    <3> QED
        BY <3>8, <3>9
  <2> QED
      BY <2>2, <2>3
<1>15. ASSUME NEW e \in Ends, TakesSyn(e) \/ TakesFin(e) \/ TakesUnit(e) \/ TakesRest(e)
       PROVE  Transmits(d, s)
  <2>1. Takes(e) /\ Receives(e)
      BY <1>15 DEF Receives, TakesSyn, TakesFin, TakesUnit, TakesRest
  <2>2. wire'[e] = wire[e] /\ UNCHANGED <<ctrl, data, writer, link, written>>
      BY <2>1, TakesAt
  <2>3. Up(d)' => Up(d)
      BY <2>2 DEF Up
  <2>4. CASE e = d
      BY <1>1, <2>2, <2>3, <2>4 DEF Transmits, Still
  <2>5. CASE e = Peer(d)
      BY <1>1, <2>1, <2>2, <2>3, <2>5 DEF Transmits, Arrives
  <2> QED
      BY <2>4, <2>5, Ending
<1> QED
    BY <1>4, <1>5, <1>6, <1>8, <1>9, <1>10, <1>11, <1>12, <1>13, <1>14, <1>15
       DEF Moves, Receives

\* A step keeps Flow: the units under way are those not yet received, in order.
LEMMA FlowStep ==
  ASSUME IInv, OrderInv, Links \/ Rests \/ \E e \in Ends : Moves(e)
  PROVE  Flow'
<1>CarriedSend. ASSUME NEW w \in Seq(Frames), NEW q \in Seq(Frames), NEW s, NEW a \in Nat,
                       NEW b \in Nat, NEW on \in BOOLEAN, Carried(w, q, s, a, b, on),
                       NEW f \in Frames
                PROVE  /\ f.cmd = "PSH" /\ f.sid = s /\ f.n = b + 1 =>
                            Carried(w, Append(q, f), s, a, b + 1, on)
                       /\ ~(f.cmd = "PSH" /\ f.sid = s) => Carried(w, Append(q, f), s, a, b, on)
  <2> USE <1>CarriedSend
  <2>1. PICK m \in 0..b : Carries(w, s, a, m) /\ (on => Carries(q, s, m, b))
      BY DEF Carried
  <2>2. m \in Nat /\ m \in 0..(b + 1)
      BY SMT
  <2>3. on => /\ ~(f.cmd = "PSH" /\ f.sid = s) => Carries(Append(q, f), s, m, b)
              /\ f.cmd = "PSH" /\ f.sid = s /\ f.n = b + 1 =>
                   Carries(Append(q, f), s, m, b + 1)
      BY <2>1, <2>2, CarriesAppend
  <2> QED
      BY <2>1, <2>2, <2>3 DEF Carried
<1>CarriedPut. ASSUME NEW w \in Seq(Frames), NEW q \in Seq(Frames), q # <<>>, NEW s,
                      NEW a \in Nat, NEW b \in Nat, Carried(w, q, s, a, b, TRUE)
               PROVE  Carried(Append(w, Head(q)), Tail(q), s, a, b, TRUE)
  <2> USE <1>CarriedPut
  <2>1. PICK m \in 0..b : Carries(w, s, a, m) /\ Carries(q, s, m, b)
      BY DEF Carried
  <2>2. m \in Nat /\ Head(q) \in Frames
      BY TailIs, SMT
  <2>3. CASE Head(q).cmd = "PSH" /\ Head(q).sid = s
    <3>1. Head(q).n = m + 1 /\ m + 1 <= b /\ Carries(Tail(q), s, m + 1, b)
        BY <2>1, <2>2, <2>3, CarriesTail
    <3>2. Carries(Append(w, Head(q)), s, a, m + 1)
        BY <2>1, <2>2, <2>3, <3>1, CarriesAppend, ZenonT(60)
    <3>3. m + 1 \in 0..b
        BY <2>2, <3>1, SMT
    <3> QED
        BY <3>1, <3>2, <3>3 DEF Carried
  <2>4. CASE ~(Head(q).cmd = "PSH" /\ Head(q).sid = s)
    <3>1. Carries(Tail(q), s, m, b)
        BY <2>1, <2>2, <2>4, CarriesTail
    <3>2. Carries(Append(w, Head(q)), s, a, m)
        BY <2>1, <2>2, <2>4, CarriesAppend
    <3> QED
        BY <3>1, <3>2 DEF Carried
  <2> QED
      BY <2>3, <2>4
<1>CarriedPass. ASSUME NEW w \in Seq(Frames), NEW q, NEW s, NEW a \in Nat, NEW b \in Nat,
                       NEW on, Carried(w, q, s, a, b, on), NEW f \in Frames,
                       ~(f.cmd = "PSH" /\ f.sid = s)
                PROVE  Carried(Append(w, f), q, s, a, b, on)
  <2> USE <1>CarriedPass
  <2>1. PICK m \in 0..b : Carries(w, s, a, m) /\ (on => Carries(q, s, m, b))
      BY DEF Carried
  <2>2. m \in Nat
      BY SMT
  <2>3. Carries(Append(w, f), s, a, m)
      BY <2>1, <2>2, CarriesAppend
  <2> QED
      BY <2>1, <2>3 DEF Carried
<1>CarriedEnds. ASSUME NEW w, NEW q, NEW s, NEW a \in Nat, NEW b \in Nat, NEW on,
                       Carried(w, q, s, a, b, on), NEW r
                PROVE  Carried(w, r, s, a, b, FALSE) /\ Carried(<<>>, r, s, a, b, FALSE)
  <2> USE <1>CarriedEnds
  <2>1. PICK m \in 0..b : Carries(w, s, a, m)
      BY DEF Carried
  <2>2. a \in 0..b
      BY <2>1, SMT DEF Carries
  <2>3. Carries(<<>>, s, a, a)
      BY CarriesEmpty
  <2> QED
      BY <2>1, <2>2, <2>3 DEF Carried
<1> SUFFICES ASSUME NEW d \in Ends, NEW s \in Sids, Alive(Peer(d), s)'
             PROVE  Carried(wire[d], DataQueue(d, s), s, LastUnit(Peer(d), s), written[d][s],
                            Up(d))'
    BY DEF Flow
<1>1. PICK p : p = Peer(d)
    OBVIOUS
<1>2. p \in Ends /\ Peer(p) = d /\ p # d
    BY <1>1, Ending
<1>3. Alive(p, s) /\ st'[p][s] # "dropped"
  <2>1. Alive(p, s)'
      BY <1>1
  <2>2. st'[p][s] # "dropped"
      BY <2>1 DEF Alive
  <2> QED
      BY <1>2, <2>1, <2>2, AliveStep
<1>4. TypeOK /\ TypeOK'
    BY TypeStep DEF IInv, OrderInv
<1>5. PICK up \in BOOLEAN : up = Up(d)
    BY DEF Up
<1>6. PICK up2 \in BOOLEAN : up2 = Up(d)'
    BY DEF Up
<1>7. PICK a : a = LastUnit(p, s)
    OBVIOUS
<1>8. PICK b : b = written[d][s]
    OBVIOUS
<1>9. PICK q : q = DataQueue(d, s)
    OBVIOUS
<1>10. a \in Nat /\ b \in Nat /\ q \in Seq(Frames) /\ wire[d] \in Seq(Frames)
  <2>1. a \in Nat
      BY <1>2, <1>4, <1>7, LastIs
  <2>2. b \in Nat
      BY <1>4, <1>8 DEF TypeOK, CountTypes, PerStream
  <2>3. wire[d] \in Seq(Frames) /\ ctrl[d] \in Seq(Frames) /\ data[d] \in Seq(Frames)
      BY Channels DEF IInv, TypeOK
  <2> QED
      BY <1>9, <2>1, <2>2, <2>3 DEF DataQueue
<1>11. Carried(wire[d], q, s, a, b, up)
  <2>1. Carried(wire[d], q, s, a, b, Up(d))
      BY <1>1, <1>3, <1>7, <1>8, <1>9 DEF OrderInv, Flow
  <2> QED
      BY <1>5, <2>1 DEF Carried
<1> DEFINE H == Carried(wire[d], DataQueue(d, s), s, LastUnit(Peer(d), s), written[d][s],
                        Up(d))'
<1>12. ASSUME NEW w, NEW r, NEW x, NEW y, wire'[d] = w, DataQueue(d, s)' = r,
              LastUnit(p, s)' = x, written'[d][s] = y,
              \/ Carried(w, r, s, x, y, up) /\ (up2 => up)
              \/ Carried(w, r, s, x, y, FALSE) /\ ~up2
       PROVE  H
  <2>1. Carried(w, r, s, x, y, up2)
      BY <1>12 DEF Carried
  <2>2. Carried(w, r, s, x, y, Up(d)')
      BY <1>6, <2>1 DEF Carried
  <2> QED
      BY <1>1, <1>12, <2>2
<1>13. ~Takes(p) => LastUnit(p, s)' = a
    BY <1>2, <1>3, <1>7, UnitsStep DEF TakesUnit
<1>14. CASE Halts(d, s)
  <2>1. /\ written'[d][s] = b /\ ~up2
        /\ \/ wire'[d] = wire[d] /\ DataQueue(d, s)' = <<>>
           \/ /\ wire'[d] = <<>> /\ DataQueue(d, s)' = q
              /\ UNCHANGED <<recv, held, inbox, numRead>>
      BY <1>6, <1>8, <1>9, <1>14 DEF Halts
  <2>2. \A r : Carried(wire[d], r, s, a, b, FALSE) /\ Carried(<<>>, r, s, a, b, FALSE)
      BY <1>10, <1>11, <1>CarriedEnds
  <2>3. CASE wire'[d] = wire[d] /\ DataQueue(d, s)' = <<>>
    <3>1. LastUnit(p, s)' = a
        BY <1>2, <1>13, <2>3, NotTaken
    <3> QED
        BY <1>12, <2>1, <2>2, <2>3, <3>1
  <2>4. CASE /\ wire'[d] = <<>> /\ DataQueue(d, s)' = q
             /\ UNCHANGED <<recv, held, inbox, numRead>>
    <3>1. LastUnit(p, s)' = a
        BY <1>7, <2>4 DEF LastUnit
    <3> QED
        BY <1>12, <2>1, <2>2, <2>4, <3>1
  <2> QED
      BY <2>1, <2>3, <2>4
<1>15. CASE (up2 => up) /\ Still(d, s)
  <2>1. LastUnit(p, s)' = a
      BY <1>2, <1>13, <1>15, NotTaken DEF Still
  <2> QED
      BY <1>8, <1>9, <1>11, <1>12, <1>15, <2>1 DEF Still
<1>16. ASSUME up2 => up, NEW f \in Frames, Joins(d, s, f)
       PROVE  H
  <2>1. LastUnit(p, s)' = a
      BY <1>2, <1>13, <1>16, NotTaken DEF Joins
  <2>2. /\ wire'[d] = wire[d] /\ DataQueue(d, s)' = Append(q, f)
        /\ f.cmd = "PSH" /\ f.sid = s => f.n = b + 1 /\ written'[d][s] = b + 1
        /\ ~(f.cmd = "PSH" /\ f.sid = s) => written'[d][s] = b
      BY <1>8, <1>9, <1>16 DEF Joins
  <2>3. /\ f.cmd = "PSH" /\ f.sid = s /\ f.n = b + 1 =>
              Carried(wire[d], Append(q, f), s, a, b + 1, up)
        /\ ~(f.cmd = "PSH" /\ f.sid = s) => Carried(wire[d], Append(q, f), s, a, b, up)
      BY <1>10, <1>11, <1>CarriedSend
  <2>4. CASE f.cmd = "PSH" /\ f.sid = s
      BY <1>12, <1>16, <2>1, <2>2, <2>3, <2>4
  <2>5. CASE ~(f.cmd = "PSH" /\ f.sid = s)
      BY <1>12, <1>16, <2>1, <2>2, <2>3, <2>5
  <2> QED
      BY <2>4, <2>5
<1>17. ASSUME NEW f \in Frames, Passes(d, s, f)
       PROVE  H
  <2>1. /\ up = TRUE /\ wire'[d] = Append(wire[d], f) /\ written'[d][s] = b
        /\ \/ /\ q # <<>> /\ f = Head(q)
              /\ DataQueue(d, s)' = Tail(q) \/ (~up2 /\ DataQueue(d, s)' = <<>>)
           \/ /\ ~(f.cmd = "PSH" /\ f.sid = s)
              /\ DataQueue(d, s)' = q \/ (~up2 /\ DataQueue(d, s)' = <<>>)
      BY <1>5, <1>6, <1>8, <1>9, <1>17 DEF Passes
  <2>2. LastUnit(p, s)' = a
      BY <1>2, <1>13, <2>1, NotTaken
  <2>4. /\ q # <<>> /\ f = Head(q) => Carried(Append(wire[d], f), Tail(q), s, a, b, TRUE)
        /\ ~(f.cmd = "PSH" /\ f.sid = s) => Carried(Append(wire[d], f), q, s, a, b, TRUE)
      BY <1>10, <1>11, <2>1, <1>CarriedPut, <1>CarriedPass
  <2>5. CASE ~up2 /\ DataQueue(d, s)' = <<>>
    <3>1. \E y : Carried(Append(wire[d], f), y, s, a, b, TRUE)
        BY <2>1, <2>4
    <3>2. Carried(Append(wire[d], f), <<>>, s, a, b, FALSE)
        BY <1>10, <3>1, <1>CarriedEnds
    <3> QED
        BY <1>12, <2>1, <2>2, <2>5, <3>2
  <2>6. CASE q # <<>> /\ f = Head(q) /\ DataQueue(d, s)' = Tail(q)
      BY <1>12, <2>1, <2>2, <2>4, <2>6
  <2>7. CASE ~(f.cmd = "PSH" /\ f.sid = s) /\ DataQueue(d, s)' = q
      BY <1>12, <2>1, <2>2, <2>4, <2>7
  <2> QED
      BY <2>1, <2>5, <2>6, <2>7
<1>18. CASE (up2 => up) /\ Arrives(d, s)
  <2>1. /\ Takes(p) /\ Receives(p) /\ DataQueue(d, s)' = q /\ written'[d][s] = b
        /\ wire[d] # <<>> /\ wire'[d] = Tail(wire[d])
      BY <1>1, <1>2, <1>8, <1>9, <1>18, TakesAt DEF Arrives, Takes
  <2>2. /\ Head(wire[d]).cmd = "PSH" /\ Head(wire[d]).sid = s =>
              Carried(Tail(wire[d]), q, s, a + 1, b, up)
        /\ ~(Head(wire[d]).cmd = "PSH" /\ Head(wire[d]).sid = s) =>
              Carried(Tail(wire[d]), q, s, a, b, up)
      BY <1>10, <1>11, <2>1, CarriedTake
  <2>3. CASE Head(wire[d]).cmd = "PSH" /\ Head(wire[d]).sid = s
    <3>1. TakesUnit(p)
        BY <1>2, <1>3, <2>1, <2>3, DataTaken
    <3>2. LastUnit(p, s)' = a + 1
        BY <1>2, <1>4, <1>7, <2>3, <3>1, UnitTaken
    <3> QED
        BY <1>12, <1>18, <2>1, <2>2, <2>3, <3>2
  <2>4. CASE ~(Head(wire[d]).cmd = "PSH" /\ Head(wire[d]).sid = s)
    <3>1. LastUnit(p, s)' = a
        BY <1>2, <1>3, <1>7, <2>4, UnitsStep DEF TakesUnit
    <3> QED
        BY <1>12, <1>18, <2>1, <2>2, <2>4, <3>1
  <2> QED
      BY <2>3, <2>4
<1> QED
  <2>1. Transmits(d, s)
      BY Transmitting
  <2> QED
      BY <1>5, <1>6, <1>14, <1>15, <1>16, <1>17, <1>18, <2>1 DEF Transmits

-----------------------------------------------------------------------------
(* The end of a stream.                                                    *)

\* Nothing is written to a stream after FIN.
LEMMA WrittenKept ==
  ASSUME IInv, OrderInv, Links \/ Rests \/ \E e \in Ends : Moves(e), NEW d \in Ends, NEW s \in Sids,
         finSent[d][s]
  PROVE  finSent'[d][s] /\ written'[d][s] = written[d][s]
<1>1. ASSUME NEW e \in Ends, NEW t \in Sids, Writes(e, t)
      PROVE  written'[d][s] = written[d][s]
  <2>1. /\ \A c \in Ends, u \in Sids :
              written'[c][u] = IF c = e /\ u = t THEN written[c][u] + 1 ELSE written[c][u]
        /\ ~finSent[e][t]
      BY <1>1, WritesAt, SMT
  <2> QED
      BY <2>1, ZenonT(60)
<1> QED
    BY <1>1, Credits, Kept

\* FIN on a wire and in a queue; units a + 1 to b are the ones on their way.
EndOrder(w, c, s, a, b, on) ==
    /\ Before(w, "PSH", "FIN", s) /\ Before(c, "PSH", "FIN", s)
    /\ Has(w, "FIN", s) => ~Has(c, "PSH", s) /\ (on => Carries(w, s, a, b))

\* A step keeps FinLast: FIN comes after the last unit.
LEMMA FinStep ==
  ASSUME IInv, OrderInv, Links \/ Rests \/ \E e \in Ends : Moves(e)
  PROVE  FinLast'
<1>LivesOn. ASSUME NEW s \in Sids, NEW d \in Ends, d = Opener(s), st[d][s] = "none",
                   st'[d][s] # "none"
            PROVE  s \in entry'[d]
  <2> USE <1>LivesOn
  <2>1. ~UNCHANGED <<st, nextId, backlog>>
      OBVIOUS
  <2>2. ASSUME NEW e \in Ends, OpenStream(e), Handled(e, nextId[e], "open")
        PROVE  s \in entry'[d]
    <3>1. e = d /\ nextId[e] = s
        BY <2>2 DEF Handled
    <3> QED
        BY <2>2, <3>1 DEF OpenStream, IInv, TypeOK, RegistryTypes
  <2>3. ASSUME NEW e \in Ends, Accept(e), Handled(e, Head(backlog[e]), "open")
        PROVE  FALSE
    <3>1. Head(backlog[e]) = backlog[e][1] /\ 1 \in DOMAIN backlog[e]
        BY <2>3, SMT DEF Accept, IInv, TypeOK, RegistryTypes, Bounded
    <3>2. Queued(e)
        BY DEF OrderInv, Handles
    <3>3. st[e][Head(backlog[e])] = "queued"
        BY <3>1, <3>2 DEF Queued
    <3> QED
        BY <2>3, <3>3 DEF Handled
  <2>4. ASSUME NEW e \in Ends, TakesSyn(e), Handled(e, Head(wire[Peer(e)]).sid, "queued")
        PROVE  FALSE
    <3>1. Opener(Head(wire[Peer(e)]).sid) = Peer(e)
        BY <2>4, SynNew DEF TakesSyn, Takes
    <3>2. e = d /\ Head(wire[Peer(e)]).sid = s
        BY <2>4 DEF Handled
    <3>3. Peer(e) # e
        BY Ending
    <3> QED
        BY <3>1, <3>2, <3>3
  <2>5. ASSUME NEW e \in Ends, NEW t \in Sids, DropStream(e, t), Handled(e, t, "dropped")
        PROVE  FALSE
      BY <2>5, ZenonT(60) DEF DropStream, Handled
  <2> QED
      BY <2>1, <2>2, <2>3, <2>4, <2>5, HandleMoves
<1>EndJoins. ASSUME NEW w \in Seq(Frames), NEW c \in Seq(Frames), NEW s, NEW a \in Nat,
                    NEW b \in Nat, NEW on, EndOrder(w, c, s, a, b, on), NEW f \in Frames
             PROVE  /\ ~(f.cmd = "PSH" /\ f.sid = s) => EndOrder(w, Append(c, f), s, a, b, on)
                    /\ f.cmd = "PSH" /\ f.sid = s /\ ~Has(w, "FIN", s) /\ ~Has(c, "FIN", s) =>
                         EndOrder(w, Append(c, f), s, a, b + 1, on)
  <2> USE <1>EndJoins
  <2>1. "PSH" # "FIN"
      OBVIOUS
  <2> QED
      BY <2>1, BeforeAppend, HasAppend DEF EndOrder
<1>EndPasses. ASSUME NEW w \in Seq(Frames), NEW c \in Seq(Frames), NEW s, NEW a \in Nat,
                     NEW b \in Nat, NEW on, EndOrder(w, c, s, a, b, on), NEW f \in Frames,
                     ~(f.cmd = "PSH" /\ f.sid = s), ~(f.cmd = "FIN" /\ f.sid = s)
              PROVE  EndOrder(Append(w, f), c, s, a, b, on)
      BY <1>EndPasses, BeforeAppend, HasAppend, CarriesAppend DEF EndOrder
<1>EndPut. ASSUME NEW w \in Seq(Frames), NEW c \in Seq(Frames), c # <<>>, NEW s, NEW a \in Nat,
                  NEW b \in Nat, NEW on, EndOrder(w, c, s, a, b, on),
                  on => Carried(w, c, s, a, b, TRUE)
           PROVE  EndOrder(Append(w, Head(c)), Tail(c), s, a, b, on)
  <2> USE <1>EndPut
  <2>1. PICK f : f = Head(c)
      OBVIOUS
  <2>2. "PSH" # "FIN"
      OBVIOUS
  <2>3. f \in Frames /\ Tail(c) \in Seq(Frames)
      BY <2>1, TailIs
  <2>4. /\ Before(Tail(c), "PSH", "FIN", s)
        /\ f.cmd = "FIN" /\ f.sid = s => ~Has(c, "PSH", s)
      BY <2>1, BeforeTail DEF EndOrder
  <2>5. \A x : Has(c, x, s) <=> Has(Tail(c), x, s) \/ (f.cmd = x /\ f.sid = s)
      BY <2>1, HasTail
  <2>6. \A x : Has(Append(w, f), x, s) <=> Has(w, x, s) \/ (f.cmd = x /\ f.sid = s)
      BY <2>3, HasAppend
  <2>7. Before(Append(w, f), "PSH", "FIN", s)
      BY <2>2, <2>3, <2>5, BeforeAppend DEF EndOrder
  <2>8. ASSUME on, Has(Append(w, f), "FIN", s)
        PROVE  Carries(Append(w, f), s, a, b)
    <3>1. ~Has(c, "PSH", s)
        BY <2>4, <2>6, <2>8 DEF EndOrder
    <3>2. PICK m \in 0..b : Carries(w, s, a, m) /\ Carries(c, s, m, b)
        BY <2>8 DEF Carried
    <3>3. m \in Nat
        BY <3>2, SMT
    <3>4. m = b
        BY <3>1, <3>2, <3>3, CarriesNothing
    <3>5. ~(f.cmd = "PSH" /\ f.sid = s)
        BY <2>5, <3>1
    <3> QED
        BY <2>3, <3>2, <3>4, <3>5, CarriesAppend
  <2>9. Has(Append(w, f), "FIN", s) => ~Has(Tail(c), "PSH", s)
      BY <2>4, <2>5, <2>6 DEF EndOrder
  <2> QED
      BY <2>1, <2>4, <2>7, <2>8, <2>9 DEF EndOrder
<1>EndTaken. ASSUME NEW w \in Seq(Frames), w # <<>>, NEW c, NEW s, NEW a \in Nat, NEW b \in Nat,
                    NEW on, EndOrder(w, c, s, a, b, on)
             PROVE  /\ Head(w).cmd = "PSH" /\ Head(w).sid = s => EndOrder(Tail(w), c, s, a + 1, b, on)
                    /\ ~(Head(w).cmd = "PSH" /\ Head(w).sid = s) => EndOrder(Tail(w), c, s, a, b, on)
                    /\ Head(w).cmd = "FIN" /\ Head(w).sid = s /\ on => a = b
  <2> USE <1>EndTaken
  <2>1. /\ Before(Tail(w), "PSH", "FIN", s)
        /\ Head(w).cmd = "FIN" /\ Head(w).sid = s => ~Has(w, "PSH", s)
      BY BeforeTail DEF EndOrder
  <2>2. Has(w, "FIN", s) <=> Has(Tail(w), "FIN", s) \/ (Head(w).cmd = "FIN" /\ Head(w).sid = s)
      BY HasTail
  <2>3. Head(w).cmd = "FIN" /\ Head(w).sid = s /\ on => a = b
      BY <2>1, <2>2, CarriesNothing DEF EndOrder
  <2>4. Carries(w, s, a, b) =>
          /\ ~(Head(w).cmd = "PSH" /\ Head(w).sid = s) => Carries(Tail(w), s, a, b)
          /\ Head(w).cmd = "PSH" /\ Head(w).sid = s => Carries(Tail(w), s, a + 1, b)
      BY CarriesTail
  <2> QED
      BY <2>1, <2>2, <2>3, <2>4 DEF EndOrder
<1>EndGone. ASSUME NEW w, NEW c, NEW s, NEW a, NEW b, NEW on, EndOrder(w, c, s, a, b, on)
            PROVE  EndOrder(w, <<>>, s, a, b, on) /\ EndOrder(<<>>, c, s, a, b, on)
      BY <1>EndGone, BeforeEmpty, HasEmpty DEF EndOrder
<1> SUFFICES ASSUME NEW s \in Sids, NEW e \in Ends, NEW p \in Ends, e = Opener(s), p = Peer(e)
             PROVE  /\ EndOrder(wire[p], ctrl[p], s, LastUnit(e, s), written[p][s], Alive(e, s))'
                    /\ st'[e][s] \notin {"none", "dropped"} /\ s \notin entry'[e]
                         /\ recv'[e] # "ended" =>
                           finSent'[p][s] /\ LastUnit(e, s)' = written'[p][s]
  <2>1. ASSUME NEW s \in Sids
        PROVE  LET e == Opener(s)
                   p == Peer(e) IN
               /\ EndOrder(wire[p], ctrl[p], s, LastUnit(e, s), written[p][s], Alive(e, s))'
               /\ st'[e][s] \notin {"none", "dropped"} /\ s \notin entry'[e]
                    /\ recv'[e] # "ended" =>
                      finSent'[p][s] /\ LastUnit(e, s)' = written'[p][s]
      BY OpenerIs, Ending
  <2> QED
      BY <2>1 DEF FinLast, EndOrder
<1>1. p # e /\ Peer(p) = e /\ Opener(s) # p
    BY Ending
<1>2. TypeOK /\ TypeOK'
    BY TypeStep DEF IInv, OrderInv
<1>3. PICK w : w = wire[p]
    OBVIOUS
<1>4. PICK c : c = ctrl[p]
    OBVIOUS
<1>5. PICK a : a = LastUnit(e, s)
    OBVIOUS
<1>6. PICK b : b = written[p][s]
    OBVIOUS
<1>7. PICK on \in BOOLEAN : on = Alive(e, s)
    BY DEF Alive
<1>8. PICK on2 \in BOOLEAN : on2 = Alive(e, s)'
    BY DEF Alive
<1>9. w \in Seq(Frames) /\ c \in Seq(Frames) /\ a \in Nat /\ b \in Nat
  <2>1. w \in Seq(Frames) /\ c \in Seq(Frames)
      BY <1>3, <1>4, Channels DEF IInv, TypeOK
  <2>2. a \in Nat
      BY <1>2, <1>5, LastIs
  <2>3. b \in Nat
      BY <1>2, <1>6, SMT DEF TypeOK, CountTypes, PerStream
  <2> QED
      BY <2>1, <2>2, <2>3
<1>10. /\ EndOrder(w, c, s, a, b, on)
       /\ st[e][s] \notin {"none", "dropped"} /\ s \notin entry[e] /\ recv[e] # "ended" =>
            finSent[p][s] /\ a = b
  <2>1. /\ EndOrder(wire[p], ctrl[p], s, LastUnit(e, s), written[p][s], Alive(e, s))
        /\ st[e][s] \notin {"none", "dropped"} /\ s \notin entry[e] /\ recv[e] # "ended" =>
             finSent[p][s] /\ LastUnit(e, s) = written[p][s]
      BY DEF OrderInv, FinLast, EndOrder
  <2>2. EndOrder(w, c, s, a, b, Alive(e, s))
      BY <1>3, <1>4, <1>5, <1>6, <2>1
  <2> QED
      BY <1>5, <1>6, <1>7, <2>1, <2>2 DEF EndOrder
<1>11. on2 => on
    BY <1>7, <1>8, AliveStep
<1>12. on2 => st'[e][s] # "dropped"
  <2>1. "none" # "dropped"
      OBVIOUS
  <2> QED
      BY <1>8, <2>1 DEF Alive
<1>13. DataQueue(p, s) = c /\ DataQueue(p, s)' = ctrl'[p]
    BY <1>1, <1>4 DEF DataQueue
<1> DEFINE H == EndOrder(wire[p], ctrl[p], s, LastUnit(e, s), written[p][s], Alive(e, s))'
<1>14. ASSUME NEW v, NEW r, NEW x, NEW y, wire'[p] = v, ctrl'[p] = r,
              on2 => LastUnit(e, s)' = x, written'[p][s] = y, EndOrder(v, r, s, x, y, on)
       PROVE  H
  <2>1. EndOrder(v, r, s, x, y, on2)
      BY <1>11, <1>14 DEF EndOrder
  <2>2. EndOrder(v, r, s, LastUnit(e, s)', y, on2)
      BY <1>14, <2>1 DEF EndOrder
  <2>3. EndOrder(v, r, s, LastUnit(e, s)', y, Alive(e, s)')
      BY <1>8, <2>2 DEF EndOrder
  <2> QED
      BY <1>14, <2>3
<1>15. ~Takes(e) /\ on2 => LastUnit(e, s)' = a
    BY <1>5, <1>12, UnitsStep DEF TakesUnit
<1>16. ASSUME Halts(p, s)
       PROVE  H
  <2>1. EndOrder(w, <<>>, s, a, b, on) /\ EndOrder(<<>>, c, s, a, b, on)
      BY <1>10, <1>EndGone
  <2>2. CASE wire'[p] = wire[p] /\ DataQueue(p, s)' = <<>>
    <3>1. on2 => LastUnit(e, s)' = a
        BY <1>15, <2>2, NotTaken
    <3> QED
        BY <1>3, <1>6, <1>13, <1>14, <1>16, <2>1, <2>2, <3>1 DEF Halts
  <2>3. CASE wire'[p] = <<>> /\ DataQueue(p, s)' = c /\ UNCHANGED <<recv, held, inbox, numRead>>
    <3>1. LastUnit(e, s)' = a
        BY <1>5, <2>3 DEF LastUnit
    <3> QED
        BY <1>6, <1>13, <1>14, <1>16, <2>1, <2>3, <3>1 DEF Halts
  <2> QED
      BY <1>13, <1>16, <2>2, <2>3 DEF Halts
<1>17. ASSUME Still(p, s)
       PROVE  H
  <2>1. on2 => LastUnit(e, s)' = a
      BY <1>15, <1>17, NotTaken DEF Still
  <2> QED
      BY <1>3, <1>6, <1>10, <1>13, <1>14, <1>17, <2>1 DEF Still
<1>18. ASSUME NEW f \in Frames, Joins(p, s, f)
       PROVE  H
  <2>1. on2 => LastUnit(e, s)' = a
      BY <1>15, <1>18, NotTaken DEF Joins
  <2>2. /\ wire'[p] = w /\ ctrl'[p] = Append(c, f)
        /\ f.cmd = "PSH" /\ f.sid = s => ~finSent[p][s] /\ written'[p][s] = b + 1
        /\ ~(f.cmd = "PSH" /\ f.sid = s) => written'[p][s] = b
      BY <1>3, <1>6, <1>13, <1>18 DEF Joins
  <2>3. /\ ~(f.cmd = "PSH" /\ f.sid = s) => EndOrder(w, Append(c, f), s, a, b, on)
        /\ f.cmd = "PSH" /\ f.sid = s /\ ~Has(w, "FIN", s) /\ ~Has(c, "FIN", s) =>
              EndOrder(w, Append(c, f), s, a, b + 1, on)
      BY <1>9, <1>10, <1>EndJoins, ZenonT(60)
  <2>4. ~finSent[p][s] => ~Has(w, "FIN", s) /\ ~Has(c, "FIN", s)
    <3>1. ASSUME NEW g, Made(p, g), g.sid = s, g.cmd = "FIN"
          PROVE  finSent[p][s]
        BY <3>1 DEF Made
    <3>2. \A g \in Range(w) \cup Range(c) : Made(p, g)
        BY <1>3, <1>4 DEF OrderInv, Sources
    <3> QED
        BY <3>1, <3>2 DEF Has
  <2>5. CASE f.cmd = "PSH" /\ f.sid = s
      BY <1>14, <2>1, <2>2, <2>3, <2>4, <2>5
  <2>6. CASE ~(f.cmd = "PSH" /\ f.sid = s)
      BY <1>14, <2>1, <2>2, <2>3, <2>6
  <2> QED
      BY <2>5, <2>6
<1>19. ASSUME NEW f \in Frames, Passes(p, s, f)
       PROVE  H
  <2>1. /\ Up(p) /\ wire'[p] = Append(w, f) /\ written'[p][s] = b
        /\ \/ c # <<>> /\ f = Head(c) /\ (ctrl'[p] = Tail(c) \/ ctrl'[p] = <<>>)
           \/ /\ ~(f.cmd = "PSH" /\ f.sid = s) /\ ~(f.cmd = "FIN" /\ f.sid = s)
              /\ ctrl'[p] = c \/ ctrl'[p] = <<>>
      BY <1>1, <1>3, <1>6, <1>13, <1>19 DEF Passes
  <2>2. on2 => LastUnit(e, s)' = a
      BY <1>3, <1>15, <2>1, NotTaken
  <2>3. on => Carried(w, c, s, a, b, TRUE)
    <3>1. on => Carried(w, c, s, a, b, Up(p))
        BY <1>1, <1>3, <1>5, <1>6, <1>7, <1>13 DEF OrderInv, Flow
    <3> QED
        BY <2>1, <3>1 DEF Carried
  <2>4. CASE c # <<>> /\ f = Head(c) /\ (ctrl'[p] = Tail(c) \/ ctrl'[p] = <<>>)
    <3>1. EndOrder(Append(w, f), Tail(c), s, a, b, on)
        BY <1>9, <1>10, <2>3, <2>4, <1>EndPut
    <3>2. EndOrder(Append(w, f), <<>>, s, a, b, on)
        BY <3>1, <1>EndGone
    <3> QED
        BY <1>14, <2>1, <2>2, <2>4, <3>1, <3>2
  <2>5. CASE /\ ~(f.cmd = "PSH" /\ f.sid = s) /\ ~(f.cmd = "FIN" /\ f.sid = s)
             /\ ctrl'[p] = c \/ ctrl'[p] = <<>>
    <3>1. EndOrder(Append(w, f), c, s, a, b, on)
        BY <1>9, <1>10, <2>5, <1>EndPasses
    <3>2. EndOrder(Append(w, f), <<>>, s, a, b, on)
        BY <3>1, <1>EndGone
    <3> QED
        BY <1>14, <2>1, <2>2, <2>5, <3>1, <3>2
  <2> QED
      BY <2>1, <2>4, <2>5

<1>20. ASSUME Arrives(p, s)
       PROVE  H
  <2>1. /\ Takes(e) /\ Receives(e) /\ ctrl'[p] = c /\ written'[p][s] = b
        /\ w # <<>> /\ wire'[p] = Tail(w)
      BY <1>1, <1>3, <1>6, <1>13, <1>20, TakesAt, ZenonT(60) DEF Arrives, Takes
  <2>2. /\ Head(w).cmd = "PSH" /\ Head(w).sid = s => EndOrder(Tail(w), c, s, a + 1, b, on)
        /\ ~(Head(w).cmd = "PSH" /\ Head(w).sid = s) => EndOrder(Tail(w), c, s, a, b, on)
      BY <1>9, <1>10, <2>1, <1>EndTaken
  <2>3. CASE Head(w).cmd = "PSH" /\ Head(w).sid = s
    <3>1. on2 => TakesUnit(e)
        BY <1>3, <1>7, <1>11, <2>1, <2>3, DataTaken
    <3>2. on2 => LastUnit(e, s)' = a + 1
        BY <1>2, <1>3, <1>5, <2>3, <3>1, UnitTaken
    <3> QED
        BY <1>14, <2>1, <2>2, <2>3, <3>2
  <2>4. CASE ~(Head(w).cmd = "PSH" /\ Head(w).sid = s)
    <3>1. on2 => LastUnit(e, s)' = a
        BY <1>3, <1>5, <1>12, <2>4, UnitsStep DEF TakesUnit
    <3> QED
        BY <1>14, <2>1, <2>2, <2>4, <3>1
  <2> QED
      BY <2>3, <2>4
<1>21. H
  <2>1. Transmits(p, s)
      BY Transmitting
  <2> QED
      BY <1>16, <1>17, <1>18, <1>19, <1>20, <2>1 DEF Transmits
<1>22. ASSUME st'[e][s] \notin {"none", "dropped"}, s \notin entry'[e], recv'[e] # "ended"
       PROVE  finSent'[p][s] /\ LastUnit(e, s)' = written'[p][s]
  <2>1. st'[e][s] # "none" /\ st'[e][s] # "dropped"
      BY <1>22
  <2>2. st[e][s] # "none"
      BY <1>22, <2>1, <1>LivesOn
  <2>3. st[e][s] # "dropped" /\ recv[e] # "ended"
      BY <1>22, <2>1, AliveStep, EntryStep
  <2>4. finSent[p][s] => finSent'[p][s] /\ written'[p][s] = b
      BY <1>6, WrittenKept
  <2>5. LastUnit(e, s)' = a \/ (TakesUnit(e) /\ Head(w).sid = s)
      BY <1>3, <1>5, <2>1, UnitsStep
  <2>6. CASE s \notin entry[e]
    <3>1. finSent[p][s] /\ a = b
      <4>1. st[e][s] \notin {"none", "dropped"}
          BY <2>2, <2>3
      <4> QED
          BY <1>10, <2>3, <2>6, <4>1
    <3>2. LastUnit(e, s)' = a
        BY <1>3, <2>5, <2>6 DEF TakesUnit
    <3> QED
        BY <2>4, <3>1, <3>2
  <2>7. CASE s \in entry[e]
    <3>1. TakesFin(e) /\ Head(w).sid = s
        BY <1>3, <1>22, <2>3, <2>7, EntryStep
    <3>2. Head(w).cmd = "FIN" /\ w # <<>>
        BY <1>3, <3>1 DEF TakesFin, Takes
    <3>3. on
        BY <1>7, <2>3, <2>7 DEF Alive
    <3>4. a = b
        BY <1>9, <1>10, <3>1, <3>2, <3>3, <1>EndTaken
    <3>5. finSent[p][s]
      <4>1. Made(p, Head(w))
          BY <1>3, <3>2, HeadOf
      <4> QED
          BY <3>1, <3>2, <4>1 DEF Made
    <3>6. ~TakesUnit(e)
      <4>1. Head(w).cmd # "PSH"
          BY <3>2
      <4> QED
          BY <1>3, <4>1 DEF TakesUnit
    <3> QED
        BY <2>4, <2>5, <3>4, <3>5, <3>6
  <2> QED
      BY <2>6, <2>7
<1> QED
    BY <1>21, <1>22

\* A step keeps AcceptedEofComplete.
LEMMA EofStep ==
  ASSUME IInv, OrderInv, Links \/ Rests \/ \E e \in Ends : Moves(e)
  PROVE  AcceptedEofComplete'
<1>Calls. /\ UNCHANGED eof \/ \E e \in Ends, s \in Sids : ReadEof(e, s)
          /\ UNCHANGED numRead \/ \E e \in Ends, s \in Sids : Reads(e, s)
  <2>1. CASE Links \/ Rests
      BY <2>1 DEF Links, Rests
  <2>2. ASSUME NEW e \in Ends, NEW s \in Sids,
               Writes(e, s) \/ Waits(e, s) \/ CloseStream(e, s) \/ DropStream(e, s)
        PROVE  UNCHANGED <<eof, numRead>>
      BY <2>2 DEF Writes, Waits, CloseStream, DropStream
  <2>3. ASSUME NEW e \in Ends, NEW s \in Sids, Reads(e, s)
        PROVE  UNCHANGED eof
      BY <2>3 DEF Reads
  <2>4. ASSUME NEW e \in Ends, NEW s \in Sids, ReadEof(e, s)
        PROVE  UNCHANGED numRead
      BY <2>4 DEF ReadEof
  <2>5. ASSUME NEW e \in Ends,
               \/ OpenStream(e) \/ Accept(e) \/ Puts(e) \/ Stops(e)
               \/ \E f \in late[e] : LateUpdate(e, f)
        PROVE  UNCHANGED <<eof, numRead>>
      BY <2>5 DEF OpenStream, Accept, Puts, Stops, LateUpdate
  <2>6. ASSUME NEW e \in Ends, Receives(e)
        PROVE  UNCHANGED <<eof, numRead>>
      BY <2>6 DEF Receives, TakesSyn, TakesFin, TakesUnit, TakesRest, Takes, Unblocks, Loops
  <2> QED
      BY <2>1, <2>2, <2>3, <2>4, <2>5, <2>6 DEF Moves
<1> SUFFICES ASSUME NEW s \in Sids, NEW e \in Ends, NEW p \in Ends, e = Opener(s), p = Peer(e),
                    eof'[e][s], recv'[e] # "ended"
             PROVE  finSent'[p][s] /\ numRead'[e][s] = written'[p][s]
  <2>1. \A s \in Sids : Opener(s) \in Ends /\ Peer(Opener(s)) \in Ends
      BY OpenerIs, Ending
  <2> QED
      BY <2>1 DEF AcceptedEofComplete
<1>1. TypeOK' /\ Handles' /\ FinLast' /\ HeldNext'
    BY TypeStep, HandlesStep, FinStep, HeldStep
<1>2. HandleOf(e, s)'
    BY <1>1 DEF Handles
<1>3. inbox'[e][s] = <<>> /\ s \notin entry'[e] /\ st'[e][s] # "none"
    BY <1>2, ZenonT(60) DEF HandleOf
<1>4. CASE st'[e][s] # "dropped"
  <2>1. finSent'[p][s] /\ LastUnit(e, s)' = written'[p][s]
    <3>1. st'[e][s] \notin {"none", "dropped"}
        BY <1>3, <1>4
    <3> QED
        BY <1>1, <1>3, <3>1 DEF FinLast
  <2>2. ~(recv'[e] = "blocked" /\ held'[e].sid = s)
      BY <1>1, <1>3, <1>4 DEF HeldNext
  <2>3. LastUnit(e, s)' = numRead'[e][s] + Len(inbox'[e][s]) /\ numRead'[e][s] \in Nat
      BY <1>1, <2>2, LastNext
  <2>4. Len(inbox'[e][s]) = 0
      BY <1>3
  <2> QED
      BY <2>1, <2>3, <2>4, NoMore
<1>5. CASE st'[e][s] = "dropped"
  <2>1. eof[e][s] /\ numRead'[e][s] = numRead[e][s]
    <3>1. ASSUME NEW d \in Ends, NEW t \in Sids, ReadEof(d, t)
          PROVE  eof[e][s]
        BY <1>5, <3>1 DEF ReadEof, IInv, TypeOK, HandleTypes, PerStream
    <3>2. eof[e][s]
        BY <3>1, <1>Calls
    <3>3. inbox[e][s] = <<>>
        BY <3>2 DEF OrderInv, Handles, HandleOf
    <3>4. ASSUME NEW d \in Ends, NEW t \in Sids, Reads(d, t)
          PROVE  numRead'[e][s] = numRead[e][s]
      <4>1. ~(d = e /\ t = s)
          BY <3>3, <3>4 DEF Reads
      <4> QED
          BY <3>4, <4>1 DEF Reads, IInv, TypeOK, CountTypes, PerStream
    <3> QED
        BY <3>2, <3>4, <1>Calls
  <2>2. recv[e] # "ended"
      BY EntryStep
  <2>3. finSent[p][s] /\ numRead[e][s] = written[p][s]
      BY <2>1, <2>2 DEF OrderInv, AcceptedEofComplete
  <2> QED
      BY <2>1, <2>3, WrittenKept
<1> QED
    BY <1>4, <1>5

-----------------------------------------------------------------------------
(* The invariant holds, and with it the properties.                        *)

\* newSession starts in the invariant.
LEMMA InitOrder ==
  ASSUME Init
  PROVE  OrderInv
<1>1. /\ \A e \in Ends : /\ wire[e] = <<>> /\ ctrl[e] = <<>> /\ data[e] = <<>>
                         /\ late[e] = {} /\ recv[e] = "reading" /\ entry[e] = {}
                         /\ backlog[e] = <<>>
                         /\ nextId[e] = IF e = "client" THEN 1 ELSE 0
      /\ \A e \in Ends, s \in Sids :
           /\ inbox[e][s] = <<>> /\ st[e][s] = "none" /\ mode[e][s] = "idle"
           /\ ~finSent[e][s] /\ ~eof[e][s] /\ written[e][s] = 0 /\ numRead[e][s] = 0
    BY DEF Init, Each
<1>3. Handles
  <2>1. \A e \in Ends : Ids(e)
      BY <1>1, SMT DEF Ids, Opener, Ends
  <2>2. \A e \in Ends : Queued(e)
      BY <1>1, SMT DEF Queued
  <2>3. \A e \in Ends, s \in Sids : HandleOf(e, s)
      BY <1>1 DEF HandleOf
  <2> QED
      BY <2>1, <2>2, <2>3, ZenonT(60) DEF Handles
<1>4. Sources
    BY <1>1, RangeEmpty DEF Sources
<1>5. \A s \in Sids : Opener(s) \in Ends /\ Peer(Opener(s)) \in Ends
    BY OpenerIs, Ending
<1>6. SynFirst
  <2> SUFFICES ASSUME NEW s \in Sids, NEW e \in Ends, NEW p \in Ends
               PROVE  SynOrder(wire[e], ctrl[e], s, st[e][s], st[p][s], Up(e))
      BY <1>5 DEF SynFirst
  <2>1. wire[e] = <<>> /\ ctrl[e] = <<>> /\ st[e][s] = "none" /\ st[p][s] = "none"
      BY <1>1
  <2>2. SynOrder(<<>>, <<>>, s, "none", "none", Up(e))
      BY OnceEmpty, BeforeEmpty, HasEmpty DEF SynOrder
  <2> QED
      BY <2>1, <2>2
<1>7. \A e \in Ends : recv[e] # "blocked"
    BY <1>1
<1>8. HeldNext
    BY <1>7 DEF HeldNext
<1>9. \A e \in Ends, s \in Sids : LastUnit(e, s) = 0
  <2> TAKE e \in Ends, s \in Sids
  <2>1. numRead[e][s] = 0 /\ Len(inbox[e][s]) = 0 /\ recv[e] # "blocked"
      BY <1>1, <1>7, SMT
  <2> QED
      BY <2>1, SMT DEF LastUnit
<1>10. Flow
  <2> SUFFICES ASSUME NEW e \in Ends, NEW s \in Sids
               PROVE  Carried(wire[e], DataQueue(e, s), s, LastUnit(Peer(e), s), written[e][s],
                              Up(e))
      BY DEF Flow
  <2>1. wire[e] = <<>> /\ DataQueue(e, s) = <<>> /\ written[e][s] = 0
      BY <1>1 DEF DataQueue
  <2>2. LastUnit(Peer(e), s) = 0
      BY <1>9, Ending
  <2>3. Carries(<<>>, s, 0, 0)
      BY CarriesEmpty
  <2>4. 0 \in 0..0
      BY SMT
  <2>5. Carried(<<>>, <<>>, s, 0, 0, Up(e))
      BY <2>3, <2>4 DEF Carried
  <2> QED
      BY <2>1, <2>2, <2>5
<1>11. FinLast
  <2> SUFFICES ASSUME NEW s \in Sids, NEW e \in Ends, NEW p \in Ends
               PROVE  /\ Before(wire[p], "PSH", "FIN", s) /\ Before(ctrl[p], "PSH", "FIN", s)
                      /\ ~Has(wire[p], "FIN", s) /\ st[e][s] \in {"none", "dropped"}
      BY <1>5 DEF FinLast
  <2>1. wire[p] = <<>> /\ ctrl[p] = <<>> /\ st[e][s] = "none"
      BY <1>1
  <2> QED
      BY <2>1, BeforeEmpty, HasEmpty
<1>13. InOrder
    BY <1>1, SMT DEF InOrder
<1>14. AcceptedEofComplete
    BY <1>1, <1>5 DEF AcceptedEofComplete
<1> QED
    BY <1>3, <1>4, <1>6, <1>8, <1>10, <1>11, <1>13, <1>14 DEF OrderInv

\* Every step keeps the invariant.
LEMMA OrderStep ==
  ASSUME IInv, OrderInv, [Next]_vars
  PROVE  OrderInv'
<1>1. Links \/ Rests \/ \E e \in Ends : Moves(e)
    BY Steps
<1>2. Handles' /\ Sources' /\ SynFirst' /\ HeldNext'
    BY <1>1, HandlesStep, SourcesStep, SynStep, HeldStep
<1>3. Flow' /\ FinLast' /\ InOrder' /\ AcceptedEofComplete'
    BY <1>1, FlowStep, FinStep, InOrderStep, EofStep
<1> QED
    BY <1>2, <1>3 DEF OrderInv

\* Streams are opened and accepted once, SYN comes before the data and FIN after them,
\* and what is on the wire and in the queues continues what has left the wire.
THEOREM OrderInvariance == Spec => []OrderInv
<1>1. Init => OrderInv
    BY InitOrder
<1>2. IInv /\ OrderInv /\ [Next]_vars => OrderInv'
    BY OrderStep
<1> QED
    BY <1>1, <1>2, Invariance, PTL DEF Spec

\* A reader gets the units of every stream in the order they were written, each once,
\* whatever is opened, closed, dropped or broken on the way.
THEOREM Ordered == Spec => []InOrder
<1>1. OrderInv => InOrder
    BY DEF OrderInv
<1> QED
    BY <1>1, OrderInvariance, PTL

\* The end of an accepted stream comes after all its data: FIN takes the same queue.
THEOREM EofComplete == Spec => []AcceptedEofComplete
<1>1. OrderInv => AcceptedEofComplete
    BY DEF OrderInv
<1> QED
    BY <1>1, OrderInvariance, PTL

=============================================================================
