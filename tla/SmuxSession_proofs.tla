------------------------- MODULE SmuxSession_proofs -------------------------
(* The types and the windows of SmuxSession hold for any number of streams   *)
(* and units, capacities of the channels and windows.  What follows about    *)
(* its streams and the frames under way is used in SmuxSession_order.        *)
EXTENDS SmuxSession, TLAPS

USE DEF transport, loops, queues, registry, tokens, handles, counts, shared, setup

\* A step is Zenon's unless it names SMT.
USE Zenon

\* What the assumptions on the constants give: the caps and windows are numbers.
LEMMA Constants ==
    /\ MaxSid \in Nat /\ Sids \subseteq Nat /\ 0 \in Sids
    /\ QueueCap \in Nat /\ InboxCap \in Nat /\ BacklogCap \in Nat /\ WireCap \in Nat
    /\ InitialWindow \in Nat /\ StreamBuffer \in Nat /\ ReceiveBuffer \in Nat
BY SmuxAssumption, SMT DEF Sids

-----------------------------------------------------------------------------
(* Queues of frames.                                                       *)

\* Each end has the other one as its peer.
LEMMA Ending ==
  ASSUME NEW e \in Ends
  PROVE  Peer(e) \in Ends /\ Peer(e) # e /\ Peer(Peer(e)) = e /\ Ends = {e, Peer(e)}
BY DEF Ends, Peer

\* Head and Tail of a queue that is not empty.
LEMMA TailIs ==
  ASSUME NEW q \in Seq(Frames), q # <<>>
  PROVE  /\ Tail(q) \in Seq(Frames) /\ Head(q) \in Frames /\ Head(q) = q[1]
         /\ DOMAIN q = 1..Len(q) /\ Len(q) \in Nat \ {0}
         /\ DOMAIN Tail(q) = 1..(Len(q) - 1)
         /\ \A i \in 1..(Len(q) - 1) : Tail(q)[i] = q[i + 1]
BY SMT

\* What Append adds to a queue, position by position.
LEMMA Joined ==
  ASSUME NEW S, NEW q \in Seq(S), NEW x \in S
  PROVE  \A i \in DOMAIN Append(q, x) :
            \/ i \in DOMAIN q /\ Append(q, x)[i] = q[i]
            \/ i = Len(q) + 1 /\ Append(q, x)[i] = x
BY SMT

\* A queue gains what is appended to it.
LEMMA RangeAppend ==
  ASSUME NEW q \in Seq(Frames), NEW f \in Frames, NEW g \in Range(Append(q, f))
  PROVE  g \in Range(q) \/ g = f
BY SMT DEF Range

\* A queue holds its head, and what its tail holds.
LEMMA RangeTail ==
  ASSUME NEW q \in Seq(Frames), q # <<>>
  PROVE  Head(q) \in Range(q) /\ \A g \in Range(Tail(q)) : g \in Range(q)
<1>1. \A i \in DOMAIN Tail(q) : i + 1 \in DOMAIN q /\ Tail(q)[i] = q[i + 1]
    BY TailIs, SMT
<1>2. 1 \in DOMAIN q /\ Head(q) = q[1]
    BY TailIs, SMT
<1> QED
    BY <1>1, <1>2, SMT DEF Range

\* An empty queue holds nothing.
LEMMA RangeEmpty == Range(<<>>) = {}
BY SMT DEF Range

\* Writing one end of a variable keeps its type.
LEMMA PutEnd ==
  ASSUME NEW S, NEW g \in [Ends -> S], NEW e \in Ends, NEW x \in S
  PROVE  [g EXCEPT ![e] = x] \in [Ends -> S]
OBVIOUS

\* Writing one stream of one end keeps the type of a variable.
LEMMA PutStream ==
  ASSUME NEW S, NEW g \in PerStream(S), NEW e \in Ends, NEW s \in Sids, NEW x \in S
  PROVE  [g EXCEPT ![e][s] = x] \in PerStream(S)
BY DEF PerStream

\* Sending to and receiving from a channel keep it a bounded channel.
LEMMA BoundedIs ==
  ASSUME NEW S, NEW n \in Nat, NEW q \in Bounded(S, n)
  PROVE  /\ q \in Seq(S) /\ Len(q) \in Nat /\ <<>> \in Bounded(S, n)
         /\ q # <<>> => Head(q) \in S /\ Tail(q) \in Bounded(S, n)
         /\ Len(q) < n => \A x \in S : Append(q, x) \in Bounded(S, n)
BY SMT DEF Bounded

\* The queues of both ends hold frames.
LEMMA Channels ==
  ASSUME QueueTypes, NEW e \in Ends
  PROVE  /\ wire[e] \in Seq(Frames) /\ Len(wire[e]) \in Nat
         /\ ctrl[e] \in Seq(Frames) /\ Len(ctrl[e]) \in Nat
         /\ data[e] \in Seq(Frames) /\ Len(data[e]) \in Nat
BY SMT DEF QueueTypes, Bounded

\* A frame names a stream and a number.
LEMMA FrameIs == \A f \in Frames : f.sid \in Sids /\ f.n \in Nat
BY DEF Frames

\* Frame makes frames.
LEMMA Framed ==
  ASSUME NEW c \in {"SYN", "FIN", "PSH", "NOP", "UPD"}, NEW s \in Sids, NEW n \in Nat
  PROVE  Frame(c, s, n) \in Frames
BY DEF Frame, Frames

\* Reading a unit counts one more at its stream, and nowhere less.
LEMMA ReadAt ==
  ASSUME numRead \in PerStream(Nat), NEW e \in Ends, NEW t \in Sids, NEW d \in Ends, NEW s \in Sids,
         numRead' = [numRead EXCEPT ![e][t] = @ + 1]
  PROVE  numRead[d][s] <= numRead'[d][s] /\ numRead[e][t] + 1 <= numRead'[e][t]
BY SMT DEF PerStream

\* The counter of a stream is a number.
LEMMA CountIs ==
  ASSUME NEW g \in PerStream(Nat), NEW e \in Ends, NEW s \in Sids
  PROVE  g[e][s] \in Nat /\ g[e][s] + 1 \in Nat /\ g[e][s] <= g[e][s]
BY SMT DEF PerStream

\* Numbers are ordered transitively.
LEMMA AtMost ==
  ASSUME NEW a \in Nat, NEW b \in Nat, NEW c \in Nat, a <= b, b <= c
  PROVE  a <= c
BY SMT

\* A window leaves room for what was not read, where the writer knows of less.
LEMMA InWindow ==
  ASSUME NEW w \in Nat, NEW c \in Nat, NEW r \in Nat, NEW n \in {InitialWindow, StreamBuffer},
         c <= r, n - (w - c) > 0, w - r >= InitialWindow
  PROVE  w - r < StreamBuffer
BY Constants, SMT

\* There is no less room when the reader has read more.
LEMMA MoreRoom ==
  ASSUME NEW w \in Nat, NEW r \in Nat, NEW q \in Nat, r <= q,
         w - r >= InitialWindow => w - r < StreamBuffer
  PROVE  w - q >= InitialWindow => w - q < StreamBuffer
BY Constants, SMT

-----------------------------------------------------------------------------
(* The initial states.                                                     *)

\* newSession starts in the invariant.
LEMMA InitIInv ==
  ASSUME Init
  PROVE  IInv
<1>InitTypes. TypeOK
  <2>1. PICK u \in Setups : version = u.version /\ last = u.last /\ units = u.units /\ rare = u.rare
      BY DEF Init
  <2>2. /\ u.version \in [Ends -> {1, 2}] /\ u.last \in Sids
        /\ u.units \in [Ends -> [Sids -> 0..MaxUnits]] /\ u.rare \in Nat
      BY <2>1, SmuxAssumption
  <2>3. LoopTypes
    <3>1. NoFrame \in Frames
        BY Constants DEF NoFrame, Frame, Frames
    <3>2. ReceiveBuffer \in Int
        BY Constants, SMT
    <3> QED
        BY <2>1, <2>2, <3>1, <3>2 DEF Init, LoopTypes
  <2>4. \A S : \A n \in Nat : <<>> \in Bounded(S, n)
      BY SMT DEF Bounded
  <2>5. /\ <<>> \in Bounded(Frames, WireCap) /\ <<>> \in Bounded(Frames, QueueCap)
        /\ <<>> \in Bounded(Nat, InboxCap) /\ <<>> \in Bounded(Sids, BacklogCap)
      BY <2>4, Constants
  <2>6. QueueTypes
      BY <2>5 DEF Init, QueueTypes
  <2>7. RegistryTypes
      BY <2>5 DEF Init, Each, RegistryTypes, PerStream
  <2>8. HandleTypes
      BY DEF Init, Each, HandleTypes, PerStream
  <2>9. CountTypes
    <3>1. units \in PerStream(Nat)
        BY <2>1, <2>2, SMT DEF PerStream
    <3> QED
        BY <2>1, <2>2, <3>1, Constants DEF Init, Each, CountTypes, PerStream
  <2> QED
      BY <2>3, <2>6, <2>7, <2>8, <2>9 DEF TypeOK
<1>1. TypeOK
    BY <1>InitTypes
<1>2. \A e \in Ends : /\ wire[e] = <<>> /\ ctrl[e] = <<>> /\ data[e] = <<>>
                      /\ late[e] = {} /\ ~opening[e]
    BY DEF Init
<1>3. \A e \in Ends, s \in Sids :
         /\ written[e][s] = 0 /\ numRead[e][s] = 0 /\ consumed[e][s] = 0
         /\ window[e][s] = InitialWindow
    BY DEF Init, Each
<1>4. Opened /\ Updates
    BY <1>2, RangeEmpty DEF Opened, Updates, InFlight
<1>5. \A e \in Ends, s \in Sids : numRead[Peer(e)][s] = 0
    BY <1>3, Ending
<1>6. Windows
    BY <1>3, <1>5, SMT DEF Windows
<1>7. WindowRespected
  <2>1. ASSUME NEW e \in Ends, NEW s \in Sids
        PROVE  ~(written[e][s] - numRead[Peer(e)][s] > InitialWindow)
    <3>1. written[e][s] = 0 /\ numRead[Peer(e)][s] = 0
        BY <1>3, <1>5
    <3>2. InitialWindow \in Nat
        BY Constants
    <3> QED
        BY <3>1, <3>2, SMT
  <2> QED
      BY <2>1 DEF WindowRespected
<1>8. Checked
    BY DEF Init, Each, Checked
<1> QED
    BY <1>1, <1>4, <1>6, <1>7, <1>8 DEF IInv

-----------------------------------------------------------------------------
(* What the steps do.                                                      *)

\* A frame is sent to the control queue, unless the write loop has ended.
Queues(e, f) ==
    \/ /\ writer[e] = "running" /\ Len(ctrl[e]) < QueueCap
       /\ ctrl' = [ctrl EXCEPT ![e] = Append(@, f)]
    \/ writer[e] = "ended" /\ UNCHANGED ctrl

\* A frame sent to ctrl joins it, unless the writer has ended.
LEMMA Sending ==
  ASSUME LoopTypes, NEW e \in Ends, NEW f, CanSend(ctrl, e), ctrl' = Sent(ctrl, e, f)
  PROVE  Queues(e, f)
BY DEF LoopTypes, CanSend, Sent, Queues

\* A call of write() goes on, or begins on an open handle.
Writable(e, s) == mode[e][s] # "idle" \/ (st[e][s] = "open" /\ ~finSent[e][s])

\* write() sends a unit, now that it has tested the window or has waited since ...
Writes(e, s) ==
    /\ Writable(e, s) /\ WriteUnit(e, s)
    /\ mode[e][s] = "writing" \/ MaySend(e, s)
    /\ windowNotify' \in PerStream(BOOLEAN)
    /\ UNCHANGED <<transport, loops, late, registry, tokens, st, finSent, eof, numRead, incr,
                   consumed, window, setup>>

\* ... or waits, or gives up.
Waits(e, s) ==
    /\ \E x \in {"idle", "writing", "waiting"} :
        /\ (x # "idle" => Writable(e, s)) /\ (x = "writing" => MaySend(e, s))
        /\ mode' = [mode EXCEPT ![e][s] = x]
    /\ windowNotify' \in PerStream(BOOLEAN)
    /\ UNCHANGED <<transport, loops, queues, registry, tokens, st, finSent, eof, counts,
                   consumed, window, setup>>

\* Every step of write() puts one unit in a queue, or only moves the call.
LEMMA Writing ==
  ASSUME TypeOK, NEW e \in Ends, NEW s \in Sids, Write(e, s) \/ WriteTask(e, s)
  PROVE  Writes(e, s) \/ Waits(e, s)
<1>1. /\ windowNotify \in PerStream(BOOLEAN)
      /\ [windowNotify EXCEPT ![e][s] = FALSE] \in PerStream(BOOLEAN)
    BY DEF TypeOK, CountTypes, PerStream
<1>2. CASE Write(e, s)
    BY <1>1, <1>2 DEF Write, Writes, Waits, Writable
<1>3. CASE WriteResumes(e, s)
  <2>1. Writable(e, s)
      BY <1>3 DEF WriteResumes, Writable
  <2> QED
      BY <1>1, <1>3, <2>1 DEF WriteResumes, Writes
<1>4. CASE WriteFails(e, s)
    BY <1>1, <1>4 DEF WriteFails, Waits
<1>5. CASE WriteWakes(e, s)
  <2>0. Writable(e, s)
      BY <1>5 DEF WriteWakes, Writable
  <2>1. CASE WriteUnit(e, s) /\ MaySend(e, s)
      BY <1>1, <1>5, <2>0, <2>1 DEF WriteWakes, Writes
  <2>2. CASE UNCHANGED <<ctrl, data, written>>
    <3>1. \E x \in {"idle", "writing", "waiting"} :
             (x = "writing" => MaySend(e, s)) /\ mode' = [mode EXCEPT ![e][s] = x]
        BY <1>5 DEF WriteWakes, WriteUnit
    <3> QED
        BY <1>1, <1>5, <2>0, <2>2, <3>1 DEF WriteWakes, Waits
  <2> QED
      BY <1>5, <2>1, <2>2 DEF WriteWakes
<1> QED
    BY <1>2, <1>3, <1>4, <1>5 DEF WriteTask

\* read() takes a unit and tells the writer, or has a task tell it, or does not yet.
Reads(e, s) ==
    /\ st[e][s] = "open" /\ inbox[e][s] # <<>>
    /\ inbox' = [inbox EXCEPT ![e][s] = Tail(@)]
    /\ numRead' = [numRead EXCEPT ![e][s] = @ + 1]
    /\ \/ /\ Queues(e, Frame("UPD", s, numRead[e][s] + 1)) /\ UNCHANGED late
       \/ /\ late' = [late EXCEPT ![e] = @ \cup {Frame("UPD", s, numRead[e][s] + 1)}]
          /\ UNCHANGED ctrl
       \/ UNCHANGED <<ctrl, late>>
    /\ bucket' \in [Ends -> Int] /\ tokenNotify' \in [Ends -> BOOLEAN]
    /\ incr' \in PerStream(Nat)
    /\ UNCHANGED <<transport, loops, data, entry, backlog, nextId, opening, handles, written,
                   shared, setup>>

\* Every step of read() takes one unit and may queue a window update.
LEMMA Reading ==
  ASSUME TypeOK, NEW e \in Ends, NEW s \in Sids, Read(e, s)
  PROVE  Reads(e, s)
<1>1. /\ bucket \in [Ends -> Int] /\ tokenNotify \in [Ends -> BOOLEAN]
      /\ incr \in PerStream(Nat) /\ writer \in [Ends -> {"running", "ended"}]
    BY DEF TypeOK, LoopTypes, CountTypes
<1>7. /\ writer[e] \in {"running", "ended"} /\ Len(ctrl[e]) \in Nat
      /\ bucket[e] + 1 \in Int /\ incr[e][s] \in Nat /\ incr[e][s] + 1 \in Nat
    BY <1>1, Channels, SMT DEF TypeOK, PerStream
<1>2. Consume_tokens(e, s)
    BY DEF Read
<1>3. bucket' \in [Ends -> Int]
  <2>1. bucket' = bucket \/ bucket' = [bucket EXCEPT ![e] = @ + 1]
      BY <1>2 DEF Consume_tokens
  <2> QED
      BY <1>1, <2>1, SMT
<1>4. tokenNotify' \in [Ends -> BOOLEAN]
  <2>1. (tokenNotify[e] \/ bucket[e] <= 0) \in BOOLEAN
      OBVIOUS
  <2> QED
      BY <1>1, <1>2, <2>1, PutEnd, ZenonT(60) DEF Consume_tokens
<1>5. incr' \in PerStream(Nat)
  <2>1. incr' = incr \/ \E x \in Nat : incr' = [incr EXCEPT ![e][s] = x]
    <3>1. CASE UpdateDue(e, s)
        BY <1>2, <3>1 DEF Consume_tokens
    <3>2. CASE ~UpdateDue(e, s)
        BY <1>2, <1>7, <3>2 DEF Consume_tokens
    <3> QED
        BY <3>1, <3>2
  <2>2. \A x \in Nat : [incr EXCEPT ![e][s] = x] \in PerStream(Nat)
      BY <1>1, PutStream
  <2> QED
      BY <1>1, <2>1, <2>2
<1> DEFINE f == Frame("UPD", s, numRead[e][s] + 1)
<1>6. UNCHANGED data /\ \/ Queues(e, f) /\ UNCHANGED late
                        \/ late' = [late EXCEPT ![e] = @ \cup {f}] /\ UNCHANGED ctrl
                        \/ UNCHANGED <<ctrl, late>>
  <2>1. CASE UpdateDue(e, s) /\ ~(Len(ctrl[e]) >= QueueCap \/ writer[e] = "ended")
    <3>1. Len(ctrl[e]) < QueueCap /\ writer[e] = "running" /\ ~(writer[e] = "ended")
        BY <1>7, <2>1, Constants, SMT
    <3> QED
        BY <1>2, <2>1, <3>1 DEF Consume_tokens, Sent, Queues
  <2>2. CASE ~(UpdateDue(e, s) /\ ~(Len(ctrl[e]) >= QueueCap \/ writer[e] = "ended"))
      BY <1>2, <2>2 DEF Consume_tokens
  <2> QED
      BY <2>1, <2>2
<1> QED
    BY <1>3, <1>4, <1>5, <1>6 DEF Read, Reads

\* The write loop moves a frame to the wire, and may then end.
Puts(e) ==
    \E f \in Frames :
        /\ writer[e] = "running" /\ link # "broken" /\ Len(wire[e]) < WireCap
        /\ wire' = [wire EXCEPT ![e] = Append(@, f)]
        /\ \/ /\ ctrl[e] # <<>> /\ f = Head(ctrl[e])
              /\ \/ EndWriter(e)
                 \/ ctrl' = [ctrl EXCEPT ![e] = Tail(@)] /\ UNCHANGED <<data, writer>>
           \/ /\ ctrl[e] = <<>> /\ data[e] # <<>> /\ f = Head(data[e])
              /\ \/ EndWriter(e)
                 \/ data' = [data EXCEPT ![e] = Tail(@)] /\ UNCHANGED <<ctrl, writer>>
           \/ f = NoFrame /\ (EndWriter(e) \/ UNCHANGED <<ctrl, data, writer>>)
        /\ rare' \in Nat
        /\ UNCHANGED <<version, link, closed, recv, held, late, registry, tokens, handles,
                       counts, shared, last, units>>

Stops(e) ==
    /\ EndWriter(e) /\ closed' \in [Ends -> BOOLEAN] /\ rare' \in Nat
    /\ UNCHANGED <<transport, recv, held, late, registry, tokens, handles, counts, shared,
                   last, units>>

\* The steps of the write loop: it puts a frame on the wire, or it stops.
LEMMA WriterMoves ==
  ASSUME TypeOK, NEW e \in Ends, WriteLoop(e) \/ Nop(e) \/ KeepAliveTimeout(e)
  PROVE  Puts(e) \/ Stops(e)
<1>1. rare \in Nat /\ (Rare => rare' \in Nat /\ UNCHANGED <<last, units>>)
    BY SMT DEF TypeOK, CountTypes, Rare
<1>2. /\ closed \in [Ends -> BOOLEAN] /\ [closed EXCEPT ![e] = TRUE] \in [Ends -> BOOLEAN]
      /\ ctrl[e] # <<>> => Head(ctrl[e]) \in Frames
      /\ data[e] # <<>> => Head(data[e]) \in Frames
      /\ NoFrame \in Frames
  <2>1. NoFrame \in Frames
      BY Framed, Constants DEF NoFrame
  <2>2. ctrl[e] \in Bounded(Frames, QueueCap) /\ data[e] \in Bounded(Frames, QueueCap)
      BY DEF TypeOK, QueueTypes
  <2>3. closed \in [Ends -> BOOLEAN]
      BY DEF TypeOK, LoopTypes
  <2> QED
      BY <2>1, <2>2, <2>3, BoundedIs, PutEnd, Constants
<1>3. CASE WriteCtrl(e)
    BY <1>1, <1>2, <1>3 DEF WriteCtrl, Put, Puts
<1>4. CASE WriteData(e)
    BY <1>1, <1>2, <1>4 DEF WriteData, Put, Puts
<1>5. CASE WriteError(e) \/ KeepAliveTimeout(e)
    BY <1>1, <1>2, <1>5 DEF WriteError, KeepAliveTimeout, Stops
<1>6. CASE Nop(e)
    BY <1>1, <1>2, <1>6 DEF Nop, Put, Puts, Stops
<1> QED
    BY <1>3, <1>4, <1>5, <1>6 DEF WriteLoop

\* The receive loop goes on with the map m, or ends.
Loop(e, m) ==
    /\ closed' \in [Ends -> BOOLEAN]
    /\ \/ recv' = [recv EXCEPT ![e] = "ended"] /\ entry' = [entry EXCEPT ![e] = {}]
       \/ /\ \E x \in {"tokens", "reading"} : recv' = [recv EXCEPT ![e] = x]
          /\ entry' = m

Takes(e) ==
    /\ recv[e] = "reading" /\ wire[Peer(e)] # <<>>
    /\ wire' = [wire EXCEPT ![Peer(e)] = Tail(@)] /\ bucket' \in [Ends -> Int]
    /\ UNCHANGED <<version, link, writer, queues, nextId, opening, tokenNotify, mode, finSent,
                   eof, counts, setup>>

TakesSyn(e) ==
    /\ Takes(e) /\ Head(wire[Peer(e)]).cmd = "SYN" /\ Len(backlog[e]) < BacklogCap
    /\ Loop(e, [entry EXCEPT ![e] = @ \cup {Head(wire[Peer(e)]).sid}])
    /\ backlog' = [backlog EXCEPT ![e] = Append(@, Head(wire[Peer(e)]).sid)]
    /\ st' = [st EXCEPT ![e][Head(wire[Peer(e)]).sid] = "queued"]
    /\ UNCHANGED <<held, inbox, shared>>

TakesFin(e) ==
    /\ Takes(e) /\ Head(wire[Peer(e)]).cmd = "FIN"
    /\ Loop(e, [entry EXCEPT ![e] = @ \ {Head(wire[Peer(e)]).sid}])
    /\ UNCHANGED <<held, inbox, backlog, st, shared>>

\* A unit for a living stream fills its channel or blocks the loop.
TakesUnit(e) ==
    /\ Takes(e) /\ Head(wire[Peer(e)]).cmd = "PSH"
    /\ Head(wire[Peer(e)]).sid \in entry[e] /\ st[e][Head(wire[Peer(e)]).sid] # "dropped"
    /\ \/ /\ Len(inbox[e][Head(wire[Peer(e)]).sid]) < InboxCap
          /\ inbox' = [inbox EXCEPT ![e][Head(wire[Peer(e)]).sid] =
                         Append(@, Head(wire[Peer(e)]).n)]
          /\ Loop(e, entry) /\ UNCHANGED held
       \/ /\ recv' = [recv EXCEPT ![e] = "blocked"]
          /\ held' = [held EXCEPT ![e] = Head(wire[Peer(e)])]
          /\ UNCHANGED <<entry, closed, inbox>>
    /\ UNCHANGED <<backlog, st, shared>>

\* Data that nobody takes, an update or NOP.
TakesRest(e) ==
    /\ Takes(e) /\ Head(wire[Peer(e)]).cmd \notin {"SYN", "FIN"}
    /\ Head(wire[Peer(e)]).cmd = "PSH" =>
        Head(wire[Peer(e)]).sid \notin entry[e] \/ st[e][Head(wire[Peer(e)]).sid] = "dropped"
    /\ \E D \in SUBSET Sids :
        /\ \A s \in D : s \in entry[e] => st[e][s] = "dropped"
        /\ Loop(e, [entry EXCEPT ![e] = @ \ D])
    /\ consumed' \in PerStream(Nat) /\ window' \in PerStream(Nat)
    /\ windowNotify' \in PerStream(BOOLEAN)
    /\ \A d \in Ends, s \in Sids :
        /\ \/ consumed'[d][s] = consumed[d][s]
           \/ /\ d = e /\ Head(wire[Peer(e)]).cmd = "UPD" /\ Head(wire[Peer(e)]).sid = s
              /\ consumed'[d][s] = Head(wire[Peer(e)]).n
        /\ window'[d][s] \in {window[d][s], StreamBuffer}
    /\ UNCHANGED <<held, inbox, backlog, st>>

Unblocks(e) ==
    /\ recv[e] = "blocked"
    /\ \/ /\ st[e][held[e].sid] # "dropped" /\ Len(inbox[e][held[e].sid]) < InboxCap
          /\ inbox' = [inbox EXCEPT ![e][held[e].sid] = Append(@, held[e].n)]
          /\ Loop(e, entry)
       \/ /\ st[e][held[e].sid] = "dropped" /\ UNCHANGED inbox
          /\ Loop(e, [entry EXCEPT ![e] = @ \ {held[e].sid}])
    /\ held' = [held EXCEPT ![e] = NoFrame]
    /\ UNCHANGED <<transport, writer, queues, backlog, nextId, opening, tokens, handles,
                   counts, shared, setup>>

Loops(e) ==
    /\ recv[e] \in {"reading", "tokens"} /\ Loop(e, entry) /\ tokenNotify' \in [Ends -> BOOLEAN]
    /\ UNCHANGED <<transport, writer, held, queues, inbox, backlog, nextId, opening, bucket,
                   handles, counts, shared, setup>>

Receives(e) ==
    \/ TakesSyn(e) \/ TakesFin(e) \/ TakesUnit(e) \/ TakesRest(e) \/ Unblocks(e) \/ Loops(e)

\* The steps of the receive loop, by what they take from the wire.
LEMMA Receiving ==
  ASSUME TypeOK, NEW e \in Ends, RecvLoop(e)
  PROVE  Receives(e)
<1>Looping. ASSUME LoopTypes, NEW b, NEW m, NextFrame(e, b, m) \/ EndRecv(e)
            PROVE  Loop(e, m)
  <2> USE <1>Looping
  <2>1. closed' \in [Ends -> BOOLEAN]
      BY DEF NextFrame, EndRecv, LoopTypes
  <2> QED
      BY <2>1 DEF NextFrame, EndRecv, Loop
<1> DEFINE f == Head(wire[Peer(e)])
<1>1. LoopTypes /\ entry \in [Ends -> SUBSET Sids] /\ tokenNotify \in [Ends -> BOOLEAN]
      /\ bucket \in [Ends -> Int] /\ inbox \in PerStream(Bounded(Nat, InboxCap))
    BY DEF TypeOK, RegistryTypes, LoopTypes
<1>2. ASSUME NEW c, Incoming(e, c)
      PROVE  f \in Frames /\ f.sid \in Sids /\ f.n \in Nat /\ bucket' \in [Ends -> Int]
  <2>1. f \in Frames
      BY <1>2, Ending, Channels, TailIs DEF Incoming, TypeOK
  <2>2. bucket' \in [Ends -> Int]
      BY <1>1, <1>2, SMT DEF Incoming, BucketAfter
  <2> QED
      BY <2>1, <2>2, FrameIs
<1>3. CASE Incoming_SYN(e)
    BY <1>1, <1>2, <1>3, <1>Looping DEF Incoming_SYN, Incoming, TakesSyn, Takes, Receives
<1>4. CASE Incoming_FIN(e)
    BY <1>1, <1>2, <1>4, <1>Looping DEF Incoming_FIN, Incoming, TakesFin, Takes, Receives
<1>5. CASE Incoming_PSH(e)
  <2>1. f.sid \in Sids /\ Takes(e) /\ f.cmd = "PSH" /\ UNCHANGED <<backlog, st, shared>>
      BY <1>2, <1>5 DEF Incoming_PSH, Incoming, Takes
  <2>3. CASE f.sid \in entry[e] /\ st[e][f.sid] # "dropped" /\ Len(inbox[e][f.sid]) < InboxCap
    <3>1. /\ NextFrame(e, bucket'[e], [entry EXCEPT ![e] = @]) /\ UNCHANGED held
          /\ inbox' = [inbox EXCEPT ![e][f.sid] = Append(@, f.n)]
        BY <1>5, <2>3 DEF Incoming_PSH
    <3>2. [entry EXCEPT ![e] = @] = entry
        BY <1>1
    <3>3. Loop(e, entry)
        BY <3>1, <3>2, <1>1, <1>Looping
    <3> QED
        BY <2>1, <2>3, <3>1, <3>3 DEF TakesUnit, Receives
  <2>4. CASE ~(/\ f.sid \in entry[e] /\ st[e][f.sid] # "dropped"
               /\ Len(inbox[e][f.sid]) < InboxCap)
    <3>1. inbox' = [inbox EXCEPT ![e][f.sid] = @]
        BY <1>5, <2>4 DEF Incoming_PSH
    <3>2. UNCHANGED inbox
        BY <3>1, <1>1 DEF PerStream
    <3>3. CASE f.sid \in entry[e] /\ st[e][f.sid] # "dropped"
        BY <1>5, <2>1, <2>4, <3>2, <3>3 DEF Incoming_PSH, TakesUnit, Receives
    <3>4. CASE ~(f.sid \in entry[e] /\ st[e][f.sid] # "dropped")
      <4>1. NextFrame(e, bucket'[e], [entry EXCEPT ![e] = @ \ {f.sid}]) /\ UNCHANGED held
          BY <1>5, <3>4 DEF Incoming_PSH
      <4>2. Loop(e, [entry EXCEPT ![e] = @ \ {f.sid}])
          BY <4>1, <1>1, <1>Looping
      <4>3. /\ consumed' \in PerStream(Nat) /\ window' \in PerStream(Nat)
            /\ windowNotify' \in PerStream(BOOLEAN)
            /\ consumed' = consumed /\ window' = window
          BY <2>1 DEF TypeOK, CountTypes
      <4>4. {f.sid} \in SUBSET Sids
          BY <2>1
      <4>5. \E D \in SUBSET Sids : /\ \A s \in D : s \in entry[e] => st[e][s] = "dropped"
                                   /\ Loop(e, [entry EXCEPT ![e] = @ \ D])
          BY <3>4, <4>2, <4>4
      <4>6. /\ Takes(e) /\ f.cmd \notin {"SYN", "FIN"} /\ UNCHANGED <<held, inbox, backlog, st>>
            /\ f.cmd = "PSH" => f.sid \notin entry[e] \/ st[e][f.sid] = "dropped"
          BY <2>1, <3>2, <3>4, <4>1
      <4> QED
          BY <4>3, <4>5, <4>6 DEF TakesRest, Receives
    <3> QED
        BY <3>3, <3>4
  <2> QED
      BY <2>3, <2>4
<1>6. CASE Incoming_UPD(e) \/ Incoming_NOP(e)
  <2>1. /\ Takes(e) /\ f.cmd \in {"UPD", "NOP"} /\ Loop(e, entry) /\ f.sid \in Sids
        /\ f.n \in Nat /\ UNCHANGED <<held, inbox, backlog, st>>
      BY <1>1, <1>2, <1>6, <1>Looping DEF Incoming_UPD, Incoming_NOP, Incoming, Takes
  <2>2. /\ consumed \in PerStream(Nat) /\ window \in PerStream(Nat)
        /\ windowNotify \in PerStream(BOOLEAN)
      BY DEF TypeOK, CountTypes
  <2>3. /\ consumed' \in PerStream(Nat) /\ window' \in PerStream(Nat)
        /\ windowNotify' \in PerStream(BOOLEAN)
        /\ \A d \in Ends, s \in Sids :
            /\ \/ consumed'[d][s] = consumed[d][s]
               \/ d = e /\ f.cmd = "UPD" /\ f.sid = s /\ consumed'[d][s] = f.n
            /\ window'[d][s] \in {window[d][s], StreamBuffer}
    <3>1. CASE Incoming_NOP(e)
        BY <2>2, <3>1 DEF Incoming_NOP
    <3>2. CASE Incoming_UPD(e)
      <4>1. /\ consumed' = [consumed EXCEPT ![e][f.sid] = IF f.sid \in entry[e] THEN f.n ELSE @]
            /\ window' = [window EXCEPT ![e][f.sid] =
                            IF f.sid \in entry[e] THEN StreamBuffer ELSE @]
            /\ windowNotify' = [windowNotify EXCEPT ![e][f.sid] = @ \/ f.sid \in entry[e]]
            /\ f.cmd = "UPD"
          BY <3>2 DEF Incoming_UPD, Incoming
      <4> HIDE DEF f
      <4>2. StreamBuffer \in Nat
          BY Constants
      <4>3. consumed' \in PerStream(Nat) /\ window' \in PerStream(Nat)
          BY <2>1, <2>2, <4>1, <4>2 DEF PerStream
      <4>4. windowNotify' \in PerStream(BOOLEAN)
          BY <2>1, <2>2, <4>1 DEF PerStream
      <4> QED
          BY <2>1, <2>2, <4>1, <4>3, <4>4, SMT DEF PerStream
    <3> QED
        BY <1>6, <3>1, <3>2
  <2>4. [entry EXCEPT ![e] = @ \ {}] = entry
      BY <1>1
  <2>5. \E D \in SUBSET Sids : /\ \A s \in D : s \in entry[e] => st[e][s] = "dropped"
                               /\ Loop(e, [entry EXCEPT ![e] = @ \ D])
      BY <2>1, <2>4
  <2>6. f.cmd \notin {"SYN", "FIN"} /\ f.cmd # "PSH"
      BY <2>1
  <2> QED
      BY <2>1, <2>3, <2>5, <2>6 DEF TakesRest, Receives
<1>7. CASE Unblock(e)
    BY <1>1, <1>7, <1>Looping DEF Unblock, Unblocks, Receives
<1>8. CASE RecvFails(e) \/ TokensWake(e)
  <2>1. recv[e] \in {"reading", "tokens"} /\ tokenNotify' \in [Ends -> BOOLEAN]
      BY <1>1, <1>8 DEF RecvFails, TokensWake
  <2>2. Loop(e, entry)
      BY <1>1, <1>8, <1>Looping DEF RecvFails, TokensWake
  <2> QED
      BY <1>8, <2>1, <2>2 DEF RecvFails, TokensWake, Loops, Receives
<1> QED
    BY <1>3, <1>4, <1>5, <1>6, <1>7, <1>8 DEF RecvLoop

\* The transport fails.
Links ==
    /\ link' \in {"silent", "broken"} /\ (link = "broken" => link' = "broken")
    /\ wire' = wire \/ (link' = "broken" /\ wire' = [e \in Ends |-> <<>>])
    /\ rare' \in Nat
    /\ UNCHANGED <<version, loops, queues, registry, tokens, handles, counts, shared, last,
                   units>>

\* open() begins, the session is closed, or nothing happens.
Rests ==
    /\ closed' \in [Ends -> BOOLEAN] /\ tokenNotify' \in [Ends -> BOOLEAN]
    /\ opening' \in [Ends -> BOOLEAN] /\ rare' \in Nat
    /\ \A e \in Ends : opening'[e] => opening[e] \/ nextId[e] <= last
    /\ UNCHANGED <<transport, writer, recv, held, queues, entry, inbox, backlog, nextId,
                   bucket, handles, counts, shared, last, units>>

Moves(e) ==
    \/ OpenStream(e) \/ Accept(e) \/ Puts(e) \/ Stops(e) \/ Receives(e)
    \/ \E f \in late[e] : LateUpdate(e, f)
    \/ \E s \in Sids :
        \/ Writes(e, s) \/ Waits(e, s) \/ Reads(e, s) \/ ReadEof(e, s)
        \/ CloseStream(e, s) \/ DropStream(e, s)

\* Every step of the session is one of the link, of a token or of one end.
LEMMA Steps ==
  ASSUME IInv, [Next]_vars
  PROVE  Links \/ Rests \/ \E e \in Ends : Moves(e)
<1>1. /\ rare \in Nat /\ (Rare => rare' \in Nat /\ UNCHANGED <<last, units>>)
      /\ closed \in [Ends -> BOOLEAN] /\ opening \in [Ends -> BOOLEAN]
      /\ tokenNotify \in [Ends -> BOOLEAN] /\ TypeOK
    BY SMT DEF IInv, TypeOK, LoopTypes, RegistryTypes, CountTypes, Rare
<1>2. CASE UNCHANGED vars
    BY <1>1, <1>2 DEF vars, Rests
<1>3. ASSUME NEW e \in Ends, Open(e) \/ Close(e)
      PROVE  Rests
  <2>1. closed' \in [Ends -> BOOLEAN] /\ tokenNotify' \in [Ends -> BOOLEAN]
      BY <1>1, <1>3 DEF Open, Close
  <2>2. opening' \in [Ends -> BOOLEAN]
      BY <1>1, <1>3 DEF Open, Close
  <2>3. \A d \in Ends : opening'[d] => opening[d] \/ nextId[d] <= last
      BY <1>1, <1>3 DEF Open, Close
  <2>4. rare' \in Nat /\ UNCHANGED <<last, units>>
      BY <1>1, <1>3 DEF Open, Close
  <2> QED
      BY <1>3, <2>1, <2>2, <2>3, <2>4 DEF Open, Close, Rests
<1>4. ASSUME Break \/ Silence \/ \E e \in Ends : Hangup(e)
      PROVE  Links
    BY <1>1, <1>4 DEF Break, Silence, Hangup, Links
<1>5. ASSUME NEW e \in Ends, NEW s \in Sids,
             Write(e, s) \/ WriteTask(e, s) \/ ReadTask(e, s)
      PROVE  Writes(e, s) \/ Waits(e, s) \/ Reads(e, s) \/ ReadEof(e, s)
    BY <1>1, <1>5, Writing, Reading DEF ReadTask
<1>6. ASSUME NEW e \in Ends, WriteLoop(e) \/ Nop(e) \/ KeepAliveTimeout(e) \/ RecvLoop(e)
      PROVE  Puts(e) \/ Stops(e) \/ Receives(e)
    BY <1>1, <1>6, WriterMoves, Receiving
<1> QED
    BY <1>2, <1>3, <1>4, <1>5, <1>6 DEF Next, Moves

-----------------------------------------------------------------------------
(* Types.                                                                  *)

\* The identifier being opened is one of Sids, and its SYN is a frame.
LEMMA Sendable ==
  ASSUME IInv, NEW e \in Ends, opening[e]
  PROVE  nextId[e] \in Sids /\ Frame("SYN", nextId[e], 0) \in Frames
<1>1. nextId[e] \in Nat /\ nextId[e] <= last /\ last \in Sids
    BY DEF IInv, TypeOK, RegistryTypes, CountTypes, Opened
<1>2. nextId[e] \in Sids
    BY <1>1, Constants, SMT DEF Sids
<1> QED
    BY <1>2, Framed

\* A step keeps the types of the queues and the wire.
LEMMA QueueStep ==
  ASSUME IInv, Links \/ Rests \/ \E e \in Ends : Moves(e)
  PROVE  QueueTypes'
<1>QueuesTyped. ASSUME QueueTypes, NEW e \in Ends, NEW f \in Frames, Queues(e, f)
                PROVE  ctrl' \in [Ends -> Bounded(Frames, QueueCap)]
  <2> USE <1>QueuesTyped
  <2>1. ctrl \in [Ends -> Bounded(Frames, QueueCap)]
      BY DEF QueueTypes
  <2>2. Len(ctrl[e]) < QueueCap => Append(ctrl[e], f) \in Bounded(Frames, QueueCap)
      BY <2>1, BoundedIs, Constants
  <2> QED
      BY <2>1, <2>2, PutEnd DEF Queues
<1>EndTyped. ASSUME QueueTypes, NEW e \in Ends, EndWriter(e)
             PROVE  /\ ctrl' \in [Ends -> Bounded(Frames, QueueCap)]
                    /\ data' \in [Ends -> Bounded(Frames, QueueCap)]
  <2> USE <1>EndTyped
  <2>1. <<>> \in Bounded(Frames, QueueCap)
      BY Constants, SMT DEF Bounded
  <2> QED
      BY <2>1, PutEnd DEF QueueTypes, EndWriter
<1>0. /\ QueueTypes /\ LoopTypes /\ wire \in [Ends -> Bounded(Frames, WireCap)]
      /\ ctrl \in [Ends -> Bounded(Frames, QueueCap)]
      /\ data \in [Ends -> Bounded(Frames, QueueCap)]
      /\ late \in [Ends -> SUBSET Frames]
    BY DEF IInv, TypeOK, QueueTypes
<1>1. CASE Links
  <2>1. [e \in Ends |-> <<>>] \in [Ends -> Bounded(Frames, WireCap)]
      BY Constants, SMT DEF Bounded
  <2> QED
      BY <1>0, <1>1, <2>1 DEF Links, QueueTypes
<1>2. CASE Rests
    BY <1>0, <1>2 DEF Rests, QueueTypes
<1>3. ASSUME NEW e \in Ends, OpenStream(e)
      PROVE  QueueTypes'
  <2>1. /\ Frame("SYN", nextId[e], 0) \in Frames
        /\ Queues(e, Frame("SYN", nextId[e], 0))
      BY <1>0, <1>3, Sendable, Sending DEF OpenStream
  <2> QED
      BY <1>0, <1>3, <2>1, <1>QueuesTyped DEF OpenStream, QueueTypes
<1>4. ASSUME NEW e \in Ends, NEW s \in Sids, CloseStream(e, s)
      PROVE  QueueTypes'
  <2>1. Frame("FIN", s, 0) \in Frames
      BY Framed
  <2>2. Queues(e, Frame("FIN", s, 0))
      BY <1>0, <1>4, Sending DEF CloseStream
  <2> QED
      BY <1>0, <1>4, <2>1, <2>2, <1>QueuesTyped DEF CloseStream, QueueTypes
<1>5. ASSUME NEW e \in Ends, NEW s \in Sids, Reads(e, s)
      PROVE  QueueTypes'
  <2> DEFINE f == Frame("UPD", s, numRead[e][s] + 1)
  <2>1. numRead[e][s] + 1 \in Nat
      BY SMT DEF IInv, TypeOK, CountTypes, PerStream
  <2>2. f \in Frames
      BY <2>1, Framed
  <2> HIDE DEF f
  <2>3. ctrl' \in [Ends -> Bounded(Frames, QueueCap)]
      BY <1>0, <1>5, <2>2, <1>QueuesTyped DEF Reads, f
  <2>4. late[e] \cup {f} \in SUBSET Frames
      BY <1>0, <2>2
  <2>5. late' \in [Ends -> SUBSET Frames]
      BY <1>0, <1>5, <2>4, PutEnd DEF Reads, f
  <2> QED
      BY <1>0, <1>5, <2>3, <2>5 DEF Reads, QueueTypes
<1>6. ASSUME NEW e \in Ends, NEW f \in late[e], LateUpdate(e, f)
      PROVE  QueueTypes'
  <2>1. f \in Frames /\ late[e] \ {f} \in SUBSET Frames
      BY <1>0
  <2>2. Queues(e, f)
      BY <1>0, <1>6, Sending DEF LateUpdate
  <2>3. late' \in [Ends -> SUBSET Frames]
      BY <1>0, <1>6, <2>1, PutEnd DEF LateUpdate
  <2> QED
      BY <1>0, <1>6, <2>1, <2>2, <2>3, <1>QueuesTyped DEF LateUpdate, QueueTypes
<1>7. ASSUME NEW e \in Ends, NEW s \in Sids, Writes(e, s)
      PROVE  QueueTypes'
  <2> DEFINE f == Frame("PSH", s, written[e][s] + 1)
  <2>1. written[e][s] + 1 \in Nat
      BY SMT DEF IInv, TypeOK, CountTypes, PerStream
  <2>2. f \in Frames
      BY <2>1, Framed
  <2>3. SendData(e, s, f)
      BY <1>7 DEF Writes, WriteUnit
  <2> HIDE DEF f
  <2>4. /\ Len(ctrl[e]) < QueueCap => Append(ctrl[e], f) \in Bounded(Frames, QueueCap)
        /\ Len(data[e]) < QueueCap => Append(data[e], f) \in Bounded(Frames, QueueCap)
      BY <1>0, <2>2, BoundedIs, Constants
  <2>5. /\ ctrl' \in [Ends -> Bounded(Frames, QueueCap)]
        /\ data' \in [Ends -> Bounded(Frames, QueueCap)]
    <3>1. CASE Opener(s) = e
      <4>1. /\ Len(data[e]) < QueueCap /\ UNCHANGED ctrl
            /\ data' = [data EXCEPT ![e] = Append(@, f)]
          BY <2>3, <3>1 DEF SendData, DataQueue
      <4> QED
          BY <1>0, <2>4, <4>1, PutEnd
    <3>2. CASE Opener(s) # e
      <4>1. /\ Len(ctrl[e]) < QueueCap /\ UNCHANGED data
            /\ ctrl' = [ctrl EXCEPT ![e] = Append(@, f)]
          BY <2>3, <3>2 DEF SendData, DataQueue
      <4> QED
          BY <1>0, <2>4, <4>1, PutEnd
    <3> QED
        BY <3>1, <3>2
  <2> QED
      BY <1>0, <1>7, <2>5 DEF Writes, QueueTypes
<1>8. ASSUME NEW e \in Ends, Puts(e)
      PROVE  QueueTypes'
  <2>1. PICK f \in Frames :
          /\ Len(wire[e]) < WireCap /\ wire' = [wire EXCEPT ![e] = Append(@, f)]
          /\ \/ EndWriter(e)
             \/ ctrl[e] # <<>> /\ ctrl' = [ctrl EXCEPT ![e] = Tail(@)] /\ UNCHANGED data
             \/ data[e] # <<>> /\ data' = [data EXCEPT ![e] = Tail(@)] /\ UNCHANGED ctrl
             \/ UNCHANGED <<ctrl, data>>
          /\ UNCHANGED late
      BY <1>8 DEF Puts
  <2>2. /\ Append(wire[e], f) \in Bounded(Frames, WireCap)
        /\ ctrl[e] # <<>> => Tail(ctrl[e]) \in Bounded(Frames, QueueCap)
        /\ data[e] # <<>> => Tail(data[e]) \in Bounded(Frames, QueueCap)
      BY <1>0, <2>1, BoundedIs, Constants
  <2>3. wire' \in [Ends -> Bounded(Frames, WireCap)]
      BY <1>0, <2>1, <2>2, PutEnd
  <2>4. /\ ctrl' \in [Ends -> Bounded(Frames, QueueCap)]
        /\ data' \in [Ends -> Bounded(Frames, QueueCap)]
      BY <1>0, <2>1, <2>2, <1>EndTyped, PutEnd
  <2> QED
      BY <1>0, <2>1, <2>3, <2>4 DEF QueueTypes
<1>9. ASSUME NEW e \in Ends, Stops(e)
      PROVE  QueueTypes'
    BY <1>0, <1>9, <1>EndTyped DEF Stops, QueueTypes
<1>10. ASSUME NEW e \in Ends, Takes(e)
       PROVE  QueueTypes'
  <2>1. Tail(wire[Peer(e)]) \in Bounded(Frames, WireCap) /\ Peer(e) \in Ends
      BY <1>0, <1>10, Ending, BoundedIs, Constants DEF Takes
  <2> QED
      BY <1>0, <1>10, <2>1, PutEnd DEF Takes, QueueTypes
<1>11. ASSUME UNCHANGED <<wire, queues>>
       PROVE  QueueTypes'
    BY <1>0, <1>11 DEF QueueTypes
<1>12. ASSUME NEW e \in Ends, Receives(e)
       PROVE  Takes(e) \/ UNCHANGED <<wire, queues>>
    BY <1>12 DEF Receives, TakesSyn, TakesFin, TakesUnit, TakesRest, Unblocks, Loops
<1>13. ASSUME NEW e \in Ends, NEW s \in Sids,
              Waits(e, s) \/ ReadEof(e, s) \/ DropStream(e, s)
       PROVE  UNCHANGED <<wire, queues>>
    BY <1>13 DEF Waits, ReadEof, DropStream
<1>14. ASSUME NEW e \in Ends, Accept(e)
       PROVE  UNCHANGED <<wire, queues>>
    BY <1>14 DEF Accept
<1> QED
    BY <1>1, <1>2, <1>3, <1>4, <1>5, <1>6, <1>7, <1>8, <1>9, <1>10, <1>11, <1>12, <1>13,
       <1>14 DEF Moves

\* A step keeps the types of the loops.
LEMMA LoopStep ==
  ASSUME IInv, Links \/ Rests \/ \E e \in Ends : Moves(e)
  PROVE  LoopTypes'
<1>0. /\ LoopTypes /\ version \in [Ends -> {1, 2}] /\ link \in {"up", "silent", "broken"}
      /\ closed \in [Ends -> BOOLEAN] /\ writer \in [Ends -> {"running", "ended"}]
      /\ recv \in [Ends -> {"reading", "tokens", "blocked", "ended"}]
      /\ held \in [Ends -> Frames]
      /\ bucket \in [Ends -> Int] /\ tokenNotify \in [Ends -> BOOLEAN]
    BY DEF IInv, TypeOK, LoopTypes
<1>1. CASE Links
  <2>1. link' \in {"up", "silent", "broken"}
      BY <1>1 DEF Links
  <2> QED
      BY <1>0, <1>1, <2>1 DEF Links, LoopTypes
<1>2. CASE Rests
    BY <1>0, <1>2 DEF Rests, LoopTypes
<1>3. ASSUME UNCHANGED <<version, link, loops, tokens>>
      PROVE  LoopTypes'
    BY <1>0, <1>3 DEF LoopTypes
<1>4. ASSUME NEW e \in Ends, OpenStream(e) \/ Accept(e) \/ \E f \in late[e] : LateUpdate(e, f)
      PROVE  LoopTypes'
    BY <1>3, <1>4 DEF OpenStream, Accept, LateUpdate
<1>5. ASSUME NEW e \in Ends, NEW s \in Sids,
             \/ Writes(e, s) \/ Waits(e, s) \/ ReadEof(e, s)
             \/ CloseStream(e, s) \/ DropStream(e, s)
      PROVE  LoopTypes'
    BY <1>3, <1>5 DEF Writes, Waits, ReadEof, CloseStream, DropStream
<1>6. ASSUME NEW e \in Ends, NEW s \in Sids, Reads(e, s)
      PROVE  LoopTypes'
    BY <1>0, <1>6 DEF Reads, LoopTypes
<1>7. ASSUME NEW e \in Ends, Puts(e) \/ Stops(e)
      PROVE  LoopTypes'
  <2>1. writer' \in [Ends -> {"running", "ended"}]
    <3>1. "ended" \in {"running", "ended"}
        OBVIOUS
    <3> QED
        BY <1>0, <1>7, <3>1, PutEnd DEF Puts, Stops, EndWriter
  <2> QED
      BY <1>0, <1>7, <2>1 DEF Puts, Stops, LoopTypes
<1>8. ASSUME NEW e \in Ends, Receives(e)
      PROVE  LoopTypes'
  <2>1. \A x \in {"reading", "tokens", "blocked", "ended"} :
           [recv EXCEPT ![e] = x] \in [Ends -> {"reading", "tokens", "blocked", "ended"}]
      BY <1>0
  <2>2. ASSUME NEW m, Loop(e, m)
        PROVE  /\ closed' \in [Ends -> BOOLEAN]
               /\ recv' \in [Ends -> {"reading", "tokens", "blocked", "ended"}]
      BY <2>1, <2>2 DEF Loop
  <2>3. /\ closed' \in [Ends -> BOOLEAN]
        /\ recv' \in [Ends -> {"reading", "tokens", "blocked", "ended"}]
    <3>1. (\E m : Loop(e, m)) \/ (recv' = [recv EXCEPT ![e] = "blocked"] /\ UNCHANGED closed)
        BY <1>8 DEF Receives, TakesSyn, TakesFin, TakesUnit, TakesRest, Unblocks, Loops
    <3> QED
        BY <1>0, <2>1, <2>2, <3>1
  <2>4. held' \in [Ends -> Frames] /\ bucket' \in [Ends -> Int]
        /\ tokenNotify' \in [Ends -> BOOLEAN] /\ UNCHANGED <<version, link, writer>>
    <3>1. NoFrame \in Frames /\ (wire[Peer(e)] # <<>> => Head(wire[Peer(e)]) \in Frames)
      <4>1. NoFrame \in Frames
          BY Framed, Constants DEF NoFrame
      <4>2. wire[Peer(e)] \in Seq(Frames)
          BY Ending, Channels DEF IInv, TypeOK
      <4> QED
          BY <4>1, <4>2, TailIs
    <3>2. \A f \in Frames : [held EXCEPT ![e] = f] \in [Ends -> Frames]
        BY <1>0, PutEnd
    <3>3. CASE TakesUnit(e)
      <4>1. Takes(e) /\ (held' = held \/ held' = [held EXCEPT ![e] = Head(wire[Peer(e)])])
          BY <3>3 DEF TakesUnit
      <4>2. /\ wire[Peer(e)] # <<>> /\ bucket' \in [Ends -> Int]
            /\ UNCHANGED <<version, link, writer, tokenNotify>>
          BY <4>1 DEF Takes
      <4>3. held' \in [Ends -> Frames]
          BY <1>0, <3>1, <3>2, <4>1, <4>2
      <4> QED
          BY <1>0, <4>2, <4>3
    <3>4. CASE TakesSyn(e) \/ TakesFin(e) \/ TakesRest(e)
        BY <1>0, <3>4 DEF TakesSyn, TakesFin, TakesRest, Takes
    <3>5. CASE Unblocks(e) \/ Loops(e)
        BY <1>0, <3>1, <3>2, <3>5 DEF Unblocks, Loops
    <3> QED
        BY <1>8, <3>3, <3>4, <3>5 DEF Receives
  <2> QED
      BY <1>0, <2>3, <2>4 DEF LoopTypes
<1> QED
    BY <1>1, <1>2, <1>4, <1>5, <1>6, <1>7, <1>8 DEF Moves

\* A step keeps the types of the streams map, the inboxes and the backlog.
LEMMA RegistryStep ==
  ASSUME IInv, Links \/ Rests \/ \E e \in Ends : Moves(e)
  PROVE  RegistryTypes'
<1>0. /\ RegistryTypes /\ entry \in [Ends -> SUBSET Sids]
      /\ inbox \in PerStream(Bounded(Nat, InboxCap))
      /\ backlog \in [Ends -> Bounded(Sids, BacklogCap)]
      /\ nextId \in [Ends -> Nat] /\ opening \in [Ends -> BOOLEAN]
      /\ QueueTypes /\ held \in [Ends -> Frames]
    BY DEF IInv, TypeOK, RegistryTypes, LoopTypes
<1>1. CASE Links \/ Rests
    BY <1>0, <1>1 DEF Links, Rests, RegistryTypes
<1>2. ASSUME NEW e \in Ends, OpenStream(e)
      PROVE  RegistryTypes'
  <2>1. nextId[e] \in Sids
      BY <1>2, Sendable DEF OpenStream
  <2>2. entry[e] \cup {nextId[e]} \in SUBSET Sids /\ nextId[e] + 2 \in Nat /\ FALSE \in BOOLEAN
      BY <1>0, <2>1, SMT
  <2>3. /\ entry' \in [Ends -> SUBSET Sids] /\ nextId' \in [Ends -> Nat]
        /\ opening' \in [Ends -> BOOLEAN]
      BY <1>0, <1>2, <2>2, PutEnd DEF OpenStream
  <2> QED
      BY <1>0, <1>2, <2>3 DEF OpenStream, RegistryTypes
<1>3. ASSUME NEW e \in Ends, Accept(e)
      PROVE  RegistryTypes'
  <2>1. Tail(backlog[e]) \in Bounded(Sids, BacklogCap)
      BY <1>0, <1>3, BoundedIs, Constants DEF Accept
  <2> QED
      BY <1>0, <1>3, <2>1, PutEnd DEF Accept, RegistryTypes
<1>4. ASSUME UNCHANGED registry
      PROVE  RegistryTypes'
    BY <1>0, <1>4 DEF RegistryTypes
<1>5. ASSUME NEW e \in Ends,
             \/ Puts(e) \/ Stops(e) \/ \E f \in late[e] : LateUpdate(e, f)
             \/ \E s \in Sids : Writes(e, s) \/ Waits(e, s) \/ ReadEof(e, s) \/ CloseStream(e, s)
      PROVE  RegistryTypes'
    BY <1>4, <1>5, ZenonT(60)
       DEF Puts, Stops, LateUpdate, Writes, Waits, ReadEof, CloseStream
<1>6. ASSUME NEW e \in Ends, NEW s \in Sids, Reads(e, s) \/ DropStream(e, s)
      PROVE  RegistryTypes'
  <2>1. inbox[e][s] \in Bounded(Nat, InboxCap)
      BY <1>0 DEF PerStream
  <2>2. /\ inbox[e][s] # <<>> => Tail(inbox[e][s]) \in Bounded(Nat, InboxCap)
        /\ <<>> \in Bounded(Nat, InboxCap)
    <3>1. InboxCap \in Nat
        BY Constants
    <3> QED
        BY <2>1, <3>1, BoundedIs
  <2>4. \A q \in Bounded(Nat, InboxCap) :
          [inbox EXCEPT ![e][s] = q] \in PerStream(Bounded(Nat, InboxCap))
      BY <1>0, PutStream
  <2>3. inbox' \in PerStream(Bounded(Nat, InboxCap))
      BY <2>2, <2>4, <1>6 DEF Reads, DropStream
  <2> QED
      BY <1>0, <1>6, <2>3 DEF Reads, DropStream, RegistryTypes
<1>7. ASSUME NEW e \in Ends, Receives(e)
      PROVE  RegistryTypes'
  <2> DEFINE f == Head(wire[Peer(e)])
  <2>1. wire[Peer(e)] # <<>> => f \in Frames /\ f.sid \in Sids /\ f.n \in Nat
      BY <1>0, Ending, Channels, TailIs, FrameIs
  <2>2. held[e].sid \in Sids /\ held[e].n \in Nat
      BY <1>0, FrameIs
  <2>3. ASSUME NEW m \in SUBSET Sids, Loop(e, [entry EXCEPT ![e] = m]) \/ Loop(e, entry)
        PROVE  entry' \in [Ends -> SUBSET Sids]
    <3>1. {} \in SUBSET Sids
        OBVIOUS
    <3>2. \A x \in SUBSET Sids : [entry EXCEPT ![e] = x] \in [Ends -> SUBSET Sids]
        BY <1>0, PutEnd
    <3> QED
        BY <1>0, <2>3, <3>1, <3>2 DEF Loop
  <2>4. entry' \in [Ends -> SUBSET Sids]
    <3>1. entry[e] \in SUBSET Sids
        BY <1>0
    <3>2. CASE TakesSyn(e) \/ TakesFin(e)
      <4>1. entry[e] \cup {f.sid} \in SUBSET Sids /\ entry[e] \ {f.sid} \in SUBSET Sids
          BY <3>1, <3>2, <2>1 DEF TakesSyn, TakesFin, Takes
      <4> QED
          BY <3>2, <4>1, <2>3 DEF TakesSyn, TakesFin
    <3>3. CASE TakesUnit(e) \/ Loops(e)
        BY <1>0, <3>1, <3>3, <2>3 DEF TakesUnit, Loops
    <3>4. CASE TakesRest(e)
      <4>1. PICK D \in SUBSET Sids : Loop(e, [entry EXCEPT ![e] = @ \ D])
          BY <3>4 DEF TakesRest
      <4>2. entry[e] \ D \in SUBSET Sids
          BY <3>1
      <4> QED
          BY <4>1, <4>2, <2>3
    <3>5. CASE Unblocks(e)
      <4>1. entry[e] \ {held[e].sid} \in SUBSET Sids
          BY <3>1
      <4> QED
          BY <3>5, <4>1, <2>3 DEF Unblocks
    <3> QED
        BY <1>7, <3>2, <3>3, <3>4, <3>5 DEF Receives
  <2>5. inbox' \in PerStream(Bounded(Nat, InboxCap))
    <3>1. \A s \in Sids : \A n \in Nat : Len(inbox[e][s]) < InboxCap =>
             [inbox EXCEPT ![e][s] = Append(@, n)] \in PerStream(Bounded(Nat, InboxCap))
      <4> SUFFICES ASSUME NEW s \in Sids, NEW n \in Nat, Len(inbox[e][s]) < InboxCap
                   PROVE  [inbox EXCEPT ![e][s] = Append(@, n)] \in PerStream(Bounded(Nat, InboxCap))
          OBVIOUS
      <4>1. inbox[e][s] \in Bounded(Nat, InboxCap)
          BY <1>0 DEF PerStream
      <4>2. Append(inbox[e][s], n) \in Bounded(Nat, InboxCap)
          BY <4>1, BoundedIs, Constants
      <4> QED
          BY <1>0, <4>2, PutStream
    <3>2. CASE TakesUnit(e)
      <4>1. f.sid \in Sids /\ f.n \in Nat
          BY <2>1, <3>2 DEF TakesUnit, Takes
      <4>2. \/ UNCHANGED inbox
            \/ /\ Len(inbox[e][f.sid]) < InboxCap
               /\ inbox' = [inbox EXCEPT ![e][f.sid] = Append(@, f.n)]
          BY <3>2 DEF TakesUnit
      <4> HIDE DEF f
      <4> QED
          BY <1>0, <3>1, <4>1, <4>2
    <3>3. CASE Unblocks(e)
      <4>1. \/ UNCHANGED inbox
            \/ /\ Len(inbox[e][held[e].sid]) < InboxCap
               /\ inbox' = [inbox EXCEPT ![e][held[e].sid] = Append(@, held[e].n)]
          BY <3>3 DEF Unblocks
      <4> QED
          BY <1>0, <2>2, <3>1, <4>1
    <3>4. CASE ~TakesUnit(e) /\ ~Unblocks(e)
        BY <1>0, <1>7, <3>4 DEF Receives, TakesSyn, TakesFin, TakesRest, Loops
    <3> QED
        BY <3>2, <3>3, <3>4
  <2>6. backlog' \in [Ends -> Bounded(Sids, BacklogCap)]
    <3>1. CASE TakesSyn(e)
      <4>1. f.sid \in Sids /\ Len(backlog[e]) < BacklogCap
          BY <2>1, <3>1 DEF TakesSyn, Takes
      <4>2. Append(backlog[e], f.sid) \in Bounded(Sids, BacklogCap)
          BY <1>0, <4>1, BoundedIs, Constants
      <4> QED
          BY <1>0, <3>1, <4>2, PutEnd DEF TakesSyn
    <3>2. CASE ~TakesSyn(e)
        BY <1>0, <1>7, <3>2
           DEF Receives, TakesUnit, TakesFin, TakesRest, Unblocks, Loops
    <3> QED
        BY <3>1, <3>2
  <2>7. UNCHANGED <<nextId, opening>>
      BY <1>7 DEF Receives, TakesSyn, TakesUnit, TakesFin, TakesRest, Takes, Unblocks,
         Loops
  <2> QED
      BY <1>0, <2>4, <2>5, <2>6, <2>7 DEF RegistryTypes
<1> QED
    BY <1>1, <1>2, <1>3, <1>5, <1>6, <1>7 DEF Moves

\* A step keeps the types of the handles.
LEMMA HandleStep ==
  ASSUME IInv, Links \/ Rests \/ \E e \in Ends : Moves(e)
  PROVE  HandleTypes'
<1> DEFINE Sts == {"none", "queued", "open", "dropped"}
           Modes == {"idle", "writing", "waiting"}
<1>0. /\ st \in PerStream(Sts) /\ mode \in PerStream(Modes) /\ finSent \in PerStream(BOOLEAN)
      /\ eof \in PerStream(BOOLEAN)
    BY DEF IInv, TypeOK, HandleTypes
<1>1. \A e \in Ends, s \in Sids :
        /\ [st EXCEPT ![e][s] = "open"] \in PerStream(Sts)
        /\ [st EXCEPT ![e][s] = "queued"] \in PerStream(Sts)
        /\ [st EXCEPT ![e][s] = "dropped"] \in PerStream(Sts)
        /\ \A x \in Modes : [mode EXCEPT ![e][s] = x] \in PerStream(Modes)
        /\ [mode EXCEPT ![e][s] = "idle"] \in PerStream(Modes)
        /\ [finSent EXCEPT ![e][s] = TRUE] \in PerStream(BOOLEAN)
        /\ [eof EXCEPT ![e][s] = TRUE] \in PerStream(BOOLEAN)
  <2>1. "open" \in Sts /\ "queued" \in Sts /\ "dropped" \in Sts /\ "idle" \in Modes
        /\ TRUE \in BOOLEAN
      OBVIOUS
  <2> HIDE DEF Sts, Modes
  <2>2. ASSUME NEW e \in Ends, NEW s \in Sids
        PROVE  /\ [st EXCEPT ![e][s] = "open"] \in PerStream(Sts)
               /\ [st EXCEPT ![e][s] = "queued"] \in PerStream(Sts)
               /\ [st EXCEPT ![e][s] = "dropped"] \in PerStream(Sts)
      BY <1>0, <2>1, PutStream
  <2>3. ASSUME NEW e \in Ends, NEW s \in Sids
        PROVE  /\ \A x \in Modes : [mode EXCEPT ![e][s] = x] \in PerStream(Modes)
               /\ [mode EXCEPT ![e][s] = "idle"] \in PerStream(Modes)
      BY <1>0, <2>1, PutStream
  <2>4. ASSUME NEW e \in Ends, NEW s \in Sids
        PROVE  /\ [finSent EXCEPT ![e][s] = TRUE] \in PerStream(BOOLEAN)
               /\ [eof EXCEPT ![e][s] = TRUE] \in PerStream(BOOLEAN)
      BY <1>0, <2>1, PutStream
  <2> QED
      BY <2>2, <2>3, <2>4
<1> HIDE DEF Sts, Modes
<1>2. ASSUME st' \in PerStream(Sts), mode' \in PerStream(Modes),
             finSent' \in PerStream(BOOLEAN), eof' \in PerStream(BOOLEAN)
      PROVE  HandleTypes'
    BY <1>2 DEF HandleTypes, Sts, Modes
<1>3. ASSUME UNCHANGED handles
      PROVE  HandleTypes'
    BY <1>0, <1>2, <1>3
<1>4. CASE Links \/ Rests
    BY <1>3, <1>4 DEF Links, Rests
<1>5. ASSUME NEW e \in Ends, OpenStream(e) \/ Accept(e) \/ TakesSyn(e)
      PROVE  HandleTypes'
  <2>1. \E s \in Sids : st' = [st EXCEPT ![e][s] = "open"] \/ st' = [st EXCEPT ![e][s] = "queued"]
    <3>1. CASE OpenStream(e)
        BY <3>1, Sendable DEF OpenStream
    <3>2. CASE Accept(e)
      <4>1. backlog[e] \in Bounded(Sids, BacklogCap)
          BY DEF IInv, TypeOK, RegistryTypes
      <4>2. Head(backlog[e]) \in Sids
          BY <3>2, <4>1, BoundedIs, Constants DEF Accept
      <4> QED
          BY <3>2, <4>2 DEF Accept
    <3>3. CASE TakesSyn(e)
      <4>1. wire[Peer(e)] \in Seq(Frames) /\ wire[Peer(e)] # <<>>
          BY <3>3, Ending, Channels DEF IInv, TypeOK, TakesSyn, Takes
      <4>2. Head(wire[Peer(e)]).sid \in Sids
          BY <4>1, TailIs, FrameIs
      <4> QED
          BY <3>3, <4>2 DEF TakesSyn
    <3> QED
        BY <1>5, <3>1, <3>2, <3>3
  <2>2. UNCHANGED <<mode, finSent, eof>>
      BY <1>5 DEF OpenStream, Accept, TakesSyn, Takes
  <2> QED
      BY <1>0, <1>1, <1>2, <2>1, <2>2
<1>6. ASSUME NEW e \in Ends, NEW s \in Sids, CloseStream(e, s) \/ ReadEof(e, s)
      PROVE  HandleTypes'
    BY <1>0, <1>1, <1>2, <1>6 DEF CloseStream, ReadEof
<1>7. ASSUME NEW e \in Ends, NEW s \in Sids, DropStream(e, s) \/ Waits(e, s)
      PROVE  HandleTypes'
  <2>1. CASE DropStream(e, s)
      BY <1>0, <1>1, <1>2, <2>1 DEF DropStream
  <2>2. CASE Waits(e, s)
    <3>1. PICK x \in Modes : mode' = [mode EXCEPT ![e][s] = x]
        BY <2>2 DEF Waits, Modes
    <3> QED
        BY <1>0, <1>1, <1>2, <2>2, <3>1 DEF Waits
  <2> QED
      BY <1>7, <2>1, <2>2
<1>8. ASSUME NEW e \in Ends, NEW s \in Sids, Writes(e, s) \/ Reads(e, s)
      PROVE  HandleTypes'
    BY <1>0, <1>1, <1>2, <1>8 DEF Reads, Writes, WriteUnit
<1>9. ASSUME NEW e \in Ends,
             \/ Puts(e) \/ Stops(e) \/ \E f \in late[e] : LateUpdate(e, f)
             \/ TakesFin(e) \/ TakesUnit(e) \/ TakesRest(e) \/ Unblocks(e) \/ Loops(e)
      PROVE  HandleTypes'
    BY <1>3, <1>9
       DEF Puts, Stops, LateUpdate, TakesFin, TakesUnit, TakesRest, Takes, Unblocks, Loops
<1> QED
    BY <1>4, <1>5, <1>6, <1>7, <1>8, <1>9 DEF Moves, Receives

\* A step keeps the types of the counters.
LEMMA CountStep ==
  ASSUME IInv, Links \/ Rests \/ \E e \in Ends : Moves(e)
  PROVE  CountTypes'
<1>0. /\ CountTypes /\ written \in PerStream(Nat) /\ numRead \in PerStream(Nat)
      /\ incr \in PerStream(Nat) /\ consumed \in PerStream(Nat)
      /\ window \in PerStream(Nat) /\ windowNotify \in PerStream(BOOLEAN)
      /\ last \in Sids /\ units \in PerStream(Nat) /\ rare \in Nat
      /\ (Rare => rare' \in Nat /\ UNCHANGED <<last, units>>)
    BY SMT DEF IInv, TypeOK, CountTypes, Rare
<1>1. ASSUME UNCHANGED <<counts, shared, last, units>>, rare' \in Nat
      PROVE  CountTypes'
    BY <1>0, <1>1 DEF CountTypes
<1>2. CASE Links \/ Rests
    BY <1>1, <1>2 DEF Links, Rests
<1>3. \A e \in Ends, s \in Sids :
         /\ [written EXCEPT ![e][s] = @ + 1] \in PerStream(Nat)
         /\ [numRead EXCEPT ![e][s] = @ + 1] \in PerStream(Nat)
  <2> TAKE e \in Ends, s \in Sids
  <2>1. written[e][s] + 1 \in Nat /\ numRead[e][s] + 1 \in Nat
      BY <1>0, SMT DEF PerStream
  <2> QED
      BY <1>0, <2>1, PutStream
<1>4. ASSUME NEW e \in Ends, NEW s \in Sids, Writes(e, s) \/ Reads(e, s) \/ Waits(e, s)
      PROVE  CountTypes'
    BY <1>0, <1>3, <1>4 DEF Writes, WriteUnit, Reads, Waits, CountTypes
<1>5. ASSUME NEW e \in Ends, TakesRest(e)
      PROVE  CountTypes'
    BY <1>0, <1>5 DEF TakesRest, Takes, CountTypes
<1>6. ASSUME NEW e \in Ends, OpenStream(e) \/ Accept(e) \/ Puts(e) \/ Stops(e)
      PROVE  CountTypes'
    BY <1>0, <1>1, <1>6 DEF OpenStream, Accept, Puts, Stops
<1>7. ASSUME NEW e \in Ends,
             \/ TakesSyn(e) \/ TakesFin(e) \/ TakesUnit(e) \/ Unblocks(e) \/ Loops(e)
             \/ \E f \in late[e] : LateUpdate(e, f)
      PROVE  CountTypes'
    BY <1>0, <1>1, <1>7
       DEF TakesSyn, TakesFin, TakesUnit, Takes, Unblocks, Loops, LateUpdate
<1>8. ASSUME NEW e \in Ends, NEW s \in Sids,
             CloseStream(e, s) \/ ReadEof(e, s) \/ DropStream(e, s)
      PROVE  CountTypes'
    BY <1>0, <1>1, <1>8 DEF CloseStream, ReadEof, DropStream
<1> QED
    BY <1>2, <1>4, <1>5, <1>6, <1>7, <1>8 DEF Moves, Receives

\* A step keeps every type.
LEMMA TypeStep ==
  ASSUME IInv, Links \/ Rests \/ \E e \in Ends : Moves(e)
  PROVE  TypeOK'
BY QueueStep, LoopStep, RegistryStep, HandleStep, CountStep DEF TypeOK

-----------------------------------------------------------------------------
(* Updates.                                                                *)

\* A step keeps Opened: what moves has been opened.
LEMMA OpenedStep ==
  ASSUME IInv, Links \/ Rests \/ \E e \in Ends : Moves(e)
  PROVE  Opened'
<1> SUFFICES ASSUME NEW d \in Ends, opening'[d]
             PROVE  nextId'[d] <= last'
    BY DEF Opened
<1>1. /\ opening \in [Ends -> BOOLEAN] /\ nextId \in [Ends -> Nat]
      /\ opening[d] => nextId[d] <= last
    BY DEF IInv, TypeOK, RegistryTypes, Opened
<1>2. ASSUME UNCHANGED <<opening, nextId, last>>
      PROVE  nextId'[d] <= last'
    BY <1>1, <1>2
<1>3. CASE Rests
    BY <1>1, <1>3 DEF Rests
<1>4. CASE Links
    BY <1>2, <1>4 DEF Links
<1>5. ASSUME NEW e \in Ends, OpenStream(e)
      PROVE  nextId'[d] <= last'
  <2>1. /\ opening' = [opening EXCEPT ![e] = FALSE] /\ nextId' = [nextId EXCEPT ![e] = @ + 2]
        /\ UNCHANGED last
      BY <1>5 DEF OpenStream
  <2>2. opening[d] /\ nextId'[d] = nextId[d]
      BY <1>1, <2>1
  <2> QED
      BY <1>1, <2>1, <2>2
<1>6. ASSUME NEW e \in Ends,
             \/ Accept(e) \/ Puts(e) \/ Stops(e) \/ \E f \in late[e] : LateUpdate(e, f)
      PROVE  UNCHANGED <<opening, nextId, last>>
    BY <1>6 DEF Accept, Puts, Stops, LateUpdate
<1>7. ASSUME NEW e \in Ends, Receives(e)
      PROVE  UNCHANGED <<opening, nextId, last>>
    BY <1>7 DEF Receives, TakesSyn, TakesFin, TakesUnit, TakesRest, Takes, Unblocks,
       Loops
<1>8. ASSUME NEW e \in Ends, NEW s \in Sids, Writes(e, s) \/ Waits(e, s) \/ Reads(e, s)
      PROVE  UNCHANGED <<opening, nextId, last>>
    BY <1>8 DEF Writes, Waits, Reads
<1>9. ASSUME NEW e \in Ends, NEW s \in Sids,
             ReadEof(e, s) \/ CloseStream(e, s) \/ DropStream(e, s)
      PROVE  UNCHANGED <<opening, nextId, last>>
  <2>1. CASE ReadEof(e, s)
      BY <2>1 DEF ReadEof
  <2>2. CASE CloseStream(e, s)
      BY <2>2 DEF CloseStream
  <2>3. CASE DropStream(e, s)
      BY <2>3 DEF DropStream, Rare
  <2> QED
      BY <1>9, <2>1, <2>2, <2>3
<1> QED
    BY <1>2, <1>3, <1>4, <1>5, <1>6, <1>7, <1>8, <1>9 DEF Moves

\* Reading only goes forward.
LEMMA ReadKept ==
  ASSUME IInv, Links \/ Rests \/ \E e \in Ends : Moves(e), NEW d \in Ends, NEW s \in Sids
  PROVE  numRead[d][s] <= numRead'[d][s]
<1>1. numRead \in PerStream(Nat) /\ numRead[d][s] \in Nat
    BY CountIs DEF IInv, TypeOK, CountTypes
<1>2. ASSUME UNCHANGED numRead
      PROVE  numRead[d][s] <= numRead'[d][s]
    BY <1>1, <1>2, CountIs
<1>3. CASE Links \/ Rests
    BY <1>2, <1>3 DEF Links, Rests
<1>4. ASSUME NEW e \in Ends,
             \/ OpenStream(e) \/ Accept(e) \/ Puts(e) \/ Stops(e)
             \/ \E f \in late[e] : LateUpdate(e, f)
      PROVE  UNCHANGED numRead
    BY <1>4 DEF OpenStream, Accept, Puts, Stops, LateUpdate
<1>5. ASSUME NEW e \in Ends, Receives(e)
      PROVE  UNCHANGED numRead
    BY <1>5 DEF Receives, TakesSyn, TakesFin, TakesUnit, TakesRest, Takes, Unblocks,
       Loops
<1>6. ASSUME NEW e \in Ends, NEW t \in Sids,
             \/ Writes(e, t) \/ Waits(e, t) \/ ReadEof(e, t) \/ CloseStream(e, t)
             \/ DropStream(e, t)
      PROVE  UNCHANGED numRead
    BY <1>6 DEF Writes, Waits, ReadEof, CloseStream, DropStream
<1>7. ASSUME NEW e \in Ends, NEW t \in Sids, Reads(e, t)
      PROVE  numRead[d][s] <= numRead'[d][s]
  <2>1. numRead' = [numRead EXCEPT ![e][t] = @ + 1]
      BY <1>7 DEF Reads
  <2> QED
      BY <1>1, <2>1, ReadAt
<1> QED
    BY <1>2, <1>3, <1>4, <1>5, <1>6, <1>7 DEF Moves

\* A step adds to what is in flight only frames that tell no more than was read.
LEMMA Traffic ==
  ASSUME IInv, Links \/ Rests \/ \E e \in Ends : Moves(e), NEW d \in Ends,
         NEW g \in InFlight(d)'
  PROVE  g \in InFlight(d) \/ (g \in Frames /\ Told(d, g)')
<1>QueuesIn. ASSUME QueueTypes, NEW e \in Ends, NEW f \in Frames, Queues(e, f),
                    NEW h \in Range(ctrl'[d])
             PROVE  h \in Range(ctrl[d]) \/ (d = e /\ h = f)
  <2> USE <1>QueuesIn
  <2>1. ctrl'[d] = ctrl[d] \/ (d = e /\ ctrl'[d] = Append(ctrl[d], f))
      BY DEF QueueTypes, Queues
  <2>2. ctrl[d] \in Seq(Frames)
      BY Channels
  <2> QED
      BY <2>1, <2>2, RangeAppend
<1>EndIn. ASSUME QueueTypes, NEW e \in Ends, EndWriter(e)
          PROVE  /\ \A h \in Range(ctrl'[d]) : h \in Range(ctrl[d])
                 /\ \A h \in Range(data'[d]) : h \in Range(data[d])
  <2> USE <1>EndIn
  <2>1. /\ ctrl'[d] = ctrl[d] \/ ctrl'[d] = <<>>
        /\ data'[d] = data[d] \/ data'[d] = <<>>
      BY DEF QueueTypes, EndWriter
  <2> QED
      BY <2>1, RangeEmpty
<1>AtEnd. ASSUME NEW S, NEW h \in [Ends -> S], NEW e \in Ends, NEW x
          PROVE  [h EXCEPT ![e] = x][d] = h[d] \/ (d = e /\ [h EXCEPT ![e] = x][d] = x)
  OBVIOUS
<1>0. /\ QueueTypes /\ LoopTypes /\ wire \in [Ends -> Bounded(Frames, WireCap)]
      /\ data \in [Ends -> Bounded(Frames, QueueCap)] /\ late \in [Ends -> SUBSET Frames]
    BY DEF IInv, TypeOK, QueueTypes
<1>1. g \in Range(wire'[d]) \/ g \in Range(ctrl'[d]) \/ g \in Range(data'[d]) \/ g \in late'[d]
    BY DEF InFlight
<1>2. wire[d] \in Seq(Frames) /\ ctrl[d] \in Seq(Frames) /\ data[d] \in Seq(Frames)
    BY <1>0, Channels
<1>3. ASSUME UNCHANGED <<wire, queues>>
      PROVE  g \in InFlight(d)
    BY <1>3 DEF InFlight
<1>4. CASE Links
  <2>1. g \in Range(wire'[d]) => g \in Range(wire[d])
    <3>1. wire'[d] = wire[d] \/ wire'[d] = <<>>
        BY <1>4 DEF Links
    <3> QED
        BY <3>1, RangeEmpty
  <2> QED
      BY <1>1, <1>4, <2>1 DEF Links, InFlight
<1>5. CASE Rests
    BY <1>3, <1>5 DEF Rests
<1>6. ASSUME NEW e \in Ends, NEW f \in Frames, Queues(e, f), f \in late[e] \/ Told(e, f)',
             UNCHANGED <<wire, data>>, g \in late'[d] => g \in late[d] \/ (d = e /\ g = f)
      PROVE  g \in InFlight(d) \/ (g \in Frames /\ Told(d, g)')
  <2>1. g \in InFlight(d) \/ (d = e /\ g = f)
      BY <1>0, <1>1, <1>6, <1>QueuesIn DEF InFlight
  <2> QED
      BY <1>6, <2>1 DEF InFlight
<1>7. ASSUME NEW e \in Ends, OpenStream(e)
      PROVE  g \in InFlight(d) \/ (g \in Frames /\ Told(d, g)')
  <2>0. PICK f : f = Frame("SYN", nextId[e], 0)
      OBVIOUS
  <2>1. f \in Frames /\ Queues(e, f) /\ UNCHANGED <<wire, data, late>>
      BY <1>0, <1>7, <2>0, Sendable, Sending DEF OpenStream
  <2>2. Told(e, f)'
      BY <2>0 DEF Told, Frame
  <2> QED
      BY <1>6, <2>1, <2>2
<1>8. ASSUME NEW e \in Ends, NEW s \in Sids, CloseStream(e, s)
      PROVE  g \in InFlight(d) \/ (g \in Frames /\ Told(d, g)')
  <2>0. PICK f : f = Frame("FIN", s, 0)
      OBVIOUS
  <2>1. f \in Frames /\ Told(e, f)'
      BY <2>0, Framed DEF Told, Frame
  <2>2. Queues(e, f) /\ UNCHANGED <<wire, data, late>>
      BY <1>0, <1>8, <2>0, Sending DEF CloseStream
  <2> QED
      BY <1>6, <2>1, <2>2
<1>9. ASSUME NEW e \in Ends, NEW s \in Sids, Reads(e, s)
      PROVE  g \in InFlight(d) \/ (g \in Frames /\ Told(d, g)')
  <2>10. PICK n : n = numRead[e][s] + 1
      OBVIOUS
  <2>0. PICK f : f = Frame("UPD", s, n)
      OBVIOUS
  <2>1. numRead \in PerStream(Nat) /\ n \in Nat
      BY <2>10, CountIs DEF IInv, TypeOK, CountTypes
  <2>2. f \in Frames
      BY <2>0, <2>1, Framed
  <2>3. n <= numRead'[e][s]
      BY <1>9, <2>10, <2>1, ReadAt DEF Reads
  <2>4. Told(e, f)'
    <3>1. f.sid = s /\ f.n = n
        BY <2>0 DEF Frame
    <3> QED
        BY <2>3, <3>1 DEF Told
  <2>5. \/ Queues(e, f) /\ UNCHANGED <<wire, data, late>>
        \/ late' = [late EXCEPT ![e] = @ \cup {f}] /\ UNCHANGED <<wire, ctrl, data>>
        \/ UNCHANGED <<wire, queues>>
      BY <1>9, <2>10, <2>0 DEF Reads
  <2>6. CASE late' = [late EXCEPT ![e] = @ \cup {f}] /\ UNCHANGED <<wire, ctrl, data>>
    <3>1. g \in late'[d] => g \in late[d] \/ (d = e /\ g = f)
        BY <1>0, <2>6, <1>AtEnd
    <3> QED
        BY <1>1, <2>2, <2>4, <2>6, <3>1 DEF InFlight
  <2> QED
      BY <1>3, <1>6, <2>2, <2>4, <2>5, <2>6
<1>10. ASSUME NEW e \in Ends, NEW f \in late[e], LateUpdate(e, f)
       PROVE  g \in InFlight(d) \/ (g \in Frames /\ Told(d, g)')
  <2>1. /\ Queues(e, f) /\ UNCHANGED <<wire, data>> /\ late' = [late EXCEPT ![e] = @ \ {f}]
      BY <1>0, <1>10, Sending DEF LateUpdate
  <2>2. f \in Frames /\ (g \in late'[d] => g \in late[d])
      BY <1>0, <1>10, <2>1, <1>AtEnd
  <2> QED
      BY <1>6, <2>1, <2>2
<1>11. ASSUME NEW e \in Ends, NEW s \in Sids, Writes(e, s)
       PROVE  g \in InFlight(d) \/ (g \in Frames /\ Told(d, g)')
  <2>10. PICK n : n = written[e][s] + 1
      OBVIOUS
  <2>0. PICK f : f = Frame("PSH", s, n)
      OBVIOUS
  <2>1. n \in Nat
      BY <2>10, CountIs DEF IInv, TypeOK, CountTypes
  <2>2. f \in Frames /\ Told(e, f)'
      BY <2>0, <2>1, Framed DEF Told, Frame
  <2>3. SendData(e, s, f) /\ UNCHANGED <<wire, late>> /\ writer[e] = "running"
      BY <1>11, <2>10, <2>0 DEF Writes, WriteUnit
  <2>4. CASE Opener(s) = e
    <3>1. data' = [data EXCEPT ![e] = Append(@, f)] /\ UNCHANGED ctrl
        BY <2>3, <2>4 DEF SendData
    <3>2. data'[d] = data[d] \/ (d = e /\ data'[d] = Append(data[d], f))
        BY <1>0, <3>1, <1>AtEnd
    <3>3. g \in Range(data'[d]) => g \in Range(data[d]) \/ (d = e /\ g = f)
        BY <1>2, <2>2, <3>2, RangeAppend
    <3> QED
        BY <1>1, <2>2, <2>3, <3>1, <3>3 DEF InFlight
  <2>5. CASE Opener(s) # e
    <3>1. Queues(e, f) /\ UNCHANGED data
        BY <2>3, <2>5 DEF SendData, DataQueue, Queues
    <3> QED
        BY <1>6, <2>2, <2>3, <3>1
  <2> QED
      BY <2>4, <2>5
<1>12. ASSUME NEW e \in Ends, Puts(e)
       PROVE  g \in InFlight(d) \/ (g \in Frames /\ Told(d, g)')
  <2>1. PICK f \in Frames :
          /\ wire' = [wire EXCEPT ![e] = Append(@, f)]
          /\ \/ ctrl[e] # <<>> /\ f = Head(ctrl[e])
             \/ data[e] # <<>> /\ f = Head(data[e])
             \/ f = NoFrame
          /\ \/ EndWriter(e)
             \/ ctrl[e] # <<>> /\ ctrl' = [ctrl EXCEPT ![e] = Tail(@)] /\ UNCHANGED data
             \/ data[e] # <<>> /\ data' = [data EXCEPT ![e] = Tail(@)] /\ UNCHANGED ctrl
             \/ UNCHANGED <<ctrl, data>>
          /\ UNCHANGED late
      BY <1>12 DEF Puts
  <2>2. ctrl[e] \in Seq(Frames) /\ data[e] \in Seq(Frames)
      BY <1>0, Channels
  <2>3. f \in Range(ctrl[e]) \/ f \in Range(data[e]) \/ Told(d, f)'
    <3>1. Told(d, NoFrame)'
        BY DEF Told, NoFrame, Frame
    <3> QED
        BY <2>1, <2>2, <3>1, RangeTail, ZenonT(60)
  <2>4. g \in Range(wire'[d]) => g \in Range(wire[d]) \/ (d = e /\ g = f)
    <3>1. wire'[d] = wire[d] \/ (d = e /\ wire'[d] = Append(wire[d], f))
        BY <1>0, <2>1, <1>AtEnd
    <3> QED
        BY <1>2, <3>1, RangeAppend
  <2>5. g \in Range(ctrl'[d]) => g \in Range(ctrl[d])
    <3>1. ASSUME ctrl[e] # <<>>, ctrl' = [ctrl EXCEPT ![e] = Tail(@)]
          PROVE  ctrl'[d] = ctrl[d] \/ (ctrl[d] # <<>> /\ ctrl'[d] = Tail(ctrl[d]))
        BY <1>0, <3>1, <1>AtEnd DEF QueueTypes
    <3> QED
        BY <1>0, <1>2, <2>1, <3>1, <1>EndIn, RangeTail
  <2>6. g \in Range(data'[d]) => g \in Range(data[d])
    <3>1. ASSUME data[e] # <<>>, data' = [data EXCEPT ![e] = Tail(@)]
          PROVE  data'[d] = data[d] \/ (data[d] # <<>> /\ data'[d] = Tail(data[d]))
        BY <1>0, <3>1, <1>AtEnd DEF QueueTypes
    <3> QED
        BY <1>0, <1>2, <2>1, <3>1, <1>EndIn, RangeTail
  <2> QED
      BY <1>1, <2>1, <2>3, <2>4, <2>5, <2>6 DEF InFlight
<1>13. ASSUME NEW e \in Ends, Stops(e)
       PROVE  g \in InFlight(d)
    BY <1>0, <1>1, <1>13, <1>EndIn DEF Stops, InFlight
<1>14. ASSUME NEW e \in Ends, Takes(e)
       PROVE  g \in InFlight(d)
  <2>1. /\ wire[Peer(e)] # <<>> /\ wire' = [wire EXCEPT ![Peer(e)] = Tail(@)]
        /\ UNCHANGED queues
      BY <1>14 DEF Takes
  <2>2. wire'[d] = wire[d] \/ (wire[d] # <<>> /\ wire'[d] = Tail(wire[d]))
      BY <1>0, <2>1, Ending, <1>AtEnd
  <2>3. g \in Range(wire'[d]) => g \in Range(wire[d])
      BY <1>2, <2>2, RangeTail
  <2> QED
      BY <1>1, <2>1, <2>3 DEF InFlight
<1>15. ASSUME NEW e \in Ends, Receives(e)
       PROVE  Takes(e) \/ UNCHANGED <<wire, queues>>
    BY <1>15 DEF Receives, TakesSyn, TakesFin, TakesUnit, TakesRest, Unblocks, Loops
<1>16. ASSUME NEW e \in Ends,
              \/ Accept(e)
              \/ \E s \in Sids : Waits(e, s) \/ ReadEof(e, s) \/ DropStream(e, s)
       PROVE  UNCHANGED <<wire, queues>>
    BY <1>16 DEF Accept, Waits, ReadEof, DropStream
<1> QED
    BY <1>3, <1>4, <1>5, <1>7, <1>8, <1>9, <1>10, <1>11, <1>12, <1>13, <1>14, <1>15, <1>16 DEF Moves

\* A step keeps Updates: no window update tells more than was read.
LEMMA UpdatesStep ==
  ASSUME IInv, Links \/ Rests \/ \E e \in Ends : Moves(e)
  PROVE  Updates'
<1>FrameRange. \A q \in Seq(Frames) : Range(q) \subseteq Frames
  BY SMT DEF Range
<1> SUFFICES ASSUME NEW d \in Ends, NEW g \in InFlight(d)'
             PROVE  Told(d, g)'
    BY DEF Updates
<1>1. CASE g \in InFlight(d)
  <2>1. Told(d, g)
      BY <1>1 DEF IInv, Updates
  <2>2. g \in Frames
    <3>1. wire[d] \in Seq(Frames) /\ ctrl[d] \in Seq(Frames) /\ data[d] \in Seq(Frames)
        BY Channels DEF IInv, TypeOK
    <3>2. late[d] \subseteq Frames
        BY DEF IInv, TypeOK, QueueTypes
    <3> QED
        BY <1>1, <3>1, <3>2, <1>FrameRange DEF InFlight
  <2>3. g.sid \in Sids /\ g.n \in Nat
      BY <2>2, FrameIs
  <2>4. numRead[d][g.sid] \in Nat /\ numRead'[d][g.sid] \in Nat
    <3>1. CountTypes /\ CountTypes'
        BY CountStep DEF IInv, TypeOK
    <3> QED
        BY <2>3, <3>1, CountIs DEF CountTypes
  <2>5. numRead[d][g.sid] <= numRead'[d][g.sid]
      BY <2>3, ReadKept
  <2> QED
      BY <2>1, <2>3, <2>4, <2>5, AtMost DEF Told
<1> QED
    BY <1>1, Traffic

-----------------------------------------------------------------------------
(* Windows.                                                                *)

\* Only write() adds to what is written, and only an update moves the window.
LEMMA Credits ==
  ASSUME IInv, Links \/ Rests \/ \E e \in Ends : Moves(e)
  PROVE  /\ UNCHANGED version
         /\ UNCHANGED written \/ \E e \in Ends, s \in Sids : Writes(e, s)
         /\ UNCHANGED <<consumed, window>> \/ \E e \in Ends : TakesRest(e)
<1>1. CASE Links \/ Rests
    BY <1>1 DEF Links, Rests
<1>2. ASSUME NEW e \in Ends, NEW s \in Sids,
             \/ Waits(e, s) \/ Reads(e, s) \/ ReadEof(e, s) \/ CloseStream(e, s)
             \/ DropStream(e, s)
      PROVE  UNCHANGED <<version, written, consumed, window>>
    BY <1>2 DEF Waits, Reads, ReadEof, CloseStream, DropStream
<1>3. ASSUME NEW e \in Ends, NEW s \in Sids, Writes(e, s)
      PROVE  UNCHANGED <<version, consumed, window>>
    BY <1>3 DEF Writes
<1>4. ASSUME NEW e \in Ends, TakesRest(e)
      PROVE  UNCHANGED <<version, written>>
    BY <1>4 DEF TakesRest, Takes
<1>5. ASSUME NEW e \in Ends,
             \/ OpenStream(e) \/ Accept(e) \/ Puts(e) \/ Stops(e)
             \/ \E f \in late[e] : LateUpdate(e, f)
      PROVE  UNCHANGED <<version, written, consumed, window>>
    BY <1>5 DEF OpenStream, Accept, Puts, Stops, LateUpdate
<1>6. ASSUME NEW e \in Ends,
             TakesSyn(e) \/ TakesFin(e) \/ TakesUnit(e) \/ Unblocks(e) \/ Loops(e)
      PROVE  UNCHANGED <<version, written, consumed, window>>
    BY <1>6 DEF TakesSyn, TakesFin, TakesUnit, Takes, Unblocks, Loops
<1> QED
    BY <1>1, <1>2, <1>3, <1>4, <1>5, <1>6 DEF Moves, Receives

\* The window is tested before a unit is sent, and before write() waits with it.
LEMMA Tested ==
  ASSUME IInv, Links \/ Rests \/ \E e \in Ends : Moves(e), NEW e \in Ends, NEW s \in Sids
  PROVE  /\ \/ written'[e][s] = written[e][s]
            \/ /\ written'[e][s] = written[e][s] + 1
               /\ mode[e][s] = "writing" \/ MaySend(e, s)
         /\ mode'[e][s] = "writing" =>
              written'[e][s] = written[e][s] /\ (mode[e][s] = "writing" \/ MaySend(e, s))
<1> DEFINE P == /\ \/ written'[e][s] = written[e][s]
                   \/ /\ written'[e][s] = written[e][s] + 1
                      /\ mode[e][s] = "writing" \/ MaySend(e, s)
                /\ mode'[e][s] = "writing" =>
                     /\ written'[e][s] = written[e][s]
                     /\ mode[e][s] = "writing" \/ MaySend(e, s)
<1>0. /\ written \in PerStream(Nat) /\ mode \in PerStream({"idle", "writing", "waiting"})
    BY DEF IInv, TypeOK, CountTypes, HandleTypes
<1>1. CASE UNCHANGED <<written, mode>>
    BY <1>1
<1>2. ASSUME NEW d \in Ends, NEW t \in Sids, Writes(d, t)
      PROVE  P
  <2>1. /\ written' = [written EXCEPT ![d][t] = @ + 1]
        /\ mode' = [mode EXCEPT ![d][t] = "idle"]
        /\ mode[d][t] = "writing" \/ MaySend(d, t)
      BY <1>2 DEF Writes, WriteUnit
  <2>2. CASE e = d /\ s = t
    <3>1. written'[e][s] = written[e][s] + 1 /\ mode'[e][s] = "idle"
        BY <1>0, <2>1, <2>2 DEF PerStream
    <3> QED
        BY <2>1, <2>2, <3>1
  <2>3. CASE ~(e = d /\ s = t)
    <3>1. written'[e][s] = written[e][s] /\ mode'[e][s] = mode[e][s]
        BY <1>0, <2>1, <2>3 DEF PerStream
    <3> QED
        BY <3>1
  <2> QED
      BY <2>2, <2>3
<1>3. ASSUME NEW d \in Ends, NEW t \in Sids, Waits(d, t) \/ DropStream(d, t)
      PROVE  P
  <2>1. PICK x \in {"idle", "writing", "waiting"} :
           (x = "writing" => MaySend(d, t)) /\ mode' = [mode EXCEPT ![d][t] = x]
      BY <1>3 DEF Waits, DropStream
  <2>2. UNCHANGED written
      BY <1>3 DEF Waits, DropStream
  <2>3. mode'[e][s] = IF e = d /\ s = t THEN x ELSE mode[e][s]
      BY <1>0, <2>1 DEF PerStream
  <2> QED
      BY <2>1, <2>2, <2>3
<1>4. ASSUME NEW d \in Ends, NEW t \in Sids,
             Reads(d, t) \/ ReadEof(d, t) \/ CloseStream(d, t)
      PROVE  UNCHANGED <<written, mode>>
    BY <1>4 DEF Reads, ReadEof, CloseStream
<1>5. CASE Links \/ Rests
    BY <1>5 DEF Links, Rests
<1>6. ASSUME NEW d \in Ends,
             \/ OpenStream(d) \/ Accept(d) \/ Puts(d) \/ Stops(d)
             \/ \E f \in late[d] : LateUpdate(d, f)
      PROVE  UNCHANGED <<written, mode>>
    BY <1>6 DEF OpenStream, Accept, Puts, Stops, LateUpdate
<1>7. ASSUME NEW d \in Ends,
             \/ TakesSyn(d) \/ TakesFin(d) \/ TakesUnit(d) \/ TakesRest(d) \/ Unblocks(d)
             \/ Loops(d)
      PROVE  UNCHANGED <<written, mode>>
    BY <1>7 DEF TakesSyn, TakesFin, TakesUnit, TakesRest, Takes, Unblocks, Loops
<1> QED
    BY <1>1, <1>2, <1>3, <1>4, <1>5, <1>6, <1>7 DEF Moves, Receives

\* A step keeps the windows, and with them WindowRespected.
LEMMA WindowStep ==
  ASSUME IInv, Links \/ Rests \/ \E e \in Ends : Moves(e)
  PROVE  Windows' /\ Checked' /\ WindowRespected'
<1> SUFFICES ASSUME NEW e \in Ends, NEW s \in Sids
             PROVE  /\ consumed'[e][s] <= numRead'[Peer(e)][s]
                    /\ window'[e][s] \in {InitialWindow, StreamBuffer}
                    /\ version'[e] = 2 /\ mode'[e][s] = "writing"
                           /\ written'[e][s] - numRead'[Peer(e)][s] >= InitialWindow
                         => written'[e][s] - numRead'[Peer(e)][s] < StreamBuffer
                    /\ version'[e] = 2 /\ written'[e][s] - numRead'[Peer(e)][s] > InitialWindow
                         => written'[e][s] - numRead'[Peer(e)][s] <= StreamBuffer
    BY DEF Windows, Checked, WindowRespected
<1>0. Peer(e) \in Ends
    BY Ending
<1>1. /\ consumed[e][s] \in Nat /\ numRead[Peer(e)][s] \in Nat /\ written[e][s] \in Nat
    BY <1>0, CountIs DEF IInv, TypeOK, CountTypes
<1>2. /\ consumed'[e][s] \in Nat /\ numRead'[Peer(e)][s] \in Nat
    BY <1>0, CountStep, CountIs DEF CountTypes
<1>3. /\ consumed[e][s] <= numRead[Peer(e)][s] /\ window[e][s] \in {InitialWindow, StreamBuffer}
      /\ version[e] = 2 /\ written[e][s] - numRead[Peer(e)][s] > InitialWindow
            => written[e][s] - numRead[Peer(e)][s] <= StreamBuffer
    BY DEF IInv, Windows, WindowRespected
<1>4. numRead[Peer(e)][s] <= numRead'[Peer(e)][s]
    BY <1>0, ReadKept
<1>5. /\ \/ consumed'[e][s] = consumed[e][s] \/ consumed'[e][s] <= numRead[Peer(e)][s]
      /\ window'[e][s] \in {window[e][s], StreamBuffer}
  <2>1. CASE UNCHANGED <<consumed, window>>
      BY <2>1
  <2>2. ASSUME NEW d \in Ends, TakesRest(d)
        PROVE  /\ \/ consumed'[e][s] = consumed[e][s] \/ consumed'[e][s] <= numRead[Peer(e)][s]
               /\ window'[e][s] \in {window[e][s], StreamBuffer}
    <3>1. /\ \/ consumed'[e][s] = consumed[e][s]
             \/ /\ e = d /\ Head(wire[Peer(d)]).cmd = "UPD" /\ Head(wire[Peer(d)]).sid = s
                /\ consumed'[e][s] = Head(wire[Peer(d)]).n
          /\ window'[e][s] \in {window[e][s], StreamBuffer}
        BY <2>2 DEF TakesRest
    <3>2. wire[Peer(d)] # <<>> /\ Peer(d) \in Ends /\ wire[Peer(d)] \in Seq(Frames)
        BY <2>2, Ending, Channels DEF TakesRest, Takes, IInv, TypeOK
    <3>3. Told(Peer(d), Head(wire[Peer(d)]))
        BY <3>2, RangeTail DEF IInv, Updates, InFlight
    <3>4. Head(wire[Peer(d)]).cmd = "UPD" =>
            Head(wire[Peer(d)]).n <= numRead[Peer(d)][Head(wire[Peer(d)]).sid]
        BY <3>3 DEF Told
    <3> QED
        BY <3>1, <3>4
  <2> QED
      BY <2>1, <2>2, Credits
<1>6. version'[e] = version[e]
    BY Credits
<1>7. consumed'[e][s] <= numRead'[Peer(e)][s] /\ window'[e][s] \in {InitialWindow, StreamBuffer}
    BY <1>1, <1>2, <1>3, <1>4, <1>5, AtMost
<1>8. version[e] = 2 /\ (mode[e][s] = "writing" \/ MaySend(e, s))
        /\ written[e][s] - numRead[Peer(e)][s] >= InitialWindow
        => written[e][s] - numRead[Peer(e)][s] < StreamBuffer
  <2>1. CASE mode[e][s] = "writing"
      BY <2>1 DEF IInv, Checked
  <2>2. MaySend(e, s) /\ version[e] = 2 => window[e][s] - (written[e][s] - consumed[e][s]) > 0
      BY SMT DEF MaySend, Win
  <2> QED
      BY <1>1, <1>3, <2>1, <2>2, InWindow
<1>9. version[e] = 2 /\ mode'[e][s] = "writing"
        /\ written'[e][s] - numRead'[Peer(e)][s] >= InitialWindow
        => written'[e][s] - numRead'[Peer(e)][s] < StreamBuffer
    BY <1>1, <1>2, <1>4, <1>8, Tested, MoreRoom
<1>10. ASSUME version[e] = 2
       PROVE  written'[e][s] - numRead'[Peer(e)][s] > InitialWindow
                => written'[e][s] - numRead'[Peer(e)][s] <= StreamBuffer
  <2>1. \/ written'[e][s] = written[e][s]
        \/ /\ written'[e][s] = written[e][s] + 1
           /\ written[e][s] - numRead[Peer(e)][s] >= InitialWindow
                => written[e][s] - numRead[Peer(e)][s] < StreamBuffer
      BY <1>8, <1>10, Tested
  <2>2. written[e][s] - numRead[Peer(e)][s] > InitialWindow
          => written[e][s] - numRead[Peer(e)][s] <= StreamBuffer
      BY <1>3, <1>10
  <2> QED
      BY <1>1, <1>2, <1>4, <2>1, <2>2, Constants, SMT
<1> QED
    BY <1>6, <1>7, <1>9, <1>10

-----------------------------------------------------------------------------
(* The inductive invariant.                                                *)

\* Every step keeps the inductive invariant.
LEMMA Inductive ==
  ASSUME IInv, [Next]_vars
  PROVE  IInv'
<1>1. Links \/ Rests \/ \E e \in Ends : Moves(e)
    BY Steps
<1> QED
    BY <1>1, TypeStep, OpenedStep, UpdatesStep, WindowStep DEF IInv

\* The inductive invariant of two sessions over one transport: updates in flight and
\* the windows of the writers only tell what the readers have read.
THEOREM Invariance == Spec => []IInv
<1>1. Init => IInv
    BY InitIInv
<1>2. IInv /\ [Next]_vars => IInv'
    BY Inductive
<1> QED
    BY <1>1, <1>2, PTL DEF Spec

\* Every variable of the two sessions keeps its type, and no channel of a session
\* exceeds its capacity, whatever the capacities are.
THEOREM TypeCorrect == Spec => []TypeOK
<1>1. IInv => TypeOK
    BY DEF IInv
<1> QED
    BY <1>1, Invariance, PTL

\* In version 2 no writer runs ahead of its reader by more than the window.
THEOREM WindowKept == Spec => []WindowRespected
<1>1. IInv => WindowRespected
    BY DEF IInv
<1> QED
    BY <1>1, Invariance, PTL

-----------------------------------------------------------------------------
(* The streams of a session.                                               *)

\* A handle stays open, and its FIN unsent, for as long as a call of write() waits.
LEMMA MayWrite ==
  ASSUME OrderInv, NEW e \in Ends, NEW s \in Sids, Writable(e, s)
  PROVE  st[e][s] = "open" /\ ~finSent[e][s]
BY DEF OrderInv, Handles, HandleOf, Writable

\* A queue holds its head, and what its tail holds.
LEMMA RangeTailed ==
  ASSUME NEW q \in Seq(Frames), q # <<>>
  PROVE  Head(q) \in Range(q) /\ Range(q) = Range(Tail(q)) \cup {Head(q)}
<1>1. \A i \in 1..Len(q) : i = 1 \/ (i - 1 \in 1..(Len(q) - 1) /\ i = (i - 1) + 1)
    BY TailIs, SMT
<1>2. \A i \in DOMAIN Tail(q) : i + 1 \in DOMAIN q /\ Tail(q)[i] = q[i + 1]
    BY TailIs, SMT
<1>3. \A i \in DOMAIN q : i = 1 \/ \E j \in DOMAIN Tail(q) : Tail(q)[j] = q[i]
  <2> SUFFICES ASSUME NEW i \in DOMAIN q, i # 1
               PROVE  \E j \in DOMAIN Tail(q) : Tail(q)[j] = q[i]
      OBVIOUS
  <2>1. i - 1 \in DOMAIN Tail(q) /\ Tail(q)[i - 1] = q[i]
      BY <1>1, TailIs
  <2> QED
      BY <2>1
<1>4. 1 \in DOMAIN q /\ Head(q) = q[1]
    BY TailIs, SMT
<1>5. \A x : x \in Range(q) <=> x \in Range(Tail(q)) \cup {Head(q)}
    BY <1>2, <1>3, <1>4, SMT DEF Range
<1> QED
    BY <1>4, <1>5 DEF Range

\* What comes next on the wire is a frame its sender made.
LEMMA HeadOf ==
  ASSUME IInv, OrderInv, NEW e \in Ends, wire[Peer(e)] # <<>>
  PROVE  /\ Head(wire[Peer(e)]) \in Frames /\ wire[Peer(e)] \in Seq(Frames)
         /\ Head(wire[Peer(e)]).sid \in Sids /\ Head(wire[Peer(e)]).n \in Nat
         /\ Made(Peer(e), Head(wire[Peer(e)]))
         /\ Has(wire[Peer(e)], Head(wire[Peer(e)]).cmd, Head(wire[Peer(e)]).sid)
<1>1. Peer(e) \in Ends /\ wire[Peer(e)] \in Seq(Frames)
    BY Ending, Channels DEF IInv, TypeOK
<1>2. Head(wire[Peer(e)]) \in Frames /\ Head(wire[Peer(e)]) \in Range(wire[Peer(e)])
    BY <1>1, TailIs, RangeTailed
<1>3. Made(Peer(e), Head(wire[Peer(e)]))
    BY <1>1, <1>2 DEF OrderInv, Sources
<1> QED
    BY <1>1, <1>2, <1>3, FrameIs DEF Has

\* SYN comes once, for a stream of the peer.
LEMMA SynNew ==
  ASSUME IInv, OrderInv, NEW e \in Ends, wire[Peer(e)] # <<>>, Head(wire[Peer(e)]).cmd = "SYN"
  PROVE  /\ Opener(Head(wire[Peer(e)]).sid) = Peer(e)
         /\ st[e][Head(wire[Peer(e)]).sid] = "none"
         /\ st[Peer(e)][Head(wire[Peer(e)]).sid] # "none"
<1> DEFINE s == Head(wire[Peer(e)]).sid
<1>1. Opener(s) = Peer(e) /\ st[Peer(e)][s] # "none"
    BY HeadOf DEF Made
<1>2. s \in Sids /\ Has(wire[Peer(e)], "SYN", s) /\ Peer(Peer(e)) = e
    BY HeadOf, Ending
<1>3. st[e][s] # "none" => ~Has(wire[Peer(e)], "SYN", s)
    BY <1>1, <1>2 DEF OrderInv, SynFirst, SynOrder
<1> QED
    BY <1>1, <1>2, <1>3

\* The states of handles after a step.
Handled(e, s, x) ==
    \A d \in Ends, t \in Sids : st'[d][t] = IF d = e /\ t = s THEN x ELSE st[d][t]

\* What a step writes in st, at every stream.
LEMMA Handling ==
  ASSUME IInv, OrderInv, NEW e \in Ends, NEW s \in Sids, NEW x, st' = [st EXCEPT ![e][s] = x]
  PROVE  Handled(e, s, x)
<1>1. st \in PerStream({"none", "queued", "open", "dropped"})
    BY DEF IInv, TypeOK, HandleTypes
<1> QED
    BY <1>1 DEF Handled, PerStream

\* How the handles, the identifiers and the backlog change in a step.
LEMMA HandleMoves ==
  ASSUME IInv, OrderInv, Links \/ Rests \/ \E e \in Ends : Moves(e)
  PROVE  \/ UNCHANGED <<st, nextId, backlog>>
         \/ \E e \in Ends : OpenStream(e) /\ Handled(e, nextId[e], "open") /\ nextId[e] \in Sids
         \/ \E e \in Ends : /\ Accept(e) /\ Handled(e, Head(backlog[e]), "open")
                            /\ Head(backlog[e]) \in Sids
         \/ \E e \in Ends : /\ TakesSyn(e) /\ Handled(e, Head(wire[Peer(e)]).sid, "queued")
                            /\ Head(wire[Peer(e)]).sid \in Sids
         \/ \E e \in Ends, s \in Sids : DropStream(e, s) /\ Handled(e, s, "dropped")
<1>0. backlog \in [Ends -> Bounded(Sids, BacklogCap)]
    BY DEF IInv, TypeOK, RegistryTypes
<1>1. CASE Links \/ Rests
    BY <1>1 DEF Links, Rests
<1>2. ASSUME NEW e \in Ends, OpenStream(e)
      PROVE  Handled(e, nextId[e], "open") /\ nextId[e] \in Sids
  <2>1. nextId[e] \in Sids /\ st' = [st EXCEPT ![e][nextId[e]] = "open"]
      BY <1>2, Sendable DEF OpenStream
  <2> QED
      BY <2>1, Handling
<1>3. ASSUME NEW e \in Ends, Accept(e)
      PROVE  Handled(e, Head(backlog[e]), "open") /\ Head(backlog[e]) \in Sids
  <2>1. backlog[e] # <<>> /\ st' = [st EXCEPT ![e][Head(backlog[e])] = "open"]
      BY <1>3 DEF Accept
  <2>2. Head(backlog[e]) \in Sids
      BY <1>0, <2>1, BoundedIs, Constants
  <2> QED
      BY <2>1, <2>2, Handling
<1>4. ASSUME NEW e \in Ends, TakesSyn(e)
      PROVE  Handled(e, Head(wire[Peer(e)]).sid, "queued") /\ Head(wire[Peer(e)]).sid \in Sids
  <2>1. /\ wire[Peer(e)] # <<>>
        /\ st' = [st EXCEPT ![e][Head(wire[Peer(e)]).sid] = "queued"]
      BY <1>4 DEF TakesSyn, Takes
  <2>2. Head(wire[Peer(e)]).sid \in Sids
      BY <2>1, HeadOf
  <2> QED
      BY <2>1, <2>2, Handling
<1>5. ASSUME NEW e \in Ends, NEW s \in Sids, DropStream(e, s)
      PROVE  Handled(e, s, "dropped")
    BY <1>5, Handling DEF DropStream
<1>6. ASSUME NEW e \in Ends, NEW s \in Sids,
             \/ Writes(e, s) \/ Waits(e, s) \/ Reads(e, s) \/ ReadEof(e, s) \/ CloseStream(e, s)
      PROVE  UNCHANGED <<st, nextId, backlog>>
    BY <1>6 DEF Writes, Waits, Reads, ReadEof, CloseStream
<1>7. ASSUME NEW e \in Ends,
             \/ Puts(e) \/ Stops(e) \/ \E f \in late[e] : LateUpdate(e, f)
             \/ TakesFin(e) \/ TakesUnit(e) \/ TakesRest(e) \/ Unblocks(e) \/ Loops(e)
      PROVE  UNCHANGED <<st, nextId, backlog>>
    BY <1>7
       DEF Puts, Stops, LateUpdate, TakesFin, TakesUnit, TakesRest, Takes, Unblocks, Loops
<1> QED
    BY <1>1, <1>2, <1>3, <1>4, <1>5, <1>6, <1>7 DEF Moves, Receives

\* The receive loop of e goes on with the entries x, or ends.
Looped(e, x) ==
    /\ recv'[e] \in {"ended", "tokens", "reading"} /\ entry'[e] \subseteq x
    /\ recv'[e] # "ended" => entry'[e] = x
    /\ \A d \in Ends : d # e => entry'[d] = entry[d] /\ recv'[d] = recv[d]

\* Where a unit goes that the receive loop of e takes.
Filled(e, s, n) ==
    \A d \in Ends, t \in Sids :
        inbox'[d][t] = IF d = e /\ t = s THEN Append(inbox[d][t], n) ELSE inbox[d][t]

\* What a step of the receive loop writes in the streams map.
LEMMA LoopAt ==
  ASSUME IInv, OrderInv, NEW e \in Ends, NEW x,
         Loop(e, [entry EXCEPT ![e] = x]) \/ (Loop(e, entry) /\ x = entry[e])
  PROVE  Looped(e, x)
<1>1. /\ recv \in [Ends -> {"reading", "tokens", "blocked", "ended"}]
      /\ entry \in [Ends -> SUBSET Sids]
    BY DEF IInv, TypeOK, LoopTypes, RegistryTypes
<1>2. CASE recv' = [recv EXCEPT ![e] = "ended"] /\ entry' = [entry EXCEPT ![e] = {}]
    BY <1>1, <1>2 DEF Looped
<1>3. ASSUME NEW y \in {"tokens", "reading"}, recv' = [recv EXCEPT ![e] = y],
             entry' = [entry EXCEPT ![e] = x] \/ (entry' = entry /\ x = entry[e])
      PROVE  Looped(e, x)
    BY <1>1, <1>3 DEF Looped
<1> QED
    BY <1>2, <1>3 DEF Loop

\* SYN adds the stream to the map, and touches no data.
LEMMA SynAt ==
  ASSUME IInv, OrderInv, NEW e \in Ends, TakesSyn(e)
  PROVE  Looped(e, entry[e] \cup {Head(wire[Peer(e)]).sid}) /\ UNCHANGED <<inbox, held>>
BY LoopAt DEF TakesSyn

\* FIN takes the stream out of the map, and touches no data.
LEMMA FinAt ==
  ASSUME IInv, OrderInv, NEW e \in Ends, TakesFin(e)
  PROVE  Looped(e, entry[e] \ {Head(wire[Peer(e)]).sid}) /\ UNCHANGED <<inbox, held>>
BY LoopAt DEF TakesFin

\* Any other frame removes only dropped streams, and touches no data.
LEMMA RestAt ==
  ASSUME IInv, OrderInv, NEW e \in Ends, TakesRest(e)
  PROVE  /\ \E D \in SUBSET Sids : /\ \A s \in D : s \in entry[e] => st[e][s] = "dropped"
                                   /\ Looped(e, entry[e] \ D)
         /\ UNCHANGED <<inbox, held>>
<1>1. PICK D \in SUBSET Sids : /\ \A s \in D : s \in entry[e] => st[e][s] = "dropped"
                               /\ Loop(e, [entry EXCEPT ![e] = @ \ D])
    BY DEF TakesRest
<1>2. Looped(e, entry[e] \ D)
    BY <1>1, LoopAt
<1> QED
    BY <1>1, <1>2 DEF TakesRest

\* The loop ends, or the wire breaks: the data stay.
LEMMA LoopsAt ==
  ASSUME IInv, OrderInv, NEW e \in Ends, Loops(e)
  PROVE  Looped(e, entry[e]) /\ UNCHANGED <<inbox, held>>
BY LoopAt DEF Loops

\* What the receive loop does to the entries, the data channels and the held frame.
LEMMA Fills ==
  ASSUME IInv, OrderInv, NEW e \in Ends, NEW s \in Sids, NEW n,
         inbox' = [inbox EXCEPT ![e][s] = Append(@, n)]
  PROVE  Filled(e, s, n)
<1>1. inbox \in PerStream(Bounded(Nat, InboxCap))
    BY DEF IInv, TypeOK, RegistryTypes
<1> QED
    BY <1>1 DEF PerStream, Filled

\* A unit goes to the inbox of its stream, or is held by the blocked loop.
LEMMA UnitAt ==
  ASSUME IInv, OrderInv, NEW e \in Ends, TakesUnit(e)
  PROVE  \/ /\ Looped(e, entry[e]) /\ UNCHANGED held
            /\ Filled(e, Head(wire[Peer(e)]).sid, Head(wire[Peer(e)]).n)
         \/ /\ recv' = [recv EXCEPT ![e] = "blocked"] /\ UNCHANGED <<entry, inbox>>
            /\ held' = [held EXCEPT ![e] = Head(wire[Peer(e)])]
<1>1. Head(wire[Peer(e)]).sid \in Sids
    BY HeadOf DEF TakesUnit, Takes
<1> QED
    BY <1>1, Fills, LoopAt DEF TakesUnit

\* The held unit goes to its inbox, or its stream was dropped.
LEMMA UnblockAt ==
  ASSUME IInv, OrderInv, NEW e \in Ends, Unblocks(e)
  PROVE  /\ \/ /\ Looped(e, entry[e]) /\ Filled(e, held[e].sid, held[e].n)
               /\ st[e][held[e].sid] # "dropped"
            \/ /\ Looped(e, entry[e] \ {held[e].sid}) /\ UNCHANGED inbox
               /\ st[e][held[e].sid] = "dropped"
         /\ held' = [held EXCEPT ![e] = NoFrame]
<1>1. held[e].sid \in Sids
    BY FrameIs DEF IInv, TypeOK, LoopTypes
<1> QED
    BY <1>1, Fills, LoopAt DEF Unblocks

\* A step keeps Handles.
LEMMA HandlesStep ==
  ASSUME IInv, OrderInv, Links \/ Rests \/ \E e \in Ends : Moves(e)
  PROVE  Handles'
<1>IdsStep. \A d \in Ends : Ids(d)'
  <2>0. ASSUME NEW d \in Ends
        PROVE  /\ Opener(nextId[d]) = d /\ nextId[d] \in Nat
               /\ \A s \in Sids : Opener(s) = d /\ s >= nextId[d] => st[d][s] = "none"
      BY DEF IInv, OrderInv, TypeOK, RegistryTypes, Handles, Ids
  <2>3. ASSUME NEW e \in Ends, OpenStream(e)
        PROVE  \A d \in Ends : Ids(d)'
    <3>0. Handled(e, nextId[e], "open")
        BY <2>3, Sendable, Handling DEF OpenStream
    <3>1. \A d \in Ends : nextId'[d] = IF d = e THEN nextId[d] + 2 ELSE nextId[d]
        BY <2>3 DEF OpenStream, IInv, TypeOK, RegistryTypes
    <3> SUFFICES ASSUME NEW d \in Ends
                 PROVE  Ids(d)'
        OBVIOUS
    <3>2. Opener(nextId[d] + 2) = Opener(nextId[d])
        BY <2>0, SMT DEF Opener
    <3>3. \A s \in Sids : Opener(s) = d /\ s >= nextId'[d] => st'[d][s] = "none"
        BY <2>0, <3>0, <3>1, Constants, SMT DEF Handled
    <3> QED
        BY <2>0, <3>1, <3>2, <3>3 DEF Ids
  <2>4. ASSUME NEW e \in Ends, NEW x \in Sids, NEW v, Handled(e, x, v),
               Opener(x) # e \/ st[e][x] # "none", UNCHANGED nextId
        PROVE  \A d \in Ends : Ids(d)'
    <3> SUFFICES ASSUME NEW d \in Ends
                 PROVE  Ids(d)'
        OBVIOUS
    <3>1. \A s \in Sids : Opener(s) = d /\ s >= nextId[d] => st'[d][s] = "none"
        BY <2>0, <2>4, SMT DEF Handled
    <3> QED
        BY <2>0, <2>4, <3>1 DEF Ids
  <2>5. ASSUME UNCHANGED <<st, nextId>>
        PROVE  \A d \in Ends : Ids(d)'
      BY <2>0, <2>5 DEF Ids
  <2>6. ASSUME NEW e \in Ends, Accept(e), Handled(e, Head(backlog[e]), "open"),
               Head(backlog[e]) \in Sids
        PROVE  \A d \in Ends : Ids(d)'
    <3>1. backlog[e] # <<>> => 1 \in DOMAIN backlog[e] /\ Head(backlog[e]) = backlog[e][1]
        BY SMT DEF IInv, TypeOK, RegistryTypes, Bounded
    <3>2. st[e][Head(backlog[e])] = "queued"
        BY <2>6, <3>1 DEF Accept, OrderInv, Handles, Queued
    <3>3. st[e][Head(backlog[e])] # "none" /\ UNCHANGED nextId
        BY <2>6, <3>2 DEF Accept
    <3> QED
        BY <2>4, <2>6, <3>3
  <2>7. ASSUME NEW e \in Ends, TakesSyn(e), Handled(e, Head(wire[Peer(e)]).sid, "queued"),
               Head(wire[Peer(e)]).sid \in Sids
        PROVE  \A d \in Ends : Ids(d)'
    <3>1. UNCHANGED nextId /\ wire[Peer(e)] # <<>>
          /\ Head(wire[Peer(e)]).cmd = "SYN"
        BY <2>7 DEF TakesSyn, Takes
    <3>2. Opener(Head(wire[Peer(e)]).sid) # e
        BY <3>1, SynNew, Ending, ZenonT(60)
    <3> QED
        BY <2>4, <2>7, <3>1, <3>2
  <2>8. ASSUME NEW e \in Ends, NEW s \in Sids, DropStream(e, s), Handled(e, s, "dropped")
        PROVE  \A d \in Ends : Ids(d)'
    <3>1. UNCHANGED nextId /\ st[e][s] # "none"
        BY <2>8 DEF DropStream
    <3> QED
        BY <2>4, <2>8, <3>1
  <2> QED
      BY <2>3, <2>5, <2>6, <2>7, <2>8, HandleMoves
<1>QueuedStep. \A d \in Ends : Queued(d)'
  <2>0. ASSUME NEW d \in Ends
        PROVE  /\ \A i, j \in DOMAIN backlog[d] :
                     /\ st[d][backlog[d][i]] = "queued"
                     /\ backlog[d][i] = backlog[d][j] => i = j
               /\ backlog[d] \in Seq(Sids) /\ \A i \in DOMAIN backlog[d] : backlog[d][i] \in Sids
    <3>1. backlog[d] \in Seq(Sids)
        BY DEF IInv, TypeOK, RegistryTypes, Bounded
    <3> QED
        BY <3>1, SMT DEF OrderInv, Handles, Queued
  <2>1. ASSUME NEW e \in Ends, NEW x \in Sids, NEW v, Handled(e, x, v), st[e][x] # "queued",
               UNCHANGED backlog
        PROVE  \A d \in Ends : Queued(d)'
      BY <2>0, <2>1, SMT DEF Handled, Queued
  <2>2. ASSUME UNCHANGED <<st, backlog>>
        PROVE  \A d \in Ends : Queued(d)'
      BY <2>0, <2>2 DEF Queued
  <2>3. ASSUME NEW e \in Ends, OpenStream(e), Handled(e, nextId[e], "open"), nextId[e] \in Sids
        PROVE  \A d \in Ends : Queued(d)'
    <3>1. st[e][nextId[e]] = "none"
      <4>0. nextId[e] \in Nat
          BY <2>3, Constants
      <4>1. nextId[e] >= nextId[e]
          BY <4>0, SMT
      <4> QED
          BY <2>3, <4>1 DEF OrderInv, Handles, Ids
    <3>2. st[e][nextId[e]] # "queued" /\ UNCHANGED backlog
        BY <2>3, <3>1 DEF OpenStream
    <3> QED
        BY <2>1, <2>3, <3>2
  <2>4. ASSUME NEW e \in Ends, NEW s \in Sids, DropStream(e, s), Handled(e, s, "dropped")
        PROVE  \A d \in Ends : Queued(d)'
    <3>1. st[e][s] # "queued" /\ UNCHANGED backlog
        BY <2>4 DEF DropStream
    <3> QED
        BY <2>1, <2>4, <3>1
  <2>5. ASSUME NEW e \in Ends, Accept(e), Handled(e, Head(backlog[e]), "open")
        PROVE  \A d \in Ends : Queued(d)'
    <3>1. /\ backlog[e] # <<>> /\ backlog'[e] = Tail(backlog[e])
          /\ \A d \in Ends : d # e => backlog'[d] = backlog[d]
        BY <2>5 DEF Accept, IInv, TypeOK, RegistryTypes
    <3>2. /\ 1 \in DOMAIN backlog[e] /\ Head(backlog[e]) = backlog[e][1]
          /\ \A i \in DOMAIN Tail(backlog[e]) :
                /\ i + 1 \in DOMAIN backlog[e] /\ i + 1 # 1 /\ i \in Int
                /\ Tail(backlog[e])[i] = backlog[e][i + 1]
        BY <2>0, <3>1, SMT
    <3>3. ASSUME NEW i \in DOMAIN backlog'[e], NEW j \in DOMAIN backlog'[e]
          PROVE  /\ st'[e][backlog'[e][i]] = "queued"
                 /\ backlog'[e][i] = backlog'[e][j] => i = j
        BY <2>0, <2>5, <3>1, <3>2, SMT DEF Handled
    <3>4. ASSUME NEW d \in Ends, d # e
          PROVE  Queued(d)'
        BY <2>0, <2>5, <3>1, <3>4, SMT DEF Handled, Queued
    <3> QED
        BY <3>3, <3>4 DEF Queued
  <2>6. ASSUME NEW e \in Ends, TakesSyn(e), Handled(e, Head(wire[Peer(e)]).sid, "queued"),
               Head(wire[Peer(e)]).sid \in Sids
        PROVE  \A d \in Ends : Queued(d)'
    <3> DEFINE s == Head(wire[Peer(e)]).sid
    <3>1. st[e][s] = "none"
        BY <2>6, SynNew DEF TakesSyn, Takes
    <3>2. /\ backlog'[e] = Append(backlog[e], s)
          /\ \A d \in Ends : d # e => backlog'[d] = backlog[d]
        BY <2>6 DEF TakesSyn, IInv, TypeOK, RegistryTypes
    <3>3. \A i \in DOMAIN Append(backlog[e], s) :
             \/ i \in DOMAIN backlog[e] /\ Append(backlog[e], s)[i] = backlog[e][i]
             \/ i = Len(backlog[e]) + 1 /\ Append(backlog[e], s)[i] = s
        BY <2>0, <2>6, Joined, ZenonT(60)
    <3> HIDE DEF s
    <3>4. ASSUME NEW i \in DOMAIN backlog'[e], NEW j \in DOMAIN backlog'[e]
          PROVE  /\ st'[e][backlog'[e][i]] = "queued"
                 /\ backlog'[e][i] = backlog'[e][j] => i = j
      <4>1. \A k \in DOMAIN backlog[e] : backlog[e][k] # s /\ st'[e][backlog[e][k]] = "queued"
          BY <2>0, <2>6, <3>1, SMT DEF Handled, s
      <4>2. st'[e][s] = "queued"
          BY <2>6 DEF Handled, s
      <4> QED
          BY <2>0, <3>2, <3>3, <4>1, <4>2, SMT
    <3>5. ASSUME NEW d \in Ends, d # e
          PROVE  Queued(d)'
        BY <2>0, <2>6, <3>2, <3>5, SMT DEF Handled, Queued
    <3> QED
        BY <3>4, <3>5 DEF Queued
  <2> QED
      BY <2>2, <2>3, <2>4, <2>5, <2>6, HandleMoves
<1>HandleOfStep. ASSUME NEW d \in Ends, NEW s \in Sids
                 PROVE  HandleOf(d, s)'
  <2>0. /\ st[d][s] = "none" => s \notin entry[d] /\ ~finSent[d][s] /\ ~eof[d][s]
        /\ mode[d][s] # "idle" => st[d][s] = "open" /\ ~finSent[d][s]
        /\ eof[d][s] => inbox[d][s] = <<>> /\ s \notin entry[d]
      BY DEF OrderInv, Handles, HandleOf
  <2>t. /\ mode \in PerStream({"idle", "writing", "waiting"}) /\ finSent \in PerStream(BOOLEAN)
        /\ eof \in PerStream(BOOLEAN) /\ inbox \in PerStream(Bounded(Nat, InboxCap))
      BY DEF IInv, TypeOK, HandleTypes, RegistryTypes
  <2>1. ASSUME UNCHANGED <<handles, entry, inbox>>
        PROVE  HandleOf(d, s)'
      BY <2>0, <2>1 DEF HandleOf
  <2>2. CASE Links \/ Rests
      BY <2>1, <2>2 DEF Links, Rests
  <2>3. ASSUME NEW e \in Ends, Puts(e) \/ Stops(e) \/ \E f \in late[e] : LateUpdate(e, f)
        PROVE  HandleOf(d, s)'
      BY <2>1, <2>3 DEF Puts, Stops, LateUpdate
  <2>4. ASSUME NEW e \in Ends, OpenStream(e)
        PROVE  HandleOf(d, s)'
    <3>1. Handled(e, nextId[e], "open") /\ nextId[e] \in Sids
        BY <2>4, Sendable, Handling DEF OpenStream
    <3>2. st[e][nextId[e]] = "none"
      <4>1. nextId[e] \in Nat
          BY <3>1, Constants
      <4>2. nextId[e] >= nextId[e]
          BY <4>1, SMT
      <4> QED
          BY <3>1, <4>2 DEF OrderInv, Handles, Ids
    <3>3. /\ UNCHANGED <<mode, finSent, eof, inbox>>
          /\ s \in entry'[d] => s \in entry[d] \/ (d = e /\ s = nextId[e])
        BY <2>4 DEF OpenStream, IInv, TypeOK, RegistryTypes
    <3>4. CASE d = e /\ s = nextId[e]
      <4>1. st'[d][s] = "open" /\ ~finSent[d][s] /\ ~eof[d][s] /\ st[d][s] = "none"
          BY <2>0, <3>1, <3>2, <3>4 DEF Handled, HandleOf
      <4> QED
          BY <3>3, <4>1 DEF HandleOf
    <3>5. CASE ~(d = e /\ s = nextId[e])
      <4>1. st'[d][s] = st[d][s]
          BY <3>1, <3>5 DEF Handled
      <4> QED
          BY <2>0, <3>3, <3>5, <4>1 DEF HandleOf
    <3> QED
        BY <3>4, <3>5
  <2>5. ASSUME NEW e \in Ends, Accept(e)
        PROVE  HandleOf(d, s)'
    <3>1. backlog[e] \in Seq(Sids) /\ backlog[e] # <<>>
        BY <2>5 DEF Accept, IInv, TypeOK, RegistryTypes, Bounded
    <3>2. 1 \in DOMAIN backlog[e] /\ Head(backlog[e]) = backlog[e][1] /\ Head(backlog[e]) \in Sids
        BY <3>1, SMT
    <3>3. st[e][Head(backlog[e])] = "queued"
        BY <3>2 DEF OrderInv, Handles, Queued
    <3>4. Handled(e, Head(backlog[e]), "open") /\ UNCHANGED <<mode, finSent, eof, inbox, entry>>
        BY <2>5, <3>2, Handling DEF Accept
    <3> QED
        BY <2>0, <3>3, <3>4 DEF Handled, HandleOf
  <2>6. ASSUME NEW e \in Ends, NEW t \in Sids, Writes(e, t) \/ Waits(e, t)
        PROVE  HandleOf(d, s)'
    <3>1. /\ UNCHANGED <<st, finSent, eof, inbox, entry>>
          /\ \E x \in {"idle", "writing", "waiting"} :
                (x # "idle" => Writable(e, t)) /\ mode' = [mode EXCEPT ![e][t] = x]
      <4>1. "idle" \in {"idle", "writing", "waiting"} /\ ("idle" # "idle" => FALSE)
          OBVIOUS
      <4> QED
          BY <2>6, <4>1 DEF Writes, WriteUnit, Waits
    <3>2. mode'[d][s] # "idle" => st[d][s] = "open" /\ ~finSent[d][s]
        BY <2>0, <2>t, <3>1, MayWrite, SMT DEF PerStream
    <3> QED
        BY <2>0, <3>1, <3>2 DEF HandleOf
  <2>7. ASSUME NEW e \in Ends, NEW t \in Sids, Reads(e, t)
        PROVE  HandleOf(d, s)'
    <3>1. /\ UNCHANGED <<handles, entry>> /\ inbox[e][t] # <<>>
          /\ inbox' = [inbox EXCEPT ![e][t] = Tail(@)]
        BY <2>7 DEF Reads
    <3>2. inbox'[d][s] = inbox[d][s] \/ inbox[d][s] # <<>>
        BY <2>t, <3>1 DEF PerStream
    <3> QED
        BY <2>0, <3>1, <3>2 DEF HandleOf
  <2>8. ASSUME NEW e \in Ends, NEW t \in Sids, ReadEof(e, t)
        PROVE  HandleOf(d, s)'
    <3>1. /\ UNCHANGED <<st, mode, finSent, entry, inbox>> /\ st[e][t] = "open"
          /\ eof' = [eof EXCEPT ![e][t] = TRUE] /\ inbox[e][t] = <<>> /\ t \notin entry[e]
        BY <2>8 DEF ReadEof
    <3>2. eof'[d][s] = eof[d][s] \/ (d = e /\ s = t)
        BY <2>t, <3>1 DEF PerStream
    <3> QED
        BY <2>0, <3>1, <3>2 DEF HandleOf
  <2>9. ASSUME NEW e \in Ends, NEW t \in Sids, CloseStream(e, t)
        PROVE  HandleOf(d, s)'
    <3>1. /\ UNCHANGED <<st, mode, eof, entry, inbox>> /\ st[e][t] = "open"
          /\ mode[e][t] = "idle" /\ finSent' = [finSent EXCEPT ![e][t] = TRUE]
        BY <2>9 DEF CloseStream
    <3>2. finSent'[d][s] = finSent[d][s] \/ (d = e /\ s = t)
        BY <2>t, <3>1 DEF PerStream
    <3> QED
        BY <2>0, <3>1, <3>2 DEF HandleOf
  <2>10. ASSUME NEW e \in Ends, NEW t \in Sids, DropStream(e, t)
         PROVE  HandleOf(d, s)'
    <3>1. /\ UNCHANGED <<finSent, eof, entry>> /\ inbox' = [inbox EXCEPT ![e][t] = <<>>]
          /\ mode' = [mode EXCEPT ![e][t] = "idle"] /\ Handled(e, t, "dropped")
        BY <2>10, Handling DEF DropStream
    <3>2. /\ inbox'[d][s] = inbox[d][s] \/ inbox'[d][s] = <<>>
          /\ d = e /\ s = t => mode'[d][s] = "idle"
          /\ ~(d = e /\ s = t) => mode'[d][s] = mode[d][s]
        BY <2>t, <3>1 DEF PerStream
    <3> QED
        BY <2>0, <3>1, <3>2 DEF Handled, HandleOf
  <2>11. ASSUME NEW e \in Ends, TakesSyn(e)
         PROVE  HandleOf(d, s)'
    <3>1. /\ wire[Peer(e)] # <<>> /\ Head(wire[Peer(e)]).cmd = "SYN"
          /\ UNCHANGED <<mode, finSent, eof>>
          /\ st' = [st EXCEPT ![e][Head(wire[Peer(e)]).sid] = "queued"]
        BY <2>11 DEF TakesSyn, Takes
    <3>2. /\ Handled(e, Head(wire[Peer(e)]).sid, "queued") /\ UNCHANGED inbox
          /\ Looped(e, entry[e] \cup {Head(wire[Peer(e)]).sid})
          /\ st[e][Head(wire[Peer(e)]).sid] = "none"
        BY <2>11, <3>1, HeadOf, SynNew, SynAt, Handling
    <3> QED
        BY <2>0, <3>1, <3>2, SMT DEF Handled, Looped, HandleOf
  <2>12. ASSUME NEW e \in Ends, TakesFin(e) \/ TakesRest(e) \/ Loops(e)
         PROVE  HandleOf(d, s)'
    <3>1. \E D : Looped(e, entry[e] \ D)
      <4>1. entry[e] = entry[e] \ {}
          OBVIOUS
      <4> QED
          BY <2>12, <4>1, FinAt, RestAt, LoopsAt
    <3>2. UNCHANGED <<handles, inbox>>
        BY <2>12 DEF TakesFin, TakesRest, Takes, Loops
    <3>3. s \in entry'[d] => s \in entry[d]
        BY <3>1 DEF Looped
    <3> QED
        BY <2>0, <3>2, <3>3 DEF HandleOf
  <2>13. ASSUME NEW e \in Ends, TakesUnit(e) \/ Unblocks(e)
         PROVE  HandleOf(d, s)'
    <3>1. UNCHANGED handles
        BY <2>13 DEF TakesUnit, Takes, Unblocks
    <3>2. \/ UNCHANGED <<entry, inbox>>
          \/ UNCHANGED inbox /\ \E D : Looped(e, entry[e] \ D)
          \/ Looped(e, entry[e]) /\ \E t \in entry[e] : \E n : Filled(e, t, n)
      <4>1. Unblocks(e) => st[e][held[e].sid] = "dropped" \/ held[e].sid \in entry[e]
          BY DEF Unblocks, OrderInv, HeldNext
      <4>2. TakesUnit(e) => Head(wire[Peer(e)]).sid \in entry[e]
          BY DEF TakesUnit
      <4> QED
          BY <2>13, <4>1, <4>2, UnitAt, UnblockAt
    <3>3. s \in entry'[d] => s \in entry[d]
        BY <3>2 DEF Looped
    <3>4. inbox'[d][s] = inbox[d][s] \/ s \in entry[d]
        BY <3>2 DEF Filled
    <3> QED
        BY <2>0, <3>1, <3>3, <3>4 DEF HandleOf
  <2> QED
      BY <2>2, <2>3, <2>4, <2>5, <2>6, <2>7, <2>8, <2>9, <2>10, <2>11, <2>12, <2>13
         DEF Moves, Receives
<1> QED
BY <1>IdsStep, <1>QueuedStep, <1>HandleOfStep DEF Handles

-----------------------------------------------------------------------------
(* Every frame under way was made by its sender.                           *)

\* What Append adds, position by position.
LEMMA AppendIs ==
  ASSUME NEW q \in Seq(Frames), NEW f \in Frames
  PROVE  /\ Append(q, f) \in Seq(Frames) /\ DOMAIN Append(q, f) = 1..(Len(q) + 1)
         /\ DOMAIN q = 1..Len(q) /\ Len(q) \in Nat
         /\ Append(q, f)[Len(q) + 1] = f /\ \A i \in 1..Len(q) : Append(q, f)[i] = q[i]
BY SMT

\* A queue gains the frame appended to it.
LEMMA RangeAppended ==
  ASSUME NEW q \in Seq(Frames), NEW f \in Frames
  PROVE  Range(Append(q, f)) = Range(q) \cup {f}
<1>1. \A i \in 1..(Len(q) + 1) : i \in 1..Len(q) \/ i = Len(q) + 1
    BY AppendIs, SMT
<1> QED
    BY <1>1, AppendIs, SMT DEF Range

\* A control frame joins the control queue of a running writer.
LEMMA QueuesAt ==
  ASSUME IInv, OrderInv, NEW e \in Ends, NEW f, Queues(e, f)
  PROVE  /\ \A d \in Ends : d # e => ctrl'[d] = ctrl[d]
         /\ \/ writer[e] = "running" /\ ctrl'[e] = Append(ctrl[e], f)
            \/ writer[e] = "ended" /\ ctrl'[e] = ctrl[e]
BY DEF IInv, TypeOK, QueueTypes, Queues

\* What one write() changes: one unit joins the queue of its stream.
LEMMA WritesAt ==
  ASSUME IInv, OrderInv, NEW e \in Ends, NEW s \in Sids, Writes(e, s)
  PROVE  /\ st[e][s] = "open" /\ ~finSent[e][s] /\ writer[e] = "running"
         /\ \A d \in Ends : d # e => ctrl'[d] = ctrl[d] /\ data'[d] = data[d]
         /\ Opener(s) = e => /\ data'[e] = Append(data[e], Frame("PSH", s, written[e][s] + 1))
                             /\ ctrl'[e] = ctrl[e]
         /\ Opener(s) # e => /\ ctrl'[e] = Append(ctrl[e], Frame("PSH", s, written[e][s] + 1))
                             /\ data'[e] = data[e]
         /\ \A d \in Ends, t \in Sids :
               written'[d][t] = IF d = e /\ t = s THEN written[d][t] + 1 ELSE written[d][t]
         /\ UNCHANGED <<transport, loops, late, registry, st, finSent, eof, numRead, consumed,
                        window>>
         /\ Frame("PSH", s, written[e][s] + 1) \in Frames
<1> DEFINE f == Frame("PSH", s, written[e][s] + 1)
<1>1. /\ st[e][s] = "open" /\ ~finSent[e][s] /\ writer[e] = "running"
      /\ SendData(e, s, f) /\ written' = [written EXCEPT ![e][s] = @ + 1]
      /\ UNCHANGED <<transport, loops, late, registry, st, finSent, eof, numRead, consumed,
                     window>>
    BY MayWrite DEF Writes, WriteUnit
<1>2. /\ written \in PerStream(Nat) /\ ctrl \in [Ends -> Bounded(Frames, QueueCap)]
      /\ data \in [Ends -> Bounded(Frames, QueueCap)]
    BY DEF IInv, TypeOK, CountTypes, QueueTypes
<1>3. \A d \in Ends, t \in Sids :
         written'[d][t] = IF d = e /\ t = s THEN written[d][t] + 1 ELSE written[d][t]
    BY <1>1, <1>2 DEF PerStream
<1>4. written[e][s] + 1 \in Nat
    BY <1>2, SMT DEF PerStream
<1>5. f \in Frames
    BY <1>4, Framed
<1> HIDE DEF f
<1>6. /\ \A d \in Ends : d # e => ctrl'[d] = ctrl[d] /\ data'[d] = data[d]
      /\ Opener(s) = e => data'[e] = Append(data[e], f) /\ ctrl'[e] = ctrl[e]
      /\ Opener(s) # e => ctrl'[e] = Append(ctrl[e], f) /\ data'[e] = data[e]
    BY <1>1, <1>2 DEF SendData
<1> QED
    BY <1>1, <1>3, <1>5, <1>6 DEF f

\* What the write loop puts on the wire is the head of the queue it took it from.
LEMMA PutsAt ==
  ASSUME IInv, OrderInv, NEW e \in Ends, Puts(e)
  PROVE  /\ writer[e] = "running" /\ link # "broken"
         /\ \A d \in Ends : d # e => /\ ctrl'[d] = ctrl[d] /\ data'[d] = data[d]
                                     /\ wire'[d] = wire[d] /\ writer'[d] = writer[d]
         /\ \E f \in Frames :
              /\ wire'[e] = Append(wire[e], f)
              /\ \/ ctrl[e] # <<>> /\ f = Head(ctrl[e])
                 \/ ctrl[e] = <<>> /\ data[e] # <<>> /\ f = Head(data[e])
                 \/ f = NoFrame
              /\ \/ writer'[e] = "ended" /\ ctrl'[e] = <<>> /\ data'[e] = <<>>
                 \/ /\ writer'[e] = "running" /\ data'[e] = data[e]
                    /\ ctrl[e] # <<>> /\ f = Head(ctrl[e]) /\ ctrl'[e] = Tail(ctrl[e])
                 \/ /\ writer'[e] = "running" /\ ctrl'[e] = ctrl[e] /\ ctrl[e] = <<>>
                    /\ data[e] # <<>> /\ f = Head(data[e]) /\ data'[e] = Tail(data[e])
                 \/ /\ writer'[e] = "running" /\ ctrl'[e] = ctrl[e] /\ data'[e] = data[e]
                    /\ f = NoFrame
         /\ UNCHANGED <<version, link, recv, held, late, registry, handles, counts, shared>>
<1>1. /\ wire \in [Ends -> Bounded(Frames, WireCap)] /\ writer \in [Ends -> {"running", "ended"}]
      /\ ctrl \in [Ends -> Bounded(Frames, QueueCap)]
      /\ data \in [Ends -> Bounded(Frames, QueueCap)]
    BY DEF IInv, TypeOK, LoopTypes, QueueTypes
<1>2. PICK f \in Frames :
        /\ writer[e] = "running" /\ link # "broken"
        /\ wire' = [wire EXCEPT ![e] = Append(@, f)]
        /\ \/ /\ ctrl[e] # <<>> /\ f = Head(ctrl[e])
              /\ \/ EndWriter(e)
                 \/ ctrl' = [ctrl EXCEPT ![e] = Tail(@)] /\ UNCHANGED <<data, writer>>
           \/ /\ ctrl[e] = <<>> /\ data[e] # <<>> /\ f = Head(data[e])
              /\ \/ EndWriter(e)
                 \/ data' = [data EXCEPT ![e] = Tail(@)] /\ UNCHANGED <<ctrl, writer>>
           \/ f = NoFrame /\ (EndWriter(e) \/ UNCHANGED <<ctrl, data, writer>>)
        /\ UNCHANGED <<version, link, recv, held, late, registry, handles, counts, shared>>
    BY DEF Puts
<1>3. wire'[e] = Append(wire[e], f) /\ \A d \in Ends : d # e => wire'[d] = wire[d]
    BY <1>1, <1>2
<1>4. ASSUME EndWriter(e)
      PROVE  /\ writer'[e] = "ended" /\ ctrl'[e] = <<>> /\ data'[e] = <<>>
             /\ \A d \in Ends : d # e => /\ ctrl'[d] = ctrl[d] /\ data'[d] = data[d]
                                         /\ writer'[d] = writer[d]
    BY <1>1, <1>4 DEF EndWriter
<1>5. CASE EndWriter(e)
    BY <1>2, <1>3, <1>4, <1>5
<1>6. CASE /\ ctrl[e] # <<>> /\ f = Head(ctrl[e])
           /\ ctrl' = [ctrl EXCEPT ![e] = Tail(@)] /\ UNCHANGED <<data, writer>>
  <2>1. ctrl'[e] = Tail(ctrl[e]) /\ \A d \in Ends : d # e => ctrl'[d] = ctrl[d]
      BY <1>1, <1>6
  <2> QED
      BY <1>2, <1>3, <1>6, <2>1
<1>7. CASE /\ ctrl[e] = <<>> /\ data[e] # <<>> /\ f = Head(data[e])
           /\ data' = [data EXCEPT ![e] = Tail(@)] /\ UNCHANGED <<ctrl, writer>>
  <2>1. data'[e] = Tail(data[e]) /\ \A d \in Ends : d # e => data'[d] = data[d]
      BY <1>1, <1>7
  <2> QED
      BY <1>2, <1>3, <1>7, <2>1
<1>8. CASE f = NoFrame /\ UNCHANGED <<ctrl, data, writer>>
    BY <1>2, <1>3, <1>8
<1> QED
    BY <1>2, <1>5, <1>6, <1>7, <1>8

\* A writer that stops leaves empty queues.
LEMMA StopsAt ==
  ASSUME IInv, OrderInv, NEW e \in Ends, Stops(e)
  PROVE  /\ writer'[e] = "ended" /\ ctrl'[e] = <<>> /\ data'[e] = <<>>
         /\ \A d \in Ends : d # e => /\ ctrl'[d] = ctrl[d] /\ data'[d] = data[d]
                                     /\ writer'[d] = writer[d]
         /\ UNCHANGED <<transport, recv, held, late, registry, handles, counts, shared>>
BY DEF Stops, EndWriter, IInv, TypeOK, LoopTypes, QueueTypes

\* The receive loop takes the head of the wire.
LEMMA TakesAt ==
  ASSUME IInv, OrderInv, NEW e \in Ends, Takes(e)
  PROVE  /\ wire'[Peer(e)] = Tail(wire[Peer(e)]) /\ wire'[e] = wire[e]
         /\ UNCHANGED <<version, link, writer, queues, mode, finSent, eof, counts>>
<1>1. Peer(e) \in Ends /\ Peer(e) # e
    BY Ending
<1>2. wire' = [wire EXCEPT ![Peer(e)] = Tail(@)] /\ wire \in [Ends -> Bounded(Frames, WireCap)]
    BY DEF Takes, IInv, TypeOK, QueueTypes
<1>3. wire'[Peer(e)] = Tail(wire[Peer(e)]) /\ wire'[e] = wire[e]
    BY <1>1, <1>2
<1> QED
    BY <1>3 DEF Takes

\* What a handle has done stays done.
LEMMA Kept ==
  ASSUME IInv, OrderInv, Links \/ Rests \/ \E e \in Ends : Moves(e), NEW d \in Ends, NEW s \in Sids
  PROVE  /\ st[d][s] # "none" => st'[d][s] # "none"
         /\ finSent[d][s] => finSent'[d][s]
<1>0. finSent \in PerStream(BOOLEAN)
    BY DEF IInv, TypeOK, HandleTypes
<1>1. st[d][s] # "none" => st'[d][s] # "none"
  <2>1. \/ UNCHANGED st
        \/ \E e, t : \E x \in {"open", "queued", "dropped"} : Handled(e, t, x)
    <3>1. /\ "open" \in {"open", "queued", "dropped"} /\ "queued" \in {"open", "queued", "dropped"}
          /\ "dropped" \in {"open", "queued", "dropped"}
        OBVIOUS
    <3> QED
        BY <3>1, HandleMoves
  <2> QED
      BY <2>1 DEF Handled
<1>2. ASSUME UNCHANGED finSent
      PROVE  finSent[d][s] => finSent'[d][s]
    BY <1>0, <1>2
<1>3. CASE Links \/ Rests
    BY <1>1, <1>2, <1>3 DEF Links, Rests
<1>4. ASSUME NEW e \in Ends,
             \/ OpenStream(e) \/ Accept(e) \/ Puts(e) \/ Stops(e)
             \/ \E f \in late[e] : LateUpdate(e, f)
      PROVE  UNCHANGED finSent
    BY <1>4 DEF OpenStream, Accept, Puts, Stops, LateUpdate
<1>5. ASSUME NEW e \in Ends, Receives(e)
      PROVE  UNCHANGED finSent
    BY <1>5 DEF Receives, TakesSyn, TakesFin, TakesUnit, TakesRest, Takes, Unblocks,
       Loops
<1>6. ASSUME NEW e \in Ends, NEW t \in Sids,
             Writes(e, t) \/ Waits(e, t) \/ ReadEof(e, t) \/ DropStream(e, t)
      PROVE  UNCHANGED finSent
    BY <1>6 DEF Writes, Waits, ReadEof, DropStream
<1>7. ASSUME NEW e \in Ends, NEW t \in Sids, CloseStream(e, t) \/ Reads(e, t)
      PROVE  finSent[d][s] => finSent'[d][s]
  <2>1. UNCHANGED finSent \/ finSent' = [finSent EXCEPT ![e][t] = TRUE]
      BY <1>7 DEF CloseStream, Reads
  <2> QED
      BY <1>0, <2>1, ZenonT(60) DEF PerStream
<1> QED
    BY <1>1, <1>2, <1>3, <1>4, <1>5, <1>6, <1>7, ZenonT(60) DEF Moves

\* What a step may do to the channels of d.
WireMoves(d) ==
    \/ wire'[d] = wire[d] \/ wire'[d] = <<>>
    \/ wire[d] # <<>> /\ wire'[d] = Tail(wire[d])
    \/ \E f \in Frames : /\ wire'[d] = Append(wire[d], f)
                         /\ \/ ctrl[d] # <<>> /\ f = Head(ctrl[d])
                            \/ data[d] # <<>> /\ f = Head(data[d])
                            \/ f = NoFrame

CtrlMoves(d) ==
    \/ ctrl'[d] = ctrl[d] \/ ctrl'[d] = <<>>
    \/ ctrl[d] # <<>> /\ ctrl'[d] = Tail(ctrl[d])
    \/ \E f \in Frames : /\ ctrl'[d] = Append(ctrl[d], f) /\ (Made(d, f)' \/ f \in late[d])
                         /\ f.cmd = "PSH" => Opener(f.sid) # d

DataMoves(d) ==
    \/ data'[d] = data[d] \/ data'[d] = <<>>
    \/ data[d] # <<>> /\ data'[d] = Tail(data[d])
    \/ \E f \in Frames : /\ data'[d] = Append(data[d], f) /\ Made(d, f)'
                         /\ f.cmd = "PSH" /\ Opener(f.sid) = d

LateMoves(d) == \A f \in late'[d] : f \in late[d] \/ (Made(d, f)' /\ f.cmd = "UPD")

\* A step keeps Sources: every frame under way was made by its sender.
LEMMA SourcesStep ==
  ASSUME IInv, OrderInv, Links \/ Rests \/ \E e \in Ends : Moves(e)
  PROVE  Sources'
<1>StillMade. ASSUME NEW d \in Ends, NEW f \in Frames, Made(d, f)
              PROVE  Made(d, f)'
  <2> USE <1>StillMade
  <2>1. f.sid \in Sids
      BY FrameIs
  <2>2. /\ st[d][f.sid] # "none" => st'[d][f.sid] # "none"
        /\ finSent[d][f.sid] => finSent'[d][f.sid]
      BY <2>1, Kept
  <2> QED
      BY <2>2 DEF Made
<1>Channelled. ASSUME NEW d \in Ends
               PROVE  WireMoves(d) /\ CtrlMoves(d) /\ DataMoves(d) /\ LateMoves(d)
  <2>1. ASSUME UNCHANGED <<wire, queues>>
        PROVE  WireMoves(d) /\ CtrlMoves(d) /\ DataMoves(d) /\ LateMoves(d)
      BY <2>1 DEF WireMoves, CtrlMoves, DataMoves, LateMoves
  <2>2. CASE Links
    <3>1. wire'[d] = wire[d] \/ wire'[d] = <<>>
        BY <2>2 DEF Links
    <3> QED
        BY <2>2, <3>1 DEF Links, WireMoves, CtrlMoves, DataMoves, LateMoves
  <2>3. CASE Rests
      BY <2>1, <2>3 DEF Rests
  <2>4. ASSUME NEW e \in Ends, NEW f \in Frames, Queues(e, f), Made(e, f)' \/ f \in late[e],
               f.cmd # "PSH"
        PROVE  CtrlMoves(d)
      BY <2>4, QueuesAt DEF CtrlMoves
  <2>5. ASSUME NEW e \in Ends, OpenStream(e)
        PROVE  WireMoves(d) /\ CtrlMoves(d) /\ DataMoves(d) /\ LateMoves(d)
    <3>0. PICK f : f = Frame("SYN", nextId[e], 0)
        OBVIOUS
    <3>1. f \in Frames /\ nextId[e] \in Sids /\ Queues(e, f) /\ st'[e][nextId[e]] = "open"
      <4>1. opening[e] /\ st' = [st EXCEPT ![e][nextId[e]] = "open"] /\ CanSend(ctrl, e)
            /\ ctrl' = Sent(ctrl, e, f)
          BY <2>5, <3>0 DEF OpenStream
      <4>2. f \in Frames /\ nextId[e] \in Sids
          BY <3>0, <4>1, Sendable
      <4>3. Handled(e, nextId[e], "open")
          BY <4>1, <4>2, Handling
      <4>4. st'[e][nextId[e]] = "open"
          BY <4>2, <4>3 DEF Handled
      <4>5. Queues(e, f)
          BY <4>1, Sending DEF IInv, TypeOK
      <4> QED
          BY <4>2, <4>4, <4>5
    <3>2. Opener(nextId[e]) = e
        BY DEF OrderInv, Handles, Ids
    <3>3. f.cmd = "SYN" /\ f.sid = nextId[e]
        BY <3>0 DEF Frame
    <3>4. Made(e, f)' /\ f.cmd # "PSH"
        BY <3>1, <3>2, <3>3 DEF Made
    <3>5. CtrlMoves(d)
        BY <2>4, <3>1, <3>4
    <3> QED
        BY <2>5, <3>5 DEF OpenStream, WireMoves, DataMoves, LateMoves
  <2>6. ASSUME NEW e \in Ends, NEW s \in Sids, CloseStream(e, s)
        PROVE  WireMoves(d) /\ CtrlMoves(d) /\ DataMoves(d) /\ LateMoves(d)
    <3> DEFINE f == Frame("FIN", s, 0)
    <3>1. f \in Frames /\ f.cmd = "FIN" /\ f.sid = s
        BY Framed DEF Frame
    <3>2. Queues(e, f) /\ finSent' = [finSent EXCEPT ![e][s] = TRUE]
        BY <2>6, Sending DEF CloseStream, IInv, TypeOK
    <3>3. finSent'[e][s]
        BY <3>2 DEF IInv, TypeOK, HandleTypes, PerStream
    <3>4. Made(e, f)' /\ f.cmd # "PSH"
        BY <3>1, <3>3 DEF Made
    <3>5. CtrlMoves(d)
        BY <2>4, <3>1, <3>2, <3>4
    <3> QED
        BY <2>6, <3>5 DEF CloseStream, WireMoves, DataMoves, LateMoves
  <2>7. ASSUME NEW e \in Ends, NEW s \in Sids, Reads(e, s)
        PROVE  WireMoves(d) /\ CtrlMoves(d) /\ DataMoves(d) /\ LateMoves(d)
    <3>0. PICK f : f = Frame("UPD", s, numRead[e][s] + 1)
        OBVIOUS
    <3>1. numRead \in PerStream(Nat) /\ numRead[e][s] + 1 \in Nat
          /\ late \in [Ends -> SUBSET Frames]
        BY SMT DEF IInv, TypeOK, CountTypes, QueueTypes, PerStream
    <3>2. f \in Frames /\ f.cmd = "UPD" /\ f.sid = s /\ f.n = numRead[e][s] + 1
        BY <3>0, <3>1, Framed DEF Frame
    <3>4. Made(e, f)' /\ f.cmd # "PSH"
        BY <3>2 DEF Made
    <3>5. CtrlMoves(d)
      <4>1. CASE Queues(e, f)
          BY <2>4, <3>2, <3>4, <4>1
      <4>2. CASE UNCHANGED ctrl
          BY <4>2 DEF CtrlMoves
      <4> QED
          BY <2>7, <3>0, <4>1, <4>2 DEF Reads
    <3>6. LateMoves(d)
      <4>1. UNCHANGED late \/ late' = [late EXCEPT ![e] = @ \cup {f}]
          BY <2>7, <3>0 DEF Reads
      <4>2. \A g \in late'[d] : g \in late[d] \/ (d = e /\ g = f)
          BY <3>1, <4>1
      <4> QED
          BY <3>2, <3>4, <4>2 DEF LateMoves
    <3> QED
        BY <2>7, <3>5, <3>6 DEF Reads, WireMoves, DataMoves
  <2>8. ASSUME NEW e \in Ends, NEW f \in late[e], LateUpdate(e, f)
        PROVE  WireMoves(d) /\ CtrlMoves(d) /\ DataMoves(d) /\ LateMoves(d)
    <3>1. f \in Frames /\ f.cmd # "PSH" /\ late \in [Ends -> SUBSET Frames]
        BY DEF IInv, OrderInv, TypeOK, QueueTypes, Sources
    <3>2. Queues(e, f) /\ late' = [late EXCEPT ![e] = @ \ {f}]
        BY <2>8, Sending DEF LateUpdate, IInv, TypeOK
    <3>3. CtrlMoves(d)
        BY <2>4, <3>1, <3>2
    <3>4. LateMoves(d)
        BY <3>1, <3>2 DEF LateMoves
    <3> QED
        BY <2>8, <3>3, <3>4 DEF LateUpdate, WireMoves, DataMoves
  <2>9. ASSUME NEW e \in Ends, NEW s \in Sids, Writes(e, s)
        PROVE  WireMoves(d) /\ CtrlMoves(d) /\ DataMoves(d) /\ LateMoves(d)
    <3>0. PICK f : f = Frame("PSH", s, written[e][s] + 1)
        OBVIOUS
    <3>5. /\ \A c \in Ends : c # e => ctrl'[c] = ctrl[c] /\ data'[c] = data[c]
          /\ Opener(s) = e => data'[e] = Append(data[e], f) /\ ctrl'[e] = ctrl[e]
          /\ Opener(s) # e => ctrl'[e] = Append(ctrl[e], f) /\ data'[e] = data[e]
          /\ st[e][s] = "open" /\ UNCHANGED <<wire, late, st>> /\ f \in Frames
        BY <2>9, <3>0, WritesAt, ZenonT(60)
    <3>1. f \in Frames /\ f.cmd = "PSH" /\ f.sid = s
        BY <3>0, <3>5 DEF Frame
    <3>2. st'[e][s] = "open" /\ UNCHANGED <<wire, late>>
        BY <3>5
    <3>3. Made(e, f)'
        BY <3>1, <3>2 DEF Made
    <3>4. CtrlMoves(d) /\ DataMoves(d)
      <4>1. CASE d # e
          BY <3>5, <4>1 DEF CtrlMoves, DataMoves
      <4>2. CASE d = e /\ Opener(s) = e
          BY <3>1, <3>3, <3>5, <4>2 DEF CtrlMoves, DataMoves
      <4>3. CASE d = e /\ Opener(s) # e
          BY <3>1, <3>3, <3>5, <4>3 DEF CtrlMoves, DataMoves
      <4> QED
          BY <4>1, <4>2, <4>3
    <3> QED
        BY <3>2, <3>4 DEF WireMoves, LateMoves
  <2>10. ASSUME NEW e \in Ends, Puts(e)
         PROVE  WireMoves(d) /\ CtrlMoves(d) /\ DataMoves(d) /\ LateMoves(d)
      BY <2>10, PutsAt DEF WireMoves, CtrlMoves, DataMoves, LateMoves
  <2>11. ASSUME NEW e \in Ends, Stops(e)
         PROVE  WireMoves(d) /\ CtrlMoves(d) /\ DataMoves(d) /\ LateMoves(d)
      BY <2>11, StopsAt DEF WireMoves, CtrlMoves, DataMoves, LateMoves
  <2>12. ASSUME NEW e \in Ends, Takes(e)
         PROVE  WireMoves(d) /\ CtrlMoves(d) /\ DataMoves(d) /\ LateMoves(d)
    <3>1. wire'[d] = wire[d] \/ (wire[d] # <<>> /\ wire'[d] = Tail(wire[d]))
      <4>1. wire'[Peer(e)] = Tail(wire[Peer(e)]) /\ wire'[e] = wire[e] /\ wire[Peer(e)] # <<>>
          BY <2>12, TakesAt DEF Takes
      <4>2. d = e \/ d = Peer(e)
          BY Ending
      <4> QED
          BY <4>1, <4>2
    <3> QED
        BY <2>12, <3>1 DEF Takes, WireMoves, CtrlMoves, DataMoves, LateMoves
  <2>13. ASSUME NEW e \in Ends, Receives(e)
         PROVE  Takes(e) \/ UNCHANGED <<wire, queues>>
      BY <2>13 DEF Receives, TakesSyn, TakesFin, TakesUnit, TakesRest, Unblocks, Loops
  <2>14. ASSUME NEW e \in Ends,
                \/ Accept(e)
                \/ \E s \in Sids : Waits(e, s) \/ ReadEof(e, s) \/ DropStream(e, s)
         PROVE  UNCHANGED <<wire, queues>>
      BY <2>14 DEF Accept, Waits, ReadEof, DropStream
  <2> QED
      BY <2>1, <2>2, <2>3, <2>5, <2>6, <2>7, <2>8, <2>9, <2>10, <2>11, <2>12, <2>13, <2>14
         DEF Moves
<1> SUFFICES ASSUME NEW d \in Ends
             PROVE  /\ \A f \in Range(wire'[d]) : Made(d, f)'
                    /\ \A f \in Range(ctrl'[d]) : Made(d, f)' /\ (f.cmd = "PSH" => Opener(f.sid) # d)
                    /\ \A f \in Range(data'[d]) :
                          Made(d, f)' /\ f.cmd = "PSH" /\ Opener(f.sid) = d
                    /\ \A f \in late'[d] : Made(d, f)' /\ f.cmd = "UPD"
    BY DEF Sources
<1>1. /\ \A f \in Range(wire[d]) : Made(d, f)
      /\ \A f \in Range(ctrl[d]) : Made(d, f) /\ (f.cmd = "PSH" => Opener(f.sid) # d)
      /\ \A f \in Range(data[d]) : Made(d, f) /\ f.cmd = "PSH" /\ Opener(f.sid) = d
      /\ \A f \in late[d] : Made(d, f) /\ f.cmd = "UPD"
    BY DEF OrderInv, Sources
<1>2. wire[d] \in Seq(Frames) /\ ctrl[d] \in Seq(Frames) /\ data[d] \in Seq(Frames)
    BY Channels DEF IInv, TypeOK
<1>3. /\ Range(wire[d]) \subseteq Frames /\ Range(ctrl[d]) \subseteq Frames
      /\ Range(data[d]) \subseteq Frames /\ late[d] \subseteq Frames
  <2>1. \A q \in Seq(Frames) : Range(q) \subseteq Frames
      BY SMT DEF Range
  <2>2. late[d] \subseteq Frames
      BY DEF IInv, TypeOK, QueueTypes
  <2> QED
      BY <1>2, <2>1, <2>2
<1>4. /\ \A f \in Range(wire[d]) : Made(d, f)'
      /\ \A f \in Range(ctrl[d]) : Made(d, f)'
      /\ \A f \in Range(data[d]) : Made(d, f)'
      /\ \A f \in late[d] : Made(d, f)'
    BY <1>1, <1>3, <1>StillMade
<1>5. NoFrame \in Frames /\ Made(d, NoFrame)'
    BY Framed, Constants DEF Made, NoFrame, Frame
<1>6. \A f \in Range(wire'[d]) : Made(d, f)'
  <2>1. \A f \in Range(wire'[d]) :
          f \in Range(wire[d]) \/ f \in Range(ctrl[d]) \/ f \in Range(data[d]) \/ f = NoFrame
    <3>1. CASE wire'[d] = wire[d] \/ wire'[d] = <<>>
        BY <3>1, RangeEmpty
    <3>2. CASE wire[d] # <<>> /\ wire'[d] = Tail(wire[d])
        BY <1>2, <3>2, RangeTailed
    <3>3. ASSUME NEW f \in Frames, wire'[d] = Append(wire[d], f),
                 \/ ctrl[d] # <<>> /\ f = Head(ctrl[d])
                 \/ data[d] # <<>> /\ f = Head(data[d])
                 \/ f = NoFrame
          PROVE  \A g \in Range(wire'[d]) :
                   g \in Range(wire[d]) \/ g \in Range(ctrl[d]) \/ g \in Range(data[d]) \/ g = NoFrame
      <4>1. f \in Range(ctrl[d]) \/ f \in Range(data[d]) \/ f = NoFrame
          BY <1>2, <3>3, RangeTailed
      <4>2. \A g \in Range(wire'[d]) : g \in Range(wire[d]) \/ g = f
          BY <1>2, <3>3, RangeAppended, SMT
      <4> QED
          BY <4>1, <4>2
    <3> QED
        BY <3>1, <3>2, <3>3, <1>Channelled DEF WireMoves
  <2> QED
      BY <1>4, <1>5, <2>1
<1>7. \A f \in Range(ctrl'[d]) : Made(d, f)' /\ (f.cmd = "PSH" => Opener(f.sid) # d)
  <2>1. CASE ctrl'[d] = ctrl[d] \/ ctrl'[d] = <<>>
      BY <1>1, <1>4, <2>1, RangeEmpty
  <2>2. CASE ctrl[d] # <<>> /\ ctrl'[d] = Tail(ctrl[d])
      BY <1>1, <1>2, <1>4, <2>2, RangeTailed
  <2>3. ASSUME NEW f \in Frames, ctrl'[d] = Append(ctrl[d], f), Made(d, f)' \/ f \in late[d],
               f.cmd = "PSH" => Opener(f.sid) # d
        PROVE  \A g \in Range(ctrl'[d]) : Made(d, g)' /\ (g.cmd = "PSH" => Opener(g.sid) # d)
    <3>1. \A g \in Range(ctrl'[d]) : g \in Range(ctrl[d]) \/ g = f
        BY <1>2, <2>3, RangeAppended, SMT
    <3> QED
        BY <1>1, <1>4, <2>3, <3>1
  <2> QED
      BY <2>1, <2>2, <2>3, <1>Channelled DEF CtrlMoves
<1>8. \A f \in Range(data'[d]) : Made(d, f)' /\ f.cmd = "PSH" /\ Opener(f.sid) = d
  <2>1. CASE data'[d] = data[d] \/ data'[d] = <<>>
      BY <1>1, <1>4, <2>1, RangeEmpty
  <2>2. CASE data[d] # <<>> /\ data'[d] = Tail(data[d])
      BY <1>1, <1>2, <1>4, <2>2, RangeTailed, ZenonT(60)
  <2>3. ASSUME NEW f \in Frames, data'[d] = Append(data[d], f), Made(d, f)',
               f.cmd = "PSH" /\ Opener(f.sid) = d
        PROVE  \A g \in Range(data'[d]) : Made(d, g)' /\ g.cmd = "PSH" /\ Opener(g.sid) = d
    <3>1. \A g \in Range(data'[d]) : g \in Range(data[d]) \/ g = f
        BY <1>2, <2>3, RangeAppended, SMT
    <3> QED
        BY <1>1, <1>4, <2>3, <3>1
  <2> QED
      BY <2>1, <2>2, <2>3, <1>Channelled DEF DataMoves
<1>9. \A f \in late'[d] : Made(d, f)' /\ f.cmd = "UPD"
    BY <1>1, <1>4, <1>Channelled DEF LateMoves
<1> QED
    BY <1>6, <1>7, <1>8, <1>9

-----------------------------------------------------------------------------
(* SYN comes first.                                                        *)

\* Has, after a frame joins a queue.
LEMMA HasAppend ==
  ASSUME NEW q \in Seq(Frames), NEW f \in Frames, NEW c, NEW s
  PROVE  Has(Append(q, f), c, s) <=> Has(q, c, s) \/ (f.cmd = c /\ f.sid = s)
<1>1. Range(Append(q, f)) = Range(q) \cup {f}
    BY RangeAppended
<1> QED
    BY <1>1 DEF Has

\* Has, after the head leaves a queue.
LEMMA HasTail ==
  ASSUME NEW q \in Seq(Frames), q # <<>>, NEW c, NEW s
  PROVE  Has(q, c, s) <=> Has(Tail(q), c, s) \/ (Head(q).cmd = c /\ Head(q).sid = s)
BY RangeTailed DEF Has

\* An empty queue has no frame.
LEMMA HasEmpty == \A c, s : ~Has(<<>>, c, s)
BY RangeEmpty DEF Has

\* Frames of kind c stay before those of kind d when a frame joins.
LEMMA BeforeAppend ==
  ASSUME NEW q \in Seq(Frames), NEW f \in Frames, NEW c, NEW d, NEW s, c # d,
         Before(q, c, d, s), f.cmd = c /\ f.sid = s => ~Has(q, d, s)
  PROVE  Before(Append(q, f), c, d, s)
<1> DEFINE r == Append(q, f)
<1> SUFFICES ASSUME NEW i \in DOMAIN r, NEW j \in DOMAIN r,
                    r[i].cmd = c, r[j].cmd = d, r[i].sid = s, r[j].sid = s
             PROVE  i < j
    BY DEF Before
<1>1. \A k \in DOMAIN r : (k \in DOMAIN q /\ r[k] = q[k]) \/ (k = Len(q) + 1 /\ r[k] = f)
    BY Joined
<1>2. CASE i \in DOMAIN q /\ j \in DOMAIN q /\ r[i] = q[i] /\ r[j] = q[j]
    BY <1>2 DEF Before
<1>3. CASE i = Len(q) + 1 /\ r[i] = f /\ j \in DOMAIN q /\ r[j] = q[j]
    BY <1>3 DEF Has, Range
<1>4. CASE i \in DOMAIN q /\ j = Len(q) + 1
    BY <1>4, AppendIs, SMT
<1>5. CASE r[i] = f /\ r[j] = f
    BY <1>5
<1> QED
    BY <1>1, <1>2, <1>3, <1>4, <1>5

\* A stream still has one SYN in a queue when a frame joins that is no second one.
LEMMA OnceAppend ==
  ASSUME NEW q \in Seq(Frames), NEW f \in Frames, NEW s, Once(q, s),
         f.cmd = "SYN" /\ f.sid = s => ~Has(q, "SYN", s)
  PROVE  Once(Append(q, f), s)
<1> DEFINE r == Append(q, f)
<1> SUFFICES ASSUME NEW i \in DOMAIN r, NEW j \in DOMAIN r,
                    r[i].cmd = "SYN", r[j].cmd = "SYN", r[i].sid = s, r[j].sid = s
             PROVE  i = j
    BY DEF Once
<1>1. \A k \in DOMAIN r : (k \in DOMAIN q /\ r[k] = q[k]) \/ (k = Len(q) + 1 /\ r[k] = f)
    BY Joined
<1>2. CASE i \in DOMAIN q /\ j \in DOMAIN q /\ r[i] = q[i] /\ r[j] = q[j]
    BY <1>2 DEF Once
<1>3. CASE r[i] = f /\ j \in DOMAIN q /\ r[j] = q[j]
    BY <1>3 DEF Has, Range
<1>4. CASE r[j] = f /\ i \in DOMAIN q /\ r[i] = q[i]
    BY <1>4 DEF Has, Range
<1> QED
    BY <1>1, <1>2, <1>3, <1>4, SMT

\* A stream has no SYN left in a queue once its SYN has gone.
LEMMA OnceTail ==
  ASSUME NEW q \in Seq(Frames), q # <<>>, NEW s, Once(q, s)
  PROVE  /\ Once(Tail(q), s)
         /\ Head(q).cmd = "SYN" /\ Head(q).sid = s => ~Has(Tail(q), "SYN", s)
<1>1. \A i \in DOMAIN Tail(q) :
        i + 1 \in DOMAIN q /\ Tail(q)[i] = q[i + 1] /\ i \in Nat \ {0}
    BY TailIs, SMT
<1>2. Once(Tail(q), s)
    BY <1>1, SMT DEF Once
<1>3. ASSUME Head(q).cmd = "SYN", Head(q).sid = s,
            NEW i \in DOMAIN Tail(q), Tail(q)[i].cmd = "SYN", Tail(q)[i].sid = s
     PROVE  FALSE
    BY <1>1, <1>3, TailIs, SMT DEF Once
<1> QED
    BY <1>2, <1>3 DEF Has, Range

\* An empty queue has no second SYN.
LEMMA OnceEmpty == \A s : Once(<<>>, s)
BY SMT DEF Once

\* Nothing is out of order in an empty queue.
LEMMA BeforeEmpty == \A c, d, s : Before(<<>>, c, d, s)
BY SMT DEF Before

\* They stay so when the head leaves; a head of kind d has none of kind c behind it.
LEMMA BeforeTail ==
  ASSUME NEW q \in Seq(Frames), q # <<>>, NEW c, NEW d, NEW s, Before(q, c, d, s)
  PROVE  /\ Before(Tail(q), c, d, s)
         /\ Head(q).cmd = d /\ Head(q).sid = s => ~Has(q, c, s)
<1>1. \A i \in DOMAIN Tail(q) : i + 1 \in DOMAIN q /\ Tail(q)[i] = q[i + 1] /\ i \in Int
    BY TailIs, SMT
<1>2. Before(Tail(q), c, d, s)
    BY <1>1, SMT DEF Before
<1>3. ASSUME Head(q).cmd = d, Head(q).sid = s, NEW i \in DOMAIN q, q[i].cmd = c, q[i].sid = s
     PROVE  FALSE
    BY <1>3, TailIs, SMT DEF Before
<1> QED
    BY <1>2, <1>3 DEF Has, Range

\* SYN order, when the receive loop takes the head of the wire.
LEMMA SynTaken ==
  ASSUME NEW w \in Seq(Frames), w # <<>>, NEW c, NEW s, NEW x, NEW y, NEW up,
         SynOrder(w, c, s, x, y, up)
  PROVE  /\ Head(w).cmd = "SYN" /\ Head(w).sid = s /\ x # "none" =>
              SynOrder(Tail(w), c, s, x, "queued", up)
         /\ ~(Head(w).cmd = "SYN" /\ Head(w).sid = s) => SynOrder(Tail(w), c, s, x, y, up)
         /\ Head(w).cmd = "PSH" /\ Head(w).sid = s => y # "none"
<1>1. /\ Has(w, "SYN", s) <=> Has(Tail(w), "SYN", s) \/ (Head(w).cmd = "SYN" /\ Head(w).sid = s)
      /\ Has(w, "PSH", s) <=> Has(Tail(w), "PSH", s) \/ (Head(w).cmd = "PSH" /\ Head(w).sid = s)
    BY HasTail
<1>2. /\ Once(Tail(w), s) /\ Before(Tail(w), "SYN", "PSH", s)
      /\ Head(w).cmd = "SYN" /\ Head(w).sid = s => ~Has(Tail(w), "SYN", s)
      /\ Head(w).cmd = "PSH" /\ Head(w).sid = s => ~Has(w, "SYN", s)
    BY OnceTail, BeforeTail DEF SynOrder
<1>3. Head(w).cmd = "PSH" /\ Head(w).sid = s => y # "none"
    BY <1>1, <1>2 DEF SynOrder
<1> QED
    BY <1>1, <1>2, <1>3 DEF SynOrder

\* Every stream has an opener.
LEMMA OpenerIs == \A s \in Sids : Opener(s) \in Ends
BY DEF Opener, Ends

\* open_stream takes a new identifier and queues its SYN.
LEMMA FirstSyn ==
  ASSUME IInv, OrderInv, NEW e \in Ends, OpenStream(e)
  PROVE  /\ nextId[e] \in Sids /\ Opener(nextId[e]) = e /\ st[e][nextId[e]] = "none"
         /\ Handled(e, nextId[e], "open") /\ Frame("SYN", nextId[e], 0) \in Frames
         /\ Queues(e, Frame("SYN", nextId[e], 0))
<1>1. nextId[e] \in Sids /\ Frame("SYN", nextId[e], 0) \in Frames
    BY Sendable DEF OpenStream
<1>5. nextId[e] \in Nat
    BY <1>1, Constants
<1>2. nextId[e] >= nextId[e]
    BY <1>5, SMT
<1>3. Opener(nextId[e]) = e /\ st[e][nextId[e]] = "none"
    BY <1>1, <1>2 DEF OrderInv, Handles, Ids
<1>4. Handled(e, nextId[e], "open")
    BY <1>1, Handling DEF OpenStream
<1> QED
    BY <1>1, <1>3, <1>4, Sending DEF OpenStream, IInv, TypeOK

\* A step keeps SynFirst: no data of a stream overtake its SYN.
LEMMA SynStep ==
  ASSUME IInv, OrderInv, Links \/ Rests \/ \E e \in Ends : Moves(e)
  PROVE  SynFirst'
<1>SynQueued. ASSUME NEW w \in Seq(Frames), NEW c \in Seq(Frames), NEW s, NEW x, NEW y, NEW up,
                     SynOrder(w, c, s, x, y, up), NEW f \in Frames,
                     ~(f.cmd = "SYN" /\ f.sid = s)
              PROVE  SynOrder(w, Append(c, f), s, x, y, up)
  <2> USE <1>SynQueued
  <2>1. Has(Append(c, f), "SYN", s) <=> Has(c, "SYN", s)
      BY HasAppend
  <2>2. Once(Append(c, f), s)
      BY OnceAppend DEF SynOrder
  <2> QED
      BY <2>1, <2>2 DEF SynOrder
<1>SynSent. ASSUME NEW w \in Seq(Frames), NEW c \in Seq(Frames), NEW s, NEW y, NEW up,
                   SynOrder(w, c, s, "none", y, up), NEW f \in Frames, f.cmd = "SYN", f.sid = s,
                   ~Has(w, "SYN", s), ~Has(w, "PSH", s), ~Has(c, "SYN", s)
            PROVE  /\ SynOrder(w, Append(c, f), s, "open", y, up)
                   /\ SynOrder(w, c, s, "open", y, FALSE)
  <2> USE <1>SynSent
  <2>1. Has(Append(c, f), "SYN", s) /\ y = "none"
      BY HasAppend DEF SynOrder
  <2>2. Once(Append(c, f), s)
      BY OnceAppend DEF SynOrder
  <2> QED
      BY <2>1, <2>2 DEF SynOrder
\* Another frame passes.
<1>SynPass. ASSUME NEW w \in Seq(Frames), NEW c, NEW s, NEW x, NEW y, NEW up,
                   SynOrder(w, c, s, x, y, up), NEW f \in Frames, ~(f.cmd = "SYN" /\ f.sid = s),
                   ~(f.cmd = "PSH" /\ f.sid = s)
            PROVE  SynOrder(Append(w, f), c, s, x, y, up)
  <2> USE <1>SynPass
  <2>1. /\ Has(Append(w, f), "SYN", s) <=> Has(w, "SYN", s)
        /\ Has(Append(w, f), "PSH", s) <=> Has(w, "PSH", s)
      BY HasAppend
  <2>2. "SYN" # "PSH"
      OBVIOUS
  <2>3. Once(Append(w, f), s) /\ Before(Append(w, f), "SYN", "PSH", s)
      BY <2>2, OnceAppend, BeforeAppend DEF SynOrder
  <2> QED
      BY <2>1, <2>3 DEF SynOrder
<1>SynPut. ASSUME NEW w \in Seq(Frames), NEW c \in Seq(Frames), c # <<>>, NEW s, NEW x, NEW y,
                  NEW up, SynOrder(w, c, s, x, y, up), ~(Head(c).cmd = "PSH" /\ Head(c).sid = s)
           PROVE  SynOrder(Append(w, Head(c)), Tail(c), s, x, y, up)
  <2> USE <1>SynPut
  <2>1. Head(c) \in Frames
      BY TailIs
  <2>2. /\ Has(c, "SYN", s) <=> Has(Tail(c), "SYN", s) \/ (Head(c).cmd = "SYN" /\ Head(c).sid = s)
        /\ Once(Tail(c), s)
        /\ Head(c).cmd = "SYN" /\ Head(c).sid = s => ~Has(Tail(c), "SYN", s)
      BY HasTail, OnceTail DEF SynOrder
  <2>3. /\ Has(Append(w, Head(c)), "SYN", s) <=>
              Has(w, "SYN", s) \/ (Head(c).cmd = "SYN" /\ Head(c).sid = s)
        /\ Has(Append(w, Head(c)), "PSH", s) <=> Has(w, "PSH", s)
      BY <2>1, HasAppend
  <2>4. "SYN" # "PSH"
      OBVIOUS
  <2>5. /\ Once(Append(w, Head(c)), s) /\ Before(Append(w, Head(c)), "SYN", "PSH", s)
      BY <2>1, <2>2, <2>4, OnceAppend, BeforeAppend DEF SynOrder
  <2> QED
      BY <2>2, <2>3, <2>5 DEF SynOrder
\* Data follow when the queue is empty.
<1>SynData. ASSUME NEW w \in Seq(Frames), NEW s, NEW x, NEW y, NEW up, x # "none", up,
                   SynOrder(w, <<>>, s, x, y, up), NEW f \in Frames, f.cmd = "PSH", f.sid = s
            PROVE  SynOrder(Append(w, f), <<>>, s, x, y, up)
  <2> USE <1>SynData
  <2>1. ~(f.cmd = "SYN" /\ f.sid = s) /\ "SYN" # "PSH"
      OBVIOUS
  <2>2. /\ Has(Append(w, f), "SYN", s) <=> Has(w, "SYN", s)
        /\ ~Has(<<>>, "SYN", s)
      BY <2>1, HasAppend, HasEmpty
  <2>3. Once(Append(w, f), s) /\ Before(Append(w, f), "SYN", "PSH", s)
      BY <2>1, OnceAppend, BeforeAppend DEF SynOrder
  <2> QED
      BY <2>2, <2>3 DEF SynOrder
\* The write loop or the transport ends.
<1>SynEnds. ASSUME NEW w, NEW c, NEW s, NEW x, NEW y, NEW up, SynOrder(w, c, s, x, y, up)
            PROVE  /\ SynOrder(w, <<>>, s, x, y, FALSE) /\ SynOrder(<<>>, c, s, x, y, FALSE)
                   /\ SynOrder(w, c, s, x, y, FALSE)
  BY <1>SynEnds, HasEmpty, OnceEmpty, BeforeEmpty DEF SynOrder
<1> SUFFICES ASSUME NEW s \in Sids, NEW d \in Ends, d = Opener(s)
             PROVE  SynOrder(wire'[d], ctrl'[d], s, st'[d][s], st'[Peer(d)][s], Up(d)')
    BY OpenerIs DEF SynFirst
<1>0. SynOrder(wire[d], ctrl[d], s, st[d][s], st[Peer(d)][s], Up(d))
    BY DEF OrderInv, SynFirst
<1>1. wire[d] \in Seq(Frames) /\ ctrl[d] \in Seq(Frames) /\ data[d] \in Seq(Frames)
    BY Channels DEF IInv, TypeOK
<1>2. PICK up \in BOOLEAN : up = Up(d)
    BY DEF Up
<1>3. PICK up2 \in BOOLEAN : up2 = Up(d)'
    BY DEF Up
<1>4. SynOrder(wire[d], ctrl[d], s, st[d][s], st[Peer(d)][s], up)
    BY <1>0, <1>2 DEF SynOrder
<1>5. SUFFICES SynOrder(wire'[d], ctrl'[d], s, st'[d][s], st'[Peer(d)][s], up2)
    BY <1>3, <1>5 DEF SynOrder
<1> DEFINE H == SynOrder(wire'[d], ctrl'[d], s, st'[d][s], st'[Peer(d)][s], up2)
<1>6. writer'[d] = writer[d] /\ link' = link => up2 = up
    BY <1>2, <1>3 DEF Up
<1>22. ASSUME NEW w, NEW c, NEW x, NEW y, wire'[d] = w, ctrl'[d] = c,
              \/ SynOrder(w, c, s, x, y, up) /\ (up2 => up)
              \/ SynOrder(w, c, s, x, y, FALSE) /\ ~up2,
              st'[d][s] = "none" <=> x = "none", st'[Peer(d)][s] = "none" <=> y = "none"
       PROVE  H
  <2>1. SynOrder(w, c, s, st'[d][s], st'[Peer(d)][s], up2)
      BY <1>22 DEF SynOrder
  <2> QED
      BY <1>22, <2>1
<1>7. ASSUME wire'[d] = wire[d], ctrl'[d] = ctrl[d], writer'[d] = writer[d], UNCHANGED link,
             st'[d][s] = "none" <=> st[d][s] = "none",
             st'[Peer(d)][s] = "none" <=> st[Peer(d)][s] = "none"
      PROVE  H
  <2>1. up2 => up
      BY <1>6, <1>7
  <2>2. SynOrder(wire[d], ctrl[d], s, st'[d][s], st'[Peer(d)][s], up2)
      BY <1>4, <1>7, <2>1 DEF SynOrder
  <2> QED
      BY <1>7, <2>2
<1>8. CASE Links
  <2>1. up2 => up
      BY <1>2, <1>3, <1>8 DEF Links, Up
  <2>2. wire'[d] = wire[d] \/ (wire'[d] = <<>> /\ ~up2)
    <3>1. wire'[d] = wire[d] \/ (wire'[d] = <<>> /\ link' = "broken")
        BY <1>8 DEF Links
    <3> QED
        BY <1>3, <3>1 DEF Up
  <2>3. ctrl'[d] = ctrl[d] /\ UNCHANGED st
      BY <1>8 DEF Links
  <2>4. SynOrder(<<>>, ctrl[d], s, st[d][s], st[Peer(d)][s], FALSE)
      BY <1>4, <1>SynEnds
  <2>5. st'[d][s] = st[d][s] /\ st'[Peer(d)][s] = st[Peer(d)][s]
      BY <2>3
  <2> QED
    <3>1. CASE wire'[d] = wire[d]
      <4>1. SynOrder(wire[d], ctrl[d], s, st[d][s], st[Peer(d)][s], up2)
          BY <1>4, <2>1 DEF SynOrder
      <4> QED
          BY <2>3, <2>5, <3>1, <4>1
    <3>2. CASE wire'[d] = <<>> /\ ~up2
        BY <1>22, <2>3, <2>4, <2>5, <3>2
    <3> QED
        BY <2>2, <3>1, <3>2
<1>9. CASE Rests
    BY <1>7, <1>9 DEF Rests
<1>10. ASSUME NEW e \in Ends, \/ Unblocks(e) \/ Loops(e)
                              \/ \E t \in Sids : Waits(e, t) \/ ReadEof(e, t)
       PROVE  H
    BY <1>7, <1>10 DEF Unblocks, Loops, Waits, ReadEof
<1>11. ASSUME NEW e \in Ends, NEW t \in Sids, NEW v \in {"open", "dropped"}, Handled(e, t, v),
              st[e][t] # "none", UNCHANGED <<wire, ctrl, writer, link>>
       PROVE  H
  <2>1. /\ st'[d][s] = "none" <=> st[d][s] = "none"
        /\ st'[Peer(d)][s] = "none" <=> st[Peer(d)][s] = "none"
      BY <1>11, Ending, ZenonT(60) DEF Handled
  <2> QED
      BY <1>7, <1>11, <2>1
<1>12. ASSUME NEW e \in Ends, Accept(e)
       PROVE  H
  <2>1. /\ Head(backlog[e]) \in Sids /\ Head(backlog[e]) = backlog[e][1] /\ backlog[e] # <<>>
        /\ 1 \in DOMAIN backlog[e]
      BY <1>12, SMT DEF Accept, IInv, TypeOK, RegistryTypes, Bounded
  <2>2. st[e][Head(backlog[e])] = "queued"
      BY <2>1, ZenonT(60) DEF OrderInv, Handles, Queued
  <2>3. Handled(e, Head(backlog[e]), "open") /\ UNCHANGED <<wire, ctrl, writer, link>>
      BY <1>12, <2>1, Handling DEF Accept
  <2>4. st[e][Head(backlog[e])] # "none" /\ "open" \in {"open", "dropped"}
      BY <2>2
  <2> QED
      BY <1>11, <2>1, <2>3, <2>4
<1>13. ASSUME NEW e \in Ends, NEW t \in Sids, DropStream(e, t)
       PROVE  H
  <2>1. Handled(e, t, "dropped") /\ UNCHANGED <<wire, ctrl, writer, link>> /\ st[e][t] = "open"
      BY <1>13, Handling DEF DropStream
  <2>2. st[e][t] # "none" /\ "dropped" \in {"open", "dropped"}
      BY <2>1
  <2> QED
      BY <1>11, <2>1, <2>2
<1>14. ASSUME NEW e \in Ends, NEW f \in Frames, f.cmd # "SYN",
              \/ Queues(e, f) \/ ctrl'[e] = Append(ctrl[e], f) \/ ctrl'[e] = ctrl[e],
              \A c \in Ends : c # e => ctrl'[c] = ctrl[c],
              UNCHANGED <<wire, st, writer, link>>
       PROVE  H
  <2>1. ctrl'[d] = ctrl[d] \/ ctrl'[d] = Append(ctrl[d], f)
      BY <1>14, QueuesAt
  <2>2. SynOrder(wire[d], Append(ctrl[d], f), s, st[d][s], st[Peer(d)][s], up)
      BY <1>1, <1>4, <1>14, <1>SynQueued
  <2>3. up2 = up
      BY <1>6, <1>14
  <2> QED
      BY <1>4, <1>14, <2>1, <2>2, <2>3
<1>15. ASSUME NEW e \in Ends, NEW t \in Sids, CloseStream(e, t) \/ Reads(e, t) \/ Writes(e, t)
       PROVE  H
  <2>1. ASSUME NEW f \in Frames, f.cmd # "SYN", Queues(e, f), UNCHANGED <<wire, st, writer, link>>
        PROVE  H
      BY <1>14, <2>1, QueuesAt
  <2>2. CASE CloseStream(e, t)
    <3>1. Frame("FIN", t, 0) \in Frames /\ Frame("FIN", t, 0).cmd # "SYN"
        BY Framed DEF Frame
    <3>2. Queues(e, Frame("FIN", t, 0)) /\ UNCHANGED <<wire, st, writer, link>>
        BY <2>2, Sending DEF CloseStream, IInv, TypeOK
    <3> QED
        BY <2>1, <3>1, <3>2
  <2>3. CASE Reads(e, t)
    <3>0. numRead[e][t] + 1 \in Nat
        BY SMT DEF IInv, TypeOK, CountTypes, PerStream
    <3>1. PICK f : f = Frame("UPD", t, numRead[e][t] + 1)
        OBVIOUS
    <3>3. f \in Frames /\ f.cmd # "SYN"
        BY <3>0, <3>1, Framed DEF Frame
    <3>2. (Queues(e, f) \/ UNCHANGED ctrl) /\ UNCHANGED <<wire, st, writer, link>>
        BY <2>3, <3>1 DEF Reads
    <3> QED
        BY <1>7, <2>1, <3>2, <3>3
  <2>4. CASE Writes(e, t)
    <3>0. PICK f : f = Frame("PSH", t, written[e][t] + 1)
        OBVIOUS
    <3>4. ctrl'[e] = Append(ctrl[e], f) \/ ctrl'[e] = ctrl[e]
      <4>1. CASE Opener(t) = e
          BY <2>4, <4>1, WritesAt, ZenonT(60)
      <4>2. CASE Opener(t) # e
          BY <2>4, <3>0, <4>2, WritesAt, ZenonT(60)
      <4> QED
          BY <4>1, <4>2
    <3>5. f \in Frames /\ \A c \in Ends : c # e => ctrl'[c] = ctrl[c]
      <4>1. Frame("PSH", t, written[e][t] + 1) \in Frames
          BY <2>4, WritesAt, ZenonT(60)
      <4>2. ASSUME NEW c \in Ends, c # e
            PROVE  ctrl'[c] = ctrl[c]
          BY <2>4, <4>2, WritesAt, SMT
      <4> QED
          BY <3>0, <4>1, <4>2
    <3>6. UNCHANGED <<wire, st, writer, link>>
        BY <2>4, WritesAt, ZenonT(60)
    <3>1. /\ f \in Frames /\ UNCHANGED <<wire, st, writer, link>>
          /\ ctrl'[e] = Append(ctrl[e], f) \/ ctrl'[e] = ctrl[e]
          /\ \A c \in Ends : c # e => ctrl'[c] = ctrl[c]
        BY <3>4, <3>5, <3>6
    <3>2. f.cmd # "SYN"
        BY <3>0 DEF Frame
    <3> QED
        BY <1>14, <3>1, <3>2
  <2> QED
      BY <1>15, <2>2, <2>3, <2>4
<1>16. ASSUME NEW e \in Ends, NEW f \in late[e], LateUpdate(e, f)
       PROVE  H
  <2>1. f \in Frames /\ f.cmd # "SYN"
      BY DEF IInv, OrderInv, TypeOK, QueueTypes, Sources
  <2>2. Queues(e, f) /\ UNCHANGED <<wire, st, writer, link>>
      BY <1>16, Sending DEF LateUpdate, IInv, TypeOK
  <2> QED
      BY <1>14, <2>1, <2>2, QueuesAt
<1>17. ASSUME NEW e \in Ends, OpenStream(e)
       PROVE  H
  <2>0. PICK f : f = Frame("SYN", nextId[e], 0)
      OBVIOUS
  <2>1. /\ nextId[e] \in Sids /\ Opener(nextId[e]) = e /\ st[e][nextId[e]] = "none"
        /\ Handled(e, nextId[e], "open") /\ f \in Frames
        /\ Queues(e, f)
      BY <1>17, <2>0, FirstSyn
  <2>2. UNCHANGED <<wire, writer, link>> /\ up2 = up
      BY <1>6, <1>17 DEF OpenStream
  <2>3. f.cmd = "SYN" /\ f.sid = nextId[e]
      BY <2>0 DEF Frame
  <2>4. st'[Peer(d)][s] = st[Peer(d)][s]
      BY <2>1, Ending, ZenonT(60) DEF Handled
  <2>5. CASE nextId[e] # s
    <3>1. st'[d][s] = st[d][s]
        BY <2>1, <2>5 DEF Handled
    <3>2. ctrl'[d] = ctrl[d] \/ ctrl'[d] = Append(ctrl[d], f)
        BY <2>1, QueuesAt
    <3>3. SynOrder(wire[d], Append(ctrl[d], f), s, st[d][s], st[Peer(d)][s], up)
        BY <1>1, <1>4, <2>1, <2>3, <2>5, <1>SynQueued
    <3> QED
        BY <1>4, <2>2, <2>4, <3>1, <3>2, <3>3
  <2>6. CASE nextId[e] = s
    <3>0. e = d
        BY <2>1, <2>6
    <3>1. e = d /\ st[d][s] = "none" /\ st'[d][s] = "open"
      <4>1. Handled(d, s, "open") /\ st[d][s] = "none"
          BY <2>1, <2>6, <3>0
      <4> QED
          BY <3>0, <4>1 DEF Handled
    <3>2. ~Has(wire[d], "SYN", s) /\ ~Has(wire[d], "PSH", s) /\ ~Has(ctrl[d], "SYN", s)
      <4>1. ASSUME NEW g, Made(d, g), g.sid = s
            PROVE  g.cmd # "SYN" /\ g.cmd # "PSH"
          BY <3>1, <4>1 DEF Made
      <4>2. \A g \in Range(wire[d]) \cup Range(ctrl[d]) : Made(d, g)
          BY DEF OrderInv, Sources
      <4> QED
          BY <4>1, <4>2 DEF Has
    <3>6. SynOrder(wire[d], ctrl[d], s, "none", st[Peer(d)][s], up) /\ f.sid = s
        BY <1>4, <2>3, <2>6, <3>1
    <3>3. /\ SynOrder(wire[d], Append(ctrl[d], f), s, "open", st[Peer(d)][s], up)
          /\ SynOrder(wire[d], ctrl[d], s, "open", st[Peer(d)][s], FALSE)
        BY <1>1, <2>1, <2>3, <3>2, <3>6, <1>SynSent
    <3>4. CASE ctrl'[d] = Append(ctrl[d], f)
        BY <2>2, <2>4, <3>1, <3>3, <3>4
    <3>5. CASE writer[d] = "ended" /\ ctrl'[d] = ctrl[d]
      <4>1. up2 = FALSE
          BY <1>3, <2>2, <3>5 DEF Up
      <4> QED
          BY <2>2, <2>4, <3>1, <3>3, <3>5, <4>1
    <3>7. \/ ctrl'[d] = Append(ctrl[d], f)
          \/ writer[d] = "ended" /\ ctrl'[d] = ctrl[d]
      <4>1. Queues(d, f)
          BY <2>1, <3>1
      <4> QED
          BY <4>1, QueuesAt
    <3> QED
        BY <3>4, <3>5, <3>7
  <2> QED
      BY <2>5, <2>6
<1>18. ASSUME NEW e \in Ends, Stops(e)
       PROVE  H
  <2>1. UNCHANGED <<wire, st, link>>
      BY <1>18, StopsAt
  <2>2. CASE e = d
    <3>1. ctrl'[d] = <<>> /\ writer'[d] = "ended"
        BY <1>18, <2>2, StopsAt
    <3>2. ~up2
        BY <1>3, <3>1 DEF Up
    <3>3. SynOrder(wire[d], <<>>, s, st[d][s], st[Peer(d)][s], FALSE)
        BY <1>4, <1>SynEnds
    <3> QED
        BY <1>22, <2>1, <3>1, <3>2, <3>3
  <2>3. CASE e # d
      BY <1>7, <1>18, <2>1, <2>3, StopsAt
  <2> QED
      BY <2>2, <2>3

<1>19. ASSUME NEW e \in Ends, Puts(e)
       PROVE  H
  <2>1. UNCHANGED <<st, link>>
      BY <1>19, PutsAt
  <2>2. CASE e # d
      BY <1>7, <1>19, <2>1, <2>2, PutsAt
  <2>3. CASE e = d
    <3>1. PICK f \in Frames :
            /\ wire'[d] = Append(wire[d], f)
            /\ \/ ctrl[d] # <<>> /\ f = Head(ctrl[d])
               \/ ctrl[d] = <<>> /\ data[d] # <<>> /\ f = Head(data[d])
               \/ f = NoFrame
            /\ \/ writer'[d] = "ended" /\ ctrl'[d] = <<>>
               \/ /\ ctrl[d] # <<>> /\ f = Head(ctrl[d]) /\ ctrl'[d] = Tail(ctrl[d])
               \/ ctrl'[d] = ctrl[d] /\ (ctrl[d] = <<>> \/ f = NoFrame)
        BY <1>19, <2>3, PutsAt, ZenonT(60)
    <3>2. writer[d] = "running" /\ link # "broken"
        BY <1>19, <2>3, PutsAt
    <3>8. up
        BY <1>2, <3>2 DEF Up
    <3>9. writer'[d] = "ended" => ~up2
        BY <1>3 DEF Up
    <3>3. up /\ (writer'[d] = "ended" => ~up2)
        BY <3>8, <3>9
    <3>4. /\ ctrl[d] # <<>> /\ f = Head(ctrl[d]) =>
                SynOrder(wire'[d], Tail(ctrl[d]), s, st[d][s], st[Peer(d)][s], up)
          /\ ~(ctrl[d] # <<>> /\ f = Head(ctrl[d])) =>
                SynOrder(wire'[d], ctrl[d], s, st[d][s], st[Peer(d)][s], up)
      <4>1. CASE ctrl[d] # <<>> /\ f = Head(ctrl[d])
        <5>1. f \in Range(ctrl[d])
            BY <1>1, <4>1, RangeTailed
        <5>2. ~(f.cmd = "PSH" /\ f.sid = s)
            BY <5>1 DEF OrderInv, Sources
        <5> QED
            BY <1>1, <1>4, <3>1, <4>1, <5>2, <1>SynPut
      <4>2. CASE ctrl[d] = <<>> /\ data[d] # <<>> /\ f = Head(data[d])
        <5>1. f \in Range(data[d])
            BY <1>1, <4>2, RangeTailed
        <5>2. f.cmd = "PSH" /\ st[d][f.sid] # "none"
            BY <5>1 DEF OrderInv, Sources, Made
        <5>3. f.cmd # "SYN"
            BY <5>2
        <5>4. CASE f.sid = s
            BY <1>1, <1>4, <3>1, <3>3, <4>2, <5>2, <5>4, <1>SynData, ZenonT(60)
        <5>5. CASE f.sid # s
            BY <1>1, <1>4, <3>1, <4>2, <5>3, <5>5, <1>SynPass, ZenonT(60)
        <5> QED
            BY <5>4, <5>5
      <4>3. CASE f = NoFrame
        <5>1. f.cmd # "SYN" /\ f.cmd # "PSH"
            BY <4>3 DEF NoFrame, Frame
        <5>2. SynOrder(wire'[d], ctrl[d], s, st[d][s], st[Peer(d)][s], up)
            BY <1>1, <1>4, <3>1, <5>1, <1>SynPass
        <5>3. ctrl[d] # <<>> /\ f = Head(ctrl[d]) =>
                SynOrder(wire'[d], Tail(ctrl[d]), s, st[d][s], st[Peer(d)][s], up)
            BY <4>1
        <5> QED
            BY <5>2, <5>3
      <4> QED
          BY <3>1, <4>1, <4>2, <4>3
    <3>5. CASE writer'[d] = "ended" /\ ctrl'[d] = <<>>
      <4>1. SynOrder(wire'[d], <<>>, s, st[d][s], st[Peer(d)][s], FALSE)
          BY <3>4, <1>SynEnds
      <4>2. up2 = FALSE
          BY <1>3, <3>3, <3>5
      <4> QED
          BY <2>1, <3>5, <4>1, <4>2
    <3>6. CASE ctrl[d] # <<>> /\ f = Head(ctrl[d]) /\ ctrl'[d] = Tail(ctrl[d])
        BY <1>22, <2>1, <3>3, <3>4, <3>6, ZenonT(60)
    <3>7. CASE ctrl'[d] = ctrl[d] /\ (ctrl[d] = <<>> \/ f = NoFrame)
      <4>1. SynOrder(wire'[d], ctrl[d], s, st[d][s], st[Peer(d)][s], up)
        <5>1. CASE f = NoFrame
          <6>1. ~(f.cmd = "SYN" /\ f.sid = s) /\ ~(f.cmd = "PSH" /\ f.sid = s)
              BY <5>1 DEF NoFrame, Frame
          <6> QED
              BY <1>1, <1>4, <3>1, <6>1, <1>SynPass
        <5> QED
            BY <3>4, <3>7, <5>1
      <4> QED
          BY <1>22, <2>1, <3>1, <3>3, <3>7, <4>1
    <3> QED
        BY <3>1, <3>5, <3>6, <3>7
  <2> QED
      BY <2>2, <2>3
<1>20. ASSUME NEW e \in Ends, Takes(e), TakesSyn(e) \/ (UNCHANGED st /\ Head(wire[Peer(e)]).cmd # "SYN")
       PROVE  H
  <2> DEFINE h == Head(wire[Peer(e)])
  <2>1. /\ wire'[Peer(e)] = Tail(wire[Peer(e)]) /\ wire'[e] = wire[e]
        /\ UNCHANGED <<link, writer, ctrl>> /\ wire[Peer(e)] # <<>> /\ up2 = up
      BY <1>6, <1>20, TakesAt DEF Takes
  <2>2. h \in Frames /\ h.sid \in Sids
      BY <2>1, HeadOf
  <2>3. TakesSyn(e) => /\ Handled(e, h.sid, "queued") /\ Opener(h.sid) = Peer(e)
                       /\ h.cmd = "SYN" /\ st[Peer(e)][h.sid] # "none"
    <3>1. TakesSyn(e) => Handled(e, h.sid, "queued")
        BY <2>2, Handling DEF TakesSyn
    <3>2. TakesSyn(e) => h.cmd = "SYN"
        BY DEF TakesSyn
    <3> QED
        BY <2>1, <3>1, <3>2, SynNew
  <2>4. CASE e = d
    <3>1. st'[d][s] = st[d][s] /\ st'[Peer(d)][s] = st[Peer(d)][s]
      <4>1. CASE UNCHANGED st
          BY <4>1
      <4>2. CASE TakesSyn(e)
        <5>1. Handled(d, h.sid, "queued") /\ Opener(h.sid) = Peer(d)
            BY <2>3, <2>4, <4>2
        <5>2. h.sid # s /\ Peer(d) # d
            BY <5>1, Ending
        <5> QED
            BY <5>1, <5>2, Ending DEF Handled
      <4> QED
          BY <1>20, <4>1, <4>2
    <3> QED
        BY <1>7, <2>1, <2>4, <3>1, ZenonT(60)
  <2>5. CASE e = Peer(d)
    <3>0. Peer(e) = d /\ e # d
        BY <2>5, Ending
    <3>1. /\ h.cmd = "SYN" /\ h.sid = s /\ st[d][s] # "none" =>
                SynOrder(Tail(wire[d]), ctrl[d], s, st[d][s], "queued", up)
          /\ ~(h.cmd = "SYN" /\ h.sid = s) =>
                SynOrder(Tail(wire[d]), ctrl[d], s, st[d][s], st[Peer(d)][s], up)
        BY <1>1, <1>4, <2>1, <3>0, SynTaken
    <3>2. CASE TakesSyn(e) /\ h.sid = s
      <4>1. st'[e][s] = "queued" /\ st'[d][s] = st[d][s]
          BY <2>3, <3>0, <3>2 DEF Handled
      <4> QED
          BY <2>1, <2>3, <2>5, <3>0, <3>1, <3>2, <4>1
    <3>3. CASE ~(TakesSyn(e) /\ h.sid = s)
      <4>1. st'[e][s] = st[e][s] /\ st'[d][s] = st[d][s]
          BY <1>20, <2>3, <3>0, <3>3 DEF Handled
      <4>2. ~(h.cmd = "SYN" /\ h.sid = s)
          BY <1>20, <3>3
      <4> QED
          BY <2>1, <2>5, <3>0, <3>1, <4>1, <4>2
    <3> QED
        BY <3>2, <3>3
  <2> QED
      BY <2>4, <2>5, Ending
<1>21. ASSUME NEW e \in Ends, TakesSyn(e) \/ TakesFin(e) \/ TakesUnit(e) \/ TakesRest(e)
       PROVE  H
  <2>1. Takes(e)
      BY <1>21 DEF TakesSyn, TakesFin, TakesUnit, TakesRest
  <2>2. TakesSyn(e) \/ (UNCHANGED st /\ Head(wire[Peer(e)]).cmd # "SYN")
    <3>1. TakesFin(e) => Head(wire[Peer(e)]).cmd # "SYN"
        BY DEF TakesFin
    <3>2. TakesUnit(e) => Head(wire[Peer(e)]).cmd # "SYN"
      <4>1. TakesUnit(e) => Head(wire[Peer(e)]).cmd = "PSH"
          BY DEF TakesUnit
      <4> QED
          BY <4>1
    <3>3. TakesRest(e) => Head(wire[Peer(e)]).cmd # "SYN"
        BY DEF TakesRest
    <3> QED
        BY <1>21, <3>1, <3>2, <3>3 DEF TakesFin, TakesUnit, TakesRest
  <2> QED
      BY <1>20, <2>1, <2>2
<1> QED
    BY <1>8, <1>9, <1>10, <1>12, <1>13, <1>15, <1>16, <1>17, <1>18, <1>19, <1>21
       DEF Moves, Receives

=============================================================================
