---------------------------- MODULE SmuxSession ----------------------------
(***************************************************************************)
(* The stream multiplexer of the Rust gateway (rust/tokilake-smux): two     *)
(* sessions over one transport, each with its receive loop, its write loop  *)
(* and the streams the application reads and writes.                        *)
(*                                                                         *)
(* A unit of data is one write of eight bytes, the size of the payload of a *)
(* window update; units of a stream are numbered, and a token of the        *)
(* receive bucket stands for one.  Both loops test is_closed only between   *)
(* two frames, so a loop that waits for a frame does not see it change.     *)
(***************************************************************************)
EXTENDS Integers, Sequences, Functions

CONSTANTS
    MaxSid, MaxUnits, \* bound the stream ids and the units of a stream
    Setups,           \* version: Config.version of each end; last: bounds the ids
                      \* of streams that are opened; units: bounds what an end writes
                      \* to a stream; rare: bounds how many rare events happen
    QueueCap, InboxCap, BacklogCap, WireCap,   \* capacities of the channels
    InitialWindow, StreamBuffer, ReceiveBuffer \* of flow control, in units

Ends == {"client", "server"}
Sids == 0..MaxSid

ASSUME SmuxAssumption ==
    /\ {MaxSid, MaxUnits} \subseteq Nat
    /\ Setups \subseteq [version : [Ends -> {1, 2}], last : Sids,
                        units : [Ends -> [Sids -> 0..MaxUnits]], rare : Nat]
    /\ {QueueCap, InboxCap, BacklogCap, WireCap} \subseteq Nat \ {0}
    /\ {InitialWindow, StreamBuffer, ReceiveBuffer} \subseteq Nat \ {0}

VARIABLES
    version, link, wire,   \* wire[e]: frames that e has written
    \* Session, per end
    closed,                \* is_closed
    ctrl, data, late,      \* queues of the write loop; updates sent by tasks
    writer, recv, held,    \* the loops; held: the frame that blocks recv_loop
    entry, inbox,          \* streams map; data channel of a stream
    backlog, nextId,
    opening,               \* open() has passed its test of is_closed
    bucket, tokenNotify,   \* receive tokens, bucket_notify
    \* Stream, per end and id
    st, mode,              \* the handle; what its task is doing
    finSent, eof,          \* fin_sent, fin_received
    written, numRead, incr,
    consumed, window, windowNotify, \* StreamShared
    last, units, rare               \* of the setup; rare events still to come

transport == <<version, link, wire>>
loops == <<closed, writer, recv, held>>
queues == <<ctrl, data, late>>
registry == <<entry, inbox, backlog, nextId, opening>>
tokens == <<bucket, tokenNotify>>
handles == <<st, mode, finSent, eof>>
counts == <<written, numRead, incr>>
shared == <<consumed, window, windowNotify>>
setup == <<last, units, rare>>
vars == <<transport, loops, queues, registry, tokens, handles, counts, shared,
          setup>>

Peer(e) == IF e = "client" THEN "server" ELSE "client"
Opener(s) == IF s % 2 = 1 THEN "client" ELSE "server"

Frame(cmd, s, n) == [cmd |-> cmd, sid |-> s, n |-> n]
NoFrame == Frame("NOP", 0, 0)
Frames == [cmd : {"SYN", "FIN", "PSH", "NOP", "UPD"}, sid : Sids, n : Nat]

PerStream(S) == [Ends -> [Sids -> S]]

\* What a channel of capacity n may hold.
Bounded(S, n) == {q \in Seq(S) : Len(q) <= n}

LoopTypes ==
    /\ version \in [Ends -> {1, 2}] /\ link \in {"up", "silent", "broken"}
    /\ closed \in [Ends -> BOOLEAN] /\ writer \in [Ends -> {"running", "ended"}]
    /\ recv \in [Ends -> {"reading", "tokens", "blocked", "ended"}]
    /\ held \in [Ends -> Frames]
    /\ bucket \in [Ends -> Int] /\ tokenNotify \in [Ends -> BOOLEAN]

QueueTypes ==
    /\ wire \in [Ends -> Bounded(Frames, WireCap)]
    /\ ctrl \in [Ends -> Bounded(Frames, QueueCap)]
    /\ data \in [Ends -> Bounded(Frames, QueueCap)]
    /\ late \in [Ends -> SUBSET Frames]

RegistryTypes ==
    /\ entry \in [Ends -> SUBSET Sids]
    /\ inbox \in PerStream(Bounded(Nat, InboxCap))
    /\ backlog \in [Ends -> Bounded(Sids, BacklogCap)]
    /\ nextId \in [Ends -> Nat] /\ opening \in [Ends -> BOOLEAN]

HandleTypes ==
    /\ st \in PerStream({"none", "queued", "open", "dropped"})
    /\ mode \in PerStream({"idle", "writing", "waiting"})
    /\ finSent \in PerStream(BOOLEAN) /\ eof \in PerStream(BOOLEAN)

CountTypes ==
    /\ written \in PerStream(Nat) /\ numRead \in PerStream(Nat)
    /\ incr \in PerStream(Nat) /\ consumed \in PerStream(Nat)
    /\ window \in PerStream(Nat) /\ windowNotify \in PerStream(BOOLEAN)
    /\ last \in Sids /\ units \in PerStream(Nat) /\ rare \in Nat

\* Every variable of the two sessions has its type, and no channel exceeds its
\* capacity.
TypeOK == LoopTypes /\ QueueTypes /\ RegistryTypes /\ HandleTypes /\ CountTypes

Each(x) == [e \in Ends |-> [s \in Sids |-> x]]

\* Session::server and Session::client: both loops run.
Init ==
    /\ \E u \in Setups :
        version = u.version /\ last = u.last /\ units = u.units /\ rare = u.rare
    /\ link = "up" /\ wire = [e \in Ends |-> <<>>]
    /\ closed = [e \in Ends |-> FALSE]
    /\ ctrl = [e \in Ends |-> <<>>] /\ data = [e \in Ends |-> <<>>]
    /\ late = [e \in Ends |-> {}]
    /\ writer = [e \in Ends |-> "running"]
    /\ recv = [e \in Ends |-> "reading"]
    /\ held = [e \in Ends |-> NoFrame]
    /\ entry = [e \in Ends |-> {}] /\ inbox = Each(<<>>)
    /\ backlog = [e \in Ends |-> <<>>]
    /\ nextId = [e \in Ends |-> IF e = "client" THEN 1 ELSE 0]
    /\ opening = [e \in Ends |-> FALSE]
    /\ bucket = [e \in Ends |-> ReceiveBuffer]
    /\ tokenNotify = [e \in Ends |-> FALSE]
    /\ st = Each("none") /\ mode = Each("idle")
    /\ finSent = Each(FALSE) /\ eof = Each(FALSE)
    /\ written = Each(0) /\ numRead = Each(0) /\ incr = Each(0)
    /\ consumed = Each(0) /\ window = Each(InitialWindow)
    /\ windowNotify = Each(FALSE)

\* A fault, or a call that few sessions see.
Rare == rare > 0 /\ rare' = rare - 1 /\ UNCHANGED <<last, units>>
-----------------------------------------------------------------------------
(* Channels to the write loop.                                             *)

\* send of a frame: waits for room, and fails when the write loop has ended and
\* its receivers are gone.
CanSend(q, e) == writer[e] = "ended" \/ Len(q[e]) < QueueCap

Sent(q, e, f) == IF writer[e] = "ended" THEN q ELSE [q EXCEPT ![e] = Append(@, f)]

\* Data of a stream that this end opened goes through the low priority queue;
\* recv_loop gives ctrl_tx for both to the streams it accepts.
DataQueue(e, s) == IF Opener(s) = e THEN data[e] ELSE ctrl[e]

\* Mutant: accepted streams use the low priority queue too.
SendDataLow(e, s, f) ==
    /\ Len(data[e]) < QueueCap
    /\ data' = [data EXCEPT ![e] = Append(@, f)] /\ UNCHANGED ctrl

SendData(e, s, f) ==
    /\ Len(DataQueue(e, s)) < QueueCap
    /\ IF Opener(s) = e
         THEN data' = [data EXCEPT ![e] = Append(@, f)] /\ UNCHANGED ctrl
         ELSE ctrl' = [ctrl EXCEPT ![e] = Append(@, f)] /\ UNCHANGED data

\* recv_loop keeps the streams map locked while the data channel is full.
Locked(e) == recv[e] = "blocked"
-----------------------------------------------------------------------------
(* The application's calls on a session.                                   *)

\* open() tests is_closed ...
Open(e) ==
    /\ ~opening[e] /\ ~closed[e] /\ nextId[e] <= last
    /\ opening' = [opening EXCEPT ![e] = TRUE]
    /\ UNCHANGED <<transport, loops, queues, entry, inbox, backlog, nextId, tokens,
                   handles, counts, shared, setup>>

\* ... and then awaits the lock, enters the stream and sends SYN; a failure of
\* that is ignored.  The caller has no handle before SYN is sent, and the peer knows
\* nothing of the stream, so the entry and SYN are one step.
OpenStream(e) ==
    /\ opening[e] /\ ~Locked(e) /\ CanSend(ctrl, e)
    /\ entry' = [entry EXCEPT ![e] = @ \cup {nextId[e]}]
    /\ ctrl' = Sent(ctrl, e, Frame("SYN", nextId[e], 0))
    /\ st' = [st EXCEPT ![e][nextId[e]] = "open"]
    /\ nextId' = [nextId EXCEPT ![e] = @ + 2]
    /\ opening' = [opening EXCEPT ![e] = FALSE]
    /\ UNCHANGED <<transport, loops, data, late, inbox, backlog, tokens, mode, finSent,
                   eof, counts, shared, setup>>

Accept(e) ==
    /\ backlog[e] # <<>>
    /\ st' = [st EXCEPT ![e][Head(backlog[e])] = "open"]
    /\ backlog' = [backlog EXCEPT ![e] = Tail(@)]
    /\ UNCHANGED <<transport, loops, queues, entry, inbox, nextId, opening, tokens, mode,
                   finSent, eof, counts, shared, setup>>

Close(e) ==
    /\ ~closed[e] /\ Rare
    /\ closed' = [closed EXCEPT ![e] = TRUE]
    /\ tokenNotify' = [tokenNotify EXCEPT ![e] = TRUE]
    /\ UNCHANGED <<transport, writer, recv, held, queues, registry, bucket, handles,
                   counts, shared>>
-----------------------------------------------------------------------------
(* The application's calls on a stream; a handle belongs to one task, which *)
(* does not read while it writes.                                          *)

\* What the peer's window leaves, which only version 2 looks at.
Win(e, s) == window[e][s] - (written[e][s] - consumed[e][s])

\* Mutant: a window that is used up still lets a unit through.
MaySendAtZero(e, s) == version[e] = 1 \/ (~closed[e] /\ Win(e, s) >= 0)

MaySend(e, s) == version[e] = 1 \/ (~closed[e] /\ Win(e, s) > 0)

\* The send of write(): one unit enters the queue.
WriteUnit(e, s) ==
    /\ writer[e] = "running"
    /\ SendData(e, s, Frame("PSH", s, written[e][s] + 1))
    /\ written' = [written EXCEPT ![e][s] = @ + 1]
    /\ mode' = [mode EXCEPT ![e][s] = "idle"]

\* A call of write(), which sends at once or starts to wait: for room in the queue
\* ("writing") or for the window ("waiting").  One that fails at once is no step.
Write(e, s) ==
    /\ st[e][s] = "open" /\ mode[e][s] = "idle" /\ ~finSent[e][s]
    /\ written[e][s] < units[e][s] /\ writer[e] = "running"
    /\ IF MaySend(e, s)
         THEN \/ WriteUnit(e, s)
              \/ /\ Len(DataQueue(e, s)) >= QueueCap
                 /\ mode' = [mode EXCEPT ![e][s] = "writing"]
                 /\ UNCHANGED <<ctrl, data, written>>
         ELSE /\ ~closed[e]
              /\ mode' = [mode EXCEPT ![e][s] = "waiting"]
              /\ UNCHANGED <<ctrl, data, written>>
    /\ UNCHANGED <<transport, loops, late, registry, tokens, st, finSent, eof, numRead,
                   incr, shared, setup>>

\* There is room in the queue; neither the window nor is_closed is tested again.
WriteResumes(e, s) ==
    /\ mode[e][s] = "writing"
    /\ WriteUnit(e, s)
    /\ UNCHANGED <<transport, loops, late, registry, tokens, st, finSent, eof, numRead,
                   incr, shared, setup>>

\* BrokenPipe: the receiver of the queue is gone.
WriteFails(e, s) ==
    /\ mode[e][s] # "idle" /\ writer[e] = "ended"
    /\ mode' = [mode EXCEPT ![e][s] = "idle"]
    /\ UNCHANGED <<transport, loops, queues, registry, tokens, st, finSent, eof, counts,
                   shared, setup>>

\* window_notify: the loop starts again, finds the session closed, or sends, or waits.
WriteWakes(e, s) ==
    /\ mode[e][s] = "waiting" /\ windowNotify[e][s] /\ writer[e] = "running"
    /\ windowNotify' = [windowNotify EXCEPT ![e][s] = FALSE]
    /\ IF MaySend(e, s)
         THEN \/ WriteUnit(e, s)
              \/ /\ Len(DataQueue(e, s)) >= QueueCap
                 /\ mode' = [mode EXCEPT ![e][s] = "writing"]
                 /\ UNCHANGED <<ctrl, data, written>>
         ELSE /\ mode' = [mode EXCEPT ![e][s] = IF closed[e] THEN "idle" ELSE "waiting"]
              /\ UNCHANGED <<ctrl, data, written>>
    /\ UNCHANGED <<transport, loops, late, registry, tokens, st, finSent, eof, numRead, incr,
                   consumed, window, setup>>

\* A close() that is cancelled while it waits for room, with fin_sent set and no FIN
\* sent, is left out.
CloseStream(e, s) ==
    /\ st[e][s] = "open" /\ mode[e][s] = "idle" /\ ~finSent[e][s]
    /\ CanSend(ctrl, e)
    /\ finSent' = [finSent EXCEPT ![e][s] = TRUE]
    /\ ctrl' = Sent(ctrl, e, Frame("FIN", s, 0))
    /\ UNCHANGED <<transport, loops, data, late, registry, tokens, st, mode, eof, counts,
                   shared, setup>>

\* The handle goes, perhaps in the middle of a write, and no FIN is sent.
DropStream(e, s) ==
    /\ st[e][s] = "open" /\ Rare
    /\ st' = [st EXCEPT ![e][s] = "dropped"]
    /\ mode' = [mode EXCEPT ![e][s] = "idle"]
    /\ inbox' = [inbox EXCEPT ![e][s] = <<>>]
    /\ UNCHANGED <<transport, loops, queues, entry, backlog, nextId, opening, tokens,
                   finSent, eof, counts, shared>>

\* consume_tokens sends an update after the first unit and after every half
\* StreamBuffer; when the queue is full a task of its own sends it later.
UpdateDue(e, s) ==
    incr[e][s] + 1 >= StreamBuffer \div 2 \/ numRead[e][s] = 0

Consume_tokens(e, s) ==
    LET f == Frame("UPD", s, numRead[e][s] + 1)
        full == Len(ctrl[e]) >= QueueCap \/ writer[e] = "ended" IN
    IF version[e] = 1
      THEN UNCHANGED <<queues, tokens, incr>>
      ELSE /\ bucket' = [bucket EXCEPT ![e] = @ + 1]
           /\ tokenNotify' = [tokenNotify EXCEPT ![e] = @ \/ bucket[e] <= 0]
           /\ incr' = [incr EXCEPT ![e][s] = IF UpdateDue(e, s) THEN 0 ELSE @ + 1]
           /\ ctrl' = IF UpdateDue(e, s) /\ ~full THEN Sent(ctrl, e, f) ELSE ctrl
           /\ late' = IF UpdateDue(e, s) /\ full THEN [late EXCEPT ![e] = @ \cup {f}]
                                                 ELSE late
           /\ UNCHANGED data

\* Mutant: the buffer is not advanced past what was copied.
ReadAgain(e, s) ==
    /\ st[e][s] = "open" /\ mode[e][s] = "idle" /\ inbox[e][s] # <<>>
    /\ numRead' = [numRead EXCEPT ![e][s] = @ + 1]
    /\ Consume_tokens(e, s)
    /\ UNCHANGED <<transport, loops, registry, handles, written, shared, setup>>

Read(e, s) ==
    /\ st[e][s] = "open" /\ mode[e][s] = "idle" /\ inbox[e][s] # <<>>
    /\ inbox' = [inbox EXCEPT ![e][s] = Tail(@)]
    /\ numRead' = [numRead EXCEPT ![e][s] = @ + 1]
    /\ Consume_tokens(e, s)
    /\ UNCHANGED <<transport, loops, entry, backlog, nextId, opening, handles, written,
                   shared, setup>>

\* The sender of the data channel is gone: fin_received, whatever the reason.
ReadEof(e, s) ==
    /\ st[e][s] = "open" /\ mode[e][s] = "idle" /\ ~eof[e][s]
    /\ inbox[e][s] = <<>> /\ s \notin entry[e]
    /\ eof' = [eof EXCEPT ![e][s] = TRUE]
    /\ UNCHANGED <<transport, loops, queues, registry, tokens, st, mode, finSent, counts,
                   shared, setup>>

\* Mutant: the task does not wait for room.
LateUpdateAtOnce(e, f) ==
    /\ f \in late[e]
    /\ ctrl' = Sent(ctrl, e, f)
    /\ late' = [late EXCEPT ![e] = @ \ {f}]
    /\ UNCHANGED <<transport, loops, data, registry, tokens, handles, counts, shared, setup>>

\* The task that consume_tokens has spawned.
LateUpdate(e, f) ==
    /\ f \in late[e] /\ CanSend(ctrl, e)
    /\ ctrl' = Sent(ctrl, e, f)
    /\ late' = [late EXCEPT ![e] = @ \ {f}]
    /\ UNCHANGED <<transport, loops, data, registry, tokens, handles, counts,
                   shared, setup>>
-----------------------------------------------------------------------------
(* write_loop.                                                             *)

\* The loop ends; its channels go.
EndWriter(e) ==
    /\ writer' = [writer EXCEPT ![e] = "ended"]
    /\ ctrl' = [ctrl EXCEPT ![e] = <<>>] /\ data' = [data EXCEPT ![e] = <<>>]

\* A frame is on its way; the loop then tests is_closed.
Put(e, f, c, d) ==
    /\ link # "broken" /\ Len(wire[e]) < WireCap
    /\ wire' = [wire EXCEPT ![e] = Append(@, f)]
    /\ IF closed[e] THEN EndWriter(e)
                    ELSE ctrl' = c /\ data' = d /\ UNCHANGED writer

WriteCtrl(e) ==
    /\ writer[e] = "running" /\ ctrl[e] # <<>>
    /\ Put(e, Head(ctrl[e]), [ctrl EXCEPT ![e] = Tail(@)], data)
    /\ UNCHANGED <<version, link, closed, recv, held, late, registry, tokens, handles,
                   counts, shared, setup>>

WriteData(e) ==
    /\ writer[e] = "running" /\ ctrl[e] = <<>> /\ data[e] # <<>>
    /\ Put(e, Head(data[e]), ctrl, [data EXCEPT ![e] = Tail(@)])
    /\ UNCHANGED <<version, link, closed, recv, held, late, registry, tokens, handles,
                   counts, shared, setup>>

WriteError(e) ==
    /\ writer[e] = "running" /\ link = "broken" /\ ctrl[e] \o data[e] # <<>>
    /\ closed' = [closed EXCEPT ![e] = TRUE]
    /\ EndWriter(e)
    /\ UNCHANGED <<transport, recv, held, late, registry, tokens, handles, counts,
                   shared, setup>>

\* The tick of keepalive, where it is enabled: a NOP, whose failure ends the loop
\* and leaves is_closed alone.
Nop(e) ==
    /\ writer[e] = "running" /\ ctrl[e] \o data[e] = <<>> /\ Rare
    /\ \/ Put(e, NoFrame, ctrl, data)
       \/ link = "broken" /\ EndWriter(e) /\ UNCHANGED wire
    /\ UNCHANGED <<version, link, closed, recv, held, late, registry, tokens, handles,
                   counts, shared>>

\* Nothing has come for keep_alive_timeout.
KeepAliveTimeout(e) ==
    /\ writer[e] = "running" /\ ctrl[e] \o data[e] = <<>> /\ Rare
    /\ link # "up" \/ wire[Peer(e)] = <<>> \/ recv[e] # "reading"
    /\ closed' = [closed EXCEPT ![e] = TRUE]
    /\ EndWriter(e)
    /\ UNCHANGED <<transport, recv, held, late, registry, tokens, handles, counts,
                   shared>>
-----------------------------------------------------------------------------
(* recv_loop.                                                              *)

\* The end of the loop: every data channel loses its sender.
EndRecv(e) ==
    /\ recv' = [recv EXCEPT ![e] = "ended"]
    /\ entry' = [entry EXCEPT ![e] = {}]
    /\ closed' = [closed EXCEPT ![e] = TRUE]

\* The top of the loop, with b tokens and the streams map m.
NextFrame(e, b, m) ==
    IF closed[e]
      THEN EndRecv(e)
      ELSE /\ recv' = [recv EXCEPT ![e] = IF version[e] = 2 /\ b <= 0 THEN "tokens"
                                                                   ELSE "reading"]
           /\ entry' = m /\ UNCHANGED closed

\* The payload of PSH and of UPD is taken from the bucket.
BucketAfter(e, f) ==
    IF version[e] = 2 /\ f.cmd \in {"PSH", "UPD"} THEN bucket[e] - 1 ELSE bucket[e]

\* The head of what the peer has written has been read.
Incoming(e, cmd) ==
    /\ recv[e] = "reading" /\ link # "silent" /\ wire[Peer(e)] # <<>>
    /\ version[Peer(e)] = version[e]
    /\ Head(wire[Peer(e)]).cmd = cmd
    /\ wire' = [wire EXCEPT ![Peer(e)] = Tail(@)]
    /\ bucket' = [bucket EXCEPT ![e] = BucketAfter(e, Head(wire[Peer(e)]))]

\* While recv_loop waits for room in the backlog the entry of the stream is there
\* already, but only recv_loop looks at it: the entry and the send are one step.
Incoming_SYN(e) ==
    LET s == Head(wire[Peer(e)]).sid IN
    /\ Incoming(e, "SYN") /\ Len(backlog[e]) < BacklogCap
    /\ NextFrame(e, bucket[e], [entry EXCEPT ![e] = @ \cup {s}])
    /\ backlog' = [backlog EXCEPT ![e] = Append(@, s)]
    /\ st' = [st EXCEPT ![e][s] = "queued"]
    /\ UNCHANGED <<version, link, writer, held, queues, inbox, nextId, opening,
                   tokenNotify, mode, finSent, eof, counts, shared, setup>>

Incoming_FIN(e) ==
    LET s == Head(wire[Peer(e)]).sid IN
    /\ Incoming(e, "FIN")
    /\ NextFrame(e, bucket[e], [entry EXCEPT ![e] = @ \ {s}])
    /\ UNCHANGED <<version, link, writer, held, queues, inbox, backlog, nextId, opening,
                   tokenNotify, handles, counts, shared, setup>>

\* Data of an unknown stream is dropped; a dropped handle loses its entry.
Incoming_PSH(e) ==
    LET f == Head(wire[Peer(e)])
        live == f.sid \in entry[e] /\ st[e][f.sid] # "dropped"
        room == Len(inbox[e][f.sid]) < InboxCap IN
    /\ Incoming(e, "PSH")
    /\ IF live /\ ~room
         THEN /\ recv' = [recv EXCEPT ![e] = "blocked"]
              /\ held' = [held EXCEPT ![e] = f]
              /\ UNCHANGED <<entry, closed>>
         ELSE /\ NextFrame(e, bucket'[e],
                           [entry EXCEPT ![e] = IF live THEN @ ELSE @ \ {f.sid}])
              /\ UNCHANGED held
    /\ inbox' = [inbox EXCEPT ![e][f.sid] = IF live /\ room THEN Append(@, f.n) ELSE @]
    /\ UNCHANGED <<version, link, writer, queues, backlog, nextId, opening, tokenNotify,
                   handles, counts, shared, setup>>

\* Mutant: room in the channel does not wake recv_loop.
UnblockDropped(e) ==
    LET s == held[e].sid IN
    /\ recv[e] = "blocked" /\ st[e][s] = "dropped"
    /\ NextFrame(e, bucket[e], [entry EXCEPT ![e] = @ \ {s}])
    /\ held' = [held EXCEPT ![e] = NoFrame]
    /\ UNCHANGED <<transport, writer, queues, inbox, backlog, nextId, opening, tokens,
                   handles, counts, shared, setup>>

\* The send of recv_loop ends: there is room, or the handle was dropped.
Unblock(e) ==
    LET s == held[e].sid IN
    /\ recv[e] = "blocked"
    /\ \/ /\ st[e][s] # "dropped" /\ Len(inbox[e][s]) < InboxCap
          /\ inbox' = [inbox EXCEPT ![e][s] = Append(@, held[e].n)]
          /\ NextFrame(e, bucket[e], entry)
       \/ /\ st[e][s] = "dropped"
          /\ NextFrame(e, bucket[e], [entry EXCEPT ![e] = @ \ {s}])
          /\ UNCHANGED inbox
    /\ held' = [held EXCEPT ![e] = NoFrame]
    /\ UNCHANGED <<transport, writer, queues, backlog, nextId, opening, tokens, handles,
                   counts, shared, setup>>

Incoming_UPD(e) ==
    LET f == Head(wire[Peer(e)])
        known == f.sid \in entry[e] IN
    /\ Incoming(e, "UPD")
    /\ NextFrame(e, bucket'[e], entry)
    /\ consumed' = [consumed EXCEPT ![e][f.sid] = IF known THEN f.n ELSE @]
    /\ window' = [window EXCEPT ![e][f.sid] = IF known THEN StreamBuffer ELSE @]
    /\ windowNotify' = [windowNotify EXCEPT ![e][f.sid] = @ \/ known]
    /\ UNCHANGED <<version, link, writer, held, queues, inbox, backlog, nextId, opening,
                   tokenNotify, handles, counts, setup>>

Incoming_NOP(e) ==
    /\ Incoming(e, "NOP")
    /\ NextFrame(e, bucket[e], entry)
    /\ UNCHANGED <<version, link, writer, held, queues, inbox, backlog, nextId, opening,
                   tokenNotify, handles, counts, shared, setup>>

\* The reader fails or is at its end, or a frame is of another version.
RecvFails(e) ==
    /\ recv[e] = "reading"
    /\ \/ link = "broken" /\ wire[Peer(e)] = <<>>
       \/ link # "silent" /\ wire[Peer(e)] # <<>> /\ version[Peer(e)] # version[e]
    /\ EndRecv(e)
    /\ UNCHANGED <<transport, writer, held, queues, inbox, backlog, nextId, opening, tokens,
                   handles, counts, shared, setup>>

\* bucket_notify wakes the loop, which may go back to waiting.
TokensWake(e) ==
    /\ recv[e] = "tokens" /\ tokenNotify[e]
    /\ tokenNotify' = [tokenNotify EXCEPT ![e] = FALSE]
    /\ NextFrame(e, bucket[e], entry)
    /\ UNCHANGED <<transport, writer, held, queues, inbox, backlog, nextId, opening, bucket,
                   handles, counts, shared, setup>>
-----------------------------------------------------------------------------
(* The transport.                                                          *)

\* It breaks, with or without what is under way; or it only stops delivering.
Break ==
    /\ link # "broken" /\ Rare
    /\ link' = "broken"
    /\ wire' \in {wire, [e \in Ends |-> <<>>]}
    /\ UNCHANGED <<version, loops, queues, registry, tokens, handles, counts, shared>>

Silence ==
    /\ link = "up" /\ Rare
    /\ link' = "silent"
    /\ UNCHANGED <<version, wire, loops, queues, registry, tokens, handles, counts, shared>>

\* Both halves of the transport are dropped with the loops that own them.
Hangup(e) ==
    /\ recv[e] = "ended" /\ writer[e] = "ended" /\ link = "up"
    /\ link' = "broken"
    /\ UNCHANGED <<version, wire, loops, queues, registry, tokens, handles, counts,
                   shared, setup>>
-----------------------------------------------------------------------------
WriteLoop(e) == WriteCtrl(e) \/ WriteData(e) \/ WriteError(e)

RecvLoop(e) ==
    \/ Incoming_SYN(e) \/ Incoming_FIN(e) \/ Incoming_PSH(e) \/ Incoming_UPD(e)
    \/ Incoming_NOP(e) \/ Unblock(e) \/ RecvFails(e) \/ TokensWake(e)

WriteTask(e, s) ==
    WriteResumes(e, s) \/ WriteFails(e, s) \/ WriteWakes(e, s)

ReadTask(e, s) == Read(e, s) \/ ReadEof(e, s)

Next ==
    \/ \E e \in Ends :
        \/ Open(e) \/ OpenStream(e) \/ Accept(e) \/ Close(e)
        \/ WriteLoop(e) \/ Nop(e) \/ KeepAliveTimeout(e) \/ RecvLoop(e) \/ Hangup(e)
        \/ \E f \in late[e] : LateUpdate(e, f)
        \/ \E s \in Sids :
            Write(e, s) \/ WriteTask(e, s) \/ ReadTask(e, s) \/ CloseStream(e, s)
              \/ DropStream(e, s)
    \/ Break \/ Silence

Spec == Init /\ [][Next]_vars

\* The runtime drives the two loops and the tasks that wait in a call; the
\* application accepts every stream and reads it to its end.
FairSpec ==
    /\ Spec
    /\ \A e \in Ends :
        /\ WF_vars(WriteLoop(e)) /\ WF_vars(RecvLoop(e)) /\ WF_vars(Accept(e))
        /\ \A s \in Sids : WF_vars(WriteTask(e, s)) /\ WF_vars(ReadTask(e, s))
-----------------------------------------------------------------------------
\* A reader gets the units of its stream in the order they were written, each
\* once: what waits in the data channel continues what was read.
InOrder ==
    \A e \in Ends, s \in Sids :
        \A i \in DOMAIN inbox[e][s] : inbox[e][s][i] = numRead[e][s] + i

\* The end of a stream that the peer accepted and closed comes after all its data:
\* when read() reports it on a living session, everything written was read.
AcceptedEofComplete ==
    \A s \in Sids : LET e == Opener(s) IN
        eof[e][s] /\ recv[e] # "ended"
          => finSent[Peer(e)][s] /\ numRead[e][s] = written[Peer(e)][s]

\* Version 2: what was written and not yet read never exceeds the larger of the
\* initial window and the one the peer announces.
WindowRespected ==
    \A e \in Ends, s \in Sids :
        version[e] = 2 /\ written[e][s] - numRead[Peer(e)][s] > InitialWindow
          => written[e][s] - numRead[Peer(e)][s] <= StreamBuffer

\* Why a unit may stay unread.
Lost(e, s) ==
    \/ link # "up" \/ closed[e] \/ closed[Peer(e)]
    \/ st[Peer(e)][s] = "dropped"
    \/ Opener(s) = e /\ finSent[e][s]

\* Each receive loop holds a unit for a task that waits in write() for the other end:
\* between the two, every channel is full.
Gridlock ==
    \A e \in Ends :
        LET s == held[e].sid IN
        /\ recv[e] = "blocked" /\ mode[e][s] = "writing"
        /\ Len(inbox[e][s]) = InboxCap
        /\ Len(DataQueue(e, s)) = QueueCap /\ Len(wire[e]) = WireCap

\* Version 1: whatever is written is read, as long as the session lives, the reader
\* keeps its handle and, for streams that the writer opened, it does not close the
\* stream.  Full channels and a blocked receive loop delay it, and stop it for good
\* only when both ends write and fill the channels of both directions.  (An end
\* writes a bounded number of units, so the readers catch up for good.)
Delivered ==
    []<>(\/ version # [e \in Ends |-> 1]
         \/ Gridlock
         \/ \A e \in Ends, s \in Sids :
                Lost(e, s) \/ numRead[Peer(e)][s] = written[e][s])
-----------------------------------------------------------------------------
(* The inductive invariant behind TypeOK and WindowRespected.              *)

\* An id is kept for the stream that is being opened.
Opened == \A e \in Ends : opening[e] => nextId[e] <= last

\* The frames that e has sent and its peer has not taken.
InFlight(e) == Range(wire[e]) \cup Range(ctrl[e]) \cup Range(data[e]) \cup late[e]

\* An update tells what was read at most.
Told(e, f) == f.cmd = "UPD" => f.n <= numRead[e][f.sid]

Updates == \A e \in Ends : \A f \in InFlight(e) : Told(e, f)

\* What a writer knows of its reader is never more than what was read.
Windows ==
    \A e \in Ends, s \in Sids :
        consumed[e][s] <= numRead[Peer(e)][s] /\ window[e][s] \in {InitialWindow, StreamBuffer}

\* A write() that waits for room has seen a window that the unit still fits into:
\* updates that overtake each other take nothing back from what was read.
Checked ==
    \A e \in Ends, s \in Sids :
        version[e] = 2 /\ mode[e][s] = "writing"
            /\ written[e][s] - numRead[Peer(e)][s] >= InitialWindow
          => written[e][s] - numRead[Peer(e)][s] < StreamBuffer

IInv == TypeOK /\ Opened /\ Updates /\ Windows /\ Checked /\ WindowRespected
-----------------------------------------------------------------------------
(* What InOrder and AcceptedEofComplete need besides.                      *)

\* Streams are opened once, in the order of their ids, and accepted once.
Ids(e) ==
    /\ Opener(nextId[e]) = e
    /\ \A s \in Sids : Opener(s) = e /\ s >= nextId[e] => st[e][s] = "none"

\* The backlog holds each stream once, until it is accepted.
Queued(e) ==
    \A i, j \in DOMAIN backlog[e] :
        st[e][backlog[e][i]] = "queued" /\ (backlog[e][i] = backlog[e][j] => i = j)

\* Nothing is known of a stream without a handle, a call of write() waits only on an
\* open one, and read() has said EOF only when there is nothing left and none to come.
HandleOf(e, s) ==
    /\ st[e][s] = "none" => s \notin entry[e] /\ ~finSent[e][s] /\ ~eof[e][s]
    /\ mode[e][s] # "idle" => st[e][s] = "open" /\ ~finSent[e][s]
    /\ eof[e][s] => inbox[e][s] = <<>> /\ s \notin entry[e]

Handles == \A e \in Ends : Ids(e) /\ Queued(e) /\ \A s \in Sids : HandleOf(e, s)

\* What its sender knows about a frame, wherever the frame is.
Made(e, f) ==
    /\ f.cmd = "SYN" => Opener(f.sid) = e /\ st[e][f.sid] # "none"
    /\ f.cmd = "PSH" => st[e][f.sid] # "none"
    /\ f.cmd = "FIN" => finSent[e][f.sid]

\* Data of the opener goes through data, that of the other end through ctrl.
Sources ==
    \A e \in Ends :
        /\ \A f \in Range(wire[e]) : Made(e, f)
        /\ \A f \in Range(ctrl[e]) : Made(e, f) /\ (f.cmd = "PSH" => Opener(f.sid) # e)
        /\ \A f \in Range(data[e]) : Made(e, f) /\ f.cmd = "PSH" /\ Opener(f.sid) = e
        /\ \A f \in late[e] : Made(e, f) /\ f.cmd = "UPD"

\* The stream has such a frame in q.
Has(q, cmd, s) == \E f \in Range(q) : f.cmd = cmd /\ f.sid = s

\* In q every c of the stream comes before every d.
Before(q, c, d, s) ==
    \A i, j \in DOMAIN q : q[i].cmd = c /\ q[j].cmd = d /\ q[i].sid = s /\ q[j].sid = s => i < j

\* The stream has at most one SYN in q.
Once(q, s) ==
    \A i, j \in DOMAIN q :
        q[i].cmd = "SYN" /\ q[j].cmd = "SYN" /\ q[i].sid = s /\ q[j].sid = s => i = j

\* The data of the stream in q are its units a + 1 to b, in order.
Carries(q, s, a, b) ==
    /\ a <= b
    /\ \A i \in DOMAIN q : q[i].cmd = "PSH" /\ q[i].sid = s => q[i].n \in (a + 1)..b
    /\ \A n \in (a + 1)..b : \E i \in DOMAIN q : q[i].cmd = "PSH" /\ q[i].sid = s /\ q[i].n = n
    /\ \A i, j \in DOMAIN q :
        /\ q[i].cmd = "PSH" /\ q[j].cmd = "PSH" /\ q[i].sid = s /\ q[j].sid = s /\ i < j
        => q[i].n < q[j].n

\* What is in the queues of e will be written.
Up(e) == writer[e] = "running" /\ link # "broken"

\* SYN is sent once and arrives before the data of the stream: w is the wire, c the
\* queue, x and y are the handles of the two ends, and up if the queue will be written.
SynOrder(w, c, s, x, y, up) ==
    /\ Once(w, s) /\ Once(c, s) /\ Before(w, "SYN", "PSH", s)
    /\ Has(c, "SYN", s) => ~Has(w, "SYN", s) /\ ~Has(w, "PSH", s)
    /\ y # "none" => ~Has(w, "SYN", s) /\ ~Has(c, "SYN", s) /\ x # "none"
    /\ y = "none" => /\ Has(w, "PSH", s) => Has(w, "SYN", s)
                     /\ up /\ x # "none" => Has(w, "SYN", s) \/ Has(c, "SYN", s)

SynFirst ==
    \A s \in Sids :
        LET e == Opener(s) IN
        SynOrder(wire[e], ctrl[e], s, st[e][s], st[Peer(e)][s], Up(e))

\* The stream takes data, now or later.
Alive(e, s) == st[e][s] = "none" \/ (s \in entry[e] /\ st[e][s] # "dropped")

\* The last unit that has left the wire.
LastUnit(e, s) ==
    numRead[e][s] + Len(inbox[e][s])
      + IF recv[e] = "blocked" /\ held[e].sid = s THEN 1 ELSE 0

\* The receive loop waits with the unit that comes next on its stream.
HeldNext ==
    \A e \in Ends :
        recv[e] = "blocked" /\ st[e][held[e].sid] # "dropped" =>
            held[e].sid \in entry[e] /\ held[e].n = LastUnit(e, held[e].sid)

\* Units a + 1 to b of the stream are in w and then, if on, in q.
Carried(w, q, s, a, b, on) ==
    \E m \in 0..b : Carries(w, s, a, m) /\ (on => Carries(q, s, m, b))

\* What comes next on the wire and then in the queue continues what has left the wire.
Flow ==
    \A e \in Ends, s \in Sids :
        Alive(Peer(e), s) =>
            Carried(wire[e], DataQueue(e, s), s, LastUnit(Peer(e), s), written[e][s], Up(e))

\* FIN of an accepted stream comes after all its data.
FinLast ==
    \A s \in Sids :
        LET e == Opener(s)
            p == Peer(e) IN
        /\ Before(wire[p], "PSH", "FIN", s) /\ Before(ctrl[p], "PSH", "FIN", s)
        /\ Has(wire[p], "FIN", s) =>
            /\ ~Has(ctrl[p], "PSH", s)
            /\ Alive(e, s) => Carries(wire[p], s, LastUnit(e, s), written[p][s])
        /\ st[e][s] \notin {"none", "dropped"} /\ s \notin entry[e] /\ recv[e] # "ended" =>
            finSent[p][s] /\ LastUnit(e, s) = written[p][s]

\* The inductive invariant behind InOrder and AcceptedEofComplete, given IInv.
OrderInv ==
    /\ Handles /\ Sources /\ SynFirst /\ HeldNext /\ Flow /\ FinLast
    /\ InOrder /\ AcceptedEofComplete
=============================================================================
