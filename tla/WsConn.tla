------------------------------- MODULE WsConn -------------------------------
(***************************************************************************)
(* Two ends of a WebSocket connection (src/ws/conn.go), each a Conn of     *)
(* this code: the goroutine that reads it, with the replies its handlers   *)
(* write, the goroutines that write messages, control messages and         *)
(* messages in several frames, and the pool of workers (workerpool.go,     *)
(* tasks.go) that a failed WriteMessage falls back to.                     *)
(*                                                                         *)
(* A payload is a number of units.  Masks, compression and the encoding of *)
(* lengths are left out; a header that does not fit what is expected, or   *)
(* bytes that are taken for a payload, are what the properties are about.  *)
(***************************************************************************)
EXTENDS Naturals, Sequences, SequencesExt

CONSTANTS Sides,      (* the two ends                                             *)
          Server,     (* the one whose Conn has isServer                          *)
          Writers,    (* bound: goroutines that write                             *)
          Owner,      (* the end each of them writes to                           *)
          Messages,   (* bound: what they write                                   *)
          Size,       (* the length of each                                       *)
          Programs,   (* what the applications do, see Program                    *)
          BufLen,     (* bound: a buffer of bufferPool                            *)
          WriteBuf,   (* bound: c.writeBuf                                        *)
          ReadLimit,  (* SetReadLimit of both ends; 0 is none                     *)
          WireCap,    (* bound: what the network holds in one direction           *)
          Workers,    (* bound: workers of writePool                              *)
          QueueCap,   (* bound: its queue                                         *)
          None        (* nil                                                      *)

Data == {"WriteMessage", "WriteMessageDirect", "NextWriter"}
Control == {"ping", "pong", "close"}

\* Why an end has stopped reading.
Ends == {"close", "protocol", "limit", "eof", "garbled"}

Call == [do : Data, msg : Messages] \cup [do : Control \cup {"Close"}, msg : {None}]

\* calls: what each writer calls, in order.  reads: how an application reads.
\* pieces: a frame may arrive in several segments.  deadlines: the ends whose
\* application sets write deadlines, which may pass.  cleans: CleanupPools.
\* tls: the connection writes each of its net.Buffers by itself.
Program == [calls : [Writers -> Seq(Call)],
            reads : [Sides -> {"ReadMessage", "ReadAll", "NextReader"}],
            pieces : BOOLEAN, deadlines : SUBSET Sides, cleans : BOOLEAN, tls : BOOLEAN]

ASSUME ConnAssumption ==
    /\ \E a, b \in Sides : a # b /\ Sides = {a, b}
    /\ Server \in Sides /\ Owner \in [Writers -> Sides]
    /\ Size \in [Messages -> Nat] /\ Programs \subseteq Program
    /\ {BufLen, WriteBuf, WireCap, QueueCap} \subseteq Nat \ {0} /\ ReadLimit \in Nat
    /\ None \notin Messages \cup Control \cup Ends \cup {"advance", "loop"}

VARIABLES
    program,   (* one of Programs; it does not change                             *)
    closed,    (* the net.Conn of an end is closed                                *)
    wire,      (* headers and payloads an end has written and the other not read  *)
    deadline,  (* the write deadline of an end's socket may pass                  *)
    writeErr, readErr,
    messageReader,  (* c.messageReader is not nil                                 *)
    frame,     (* readRemaining, readFinal and readLength                         *)
    reader,    (* the goroutine that reads: where it is, what it has of a message *)
    writer,    (* the goroutines that write                                       *)
    pool,      (* writePool                                                       *)
    worker,    (* its workers                                                     *)
    panicked,  (* the program has ended with a panic                              *)
    wrote,     (* history: the messages an end has written to the last frame      *)
    delivered, (* history: what the application of an end was given               *)
    past       (* history: failed writes, and what follows a close frame          *)

reading == <<readErr, messageReader, frame, reader, delivered>>
pooling == <<pool, worker, panicked>>
vars == <<program, closed, wire, deadline, writeErr, reading, writer, pooling, wrote, past>>

Peer(s) == CHOOSE p \in Sides : p # s
Lesser(a, b) == IF a < b THEN a ELSE b

Ops == {"data", "cont", "payload", "torn"} \cup Control
Item == [op : Ops, fin : BOOLEAN, msg : Messages \cup {None}, len : Nat]
Task == [by : Writers, call : Nat, msg : Messages]
Errors == {None, "close sent", "failed"}

TypeOK ==
    /\ program \in Programs /\ closed \in [Sides -> BOOLEAN]
    /\ wire \in [Sides -> Seq(Item)] /\ deadline \in [Sides -> BOOLEAN]
    /\ writeErr \in [Sides -> Errors] /\ readErr \in [Sides -> Ends \cup {None}]
    /\ messageReader \in [Sides -> BOOLEAN]
    /\ frame \in [Sides -> [rem : Nat, final : BOOLEAN, length : Nat]]
    /\ reader \in [Sides -> [at : {"next", "advance", "Read", "loop", "reply", "settle", "ended"},
                             msg : Messages \cup {None}, got : Nat,
                             op : Control \cup {None}, err : Errors,
                             after : {"advance", "loop"} \cup Ends \cup {None}]]
    /\ writer \in [Writers -> [at : {"idle", "write", "flush", "extra", "end", "settle",
                                     "submit", "enqueue", "wait"},
                               call : Nat, left : Seq(Nat), first : BOOLEAN, err : Errors]]
    /\ pool \in [at : {"open", "flag", "shut", "nil"}, queue : Seq(Task)]
    /\ worker \in [Workers -> [at : {"check", "get", "work", "gone"}, task : Task \cup {None}]]
    /\ panicked \in BOOLEAN
    /\ wrote \in [Sides -> Seq(Messages)]
    /\ delivered \in [Sides -> Seq([msg : Messages, units : Nat])]
    /\ past \in [Sides -> [fault : {"no", "failed", "torn"}, said : {"no", "close", "more"}]]

NewWorkerPool == [k \in Workers |-> [at |-> "check", task |-> None]]

Init ==
    /\ program \in Programs
    /\ closed = [s \in Sides |-> FALSE]
    /\ wire = [s \in Sides |-> <<>>]
    /\ deadline = [s \in Sides |-> s \in program.deadlines]
    /\ writeErr = [s \in Sides |-> None] /\ readErr = [s \in Sides |-> None]
    /\ messageReader = [s \in Sides |-> FALSE]
    /\ frame = [s \in Sides |-> [rem |-> 0, final |-> TRUE, length |-> 0]]
    /\ reader = [s \in Sides |-> [at |-> "next", msg |-> None, got |-> 0,
                                  op |-> None, err |-> None, after |-> None]]
    /\ writer = [w \in Writers |-> [at |-> "idle", call |-> 1, left |-> <<>>,
                                    first |-> TRUE, err |-> None]]
    /\ pool = [at |-> "open", queue |-> <<>>]
    /\ worker = NewWorkerPool
    /\ panicked = FALSE
    /\ wrote = [s \in Sides |-> <<>>] /\ delivered = [s \in Sides |-> <<>>]
    /\ past = [s \in Sides |-> [fault |-> "no", said |-> "no"]]

-----------------------------------------------------------------------------
(* Writing to the network.                                                   *)

Header(op, fin, m, n) == [op |-> op, fin |-> fin, msg |-> m, len |-> n]
Payload(m, n) == IF n = 0 THEN <<>> ELSE <<[op |-> "payload", fin |-> FALSE, msg |-> m, len |-> n]>>
WholeFrame(op, fin, m, n) == <<Header(op, fin, m, n)>> \o Payload(m, n)
ControlFrame(op) == <<Header(op, TRUE, None, 0)>>

\* A Write of s that ends well: it waits for room.  With the last frame of m
\* the whole message is written (m = None: it is not the last).
Puts(s, items, m) ==
    /\ ~closed[s] /\ Len(wire[s]) < WireCap
    /\ wire' = [wire EXCEPT ![s] = @ \o items]
    /\ wrote' = IF m = None THEN wrote ELSE [wrote EXCEPT ![s] = Append(@, m)]
    /\ past' = [past EXCEPT ![s].said =
                   IF items[1].op = "close" /\ @ = "no" THEN "close"
                   ELSE IF items[1].op \in {"data", "cont"} /\ @ = "close" THEN "more" ELSE @]

\* What a Write leaves of a frame when it is cut off: its header, or less.
Stump(item) == IF item.len > 0 THEN item ELSE [item EXCEPT !.op = "torn"]

\* A Write that fails: an end is closed, or the deadline has passed, perhaps in
\* the middle of the frame.
Fails(s, items) ==
    \/ /\ closed[s] \/ closed[Peer(s)] \/ deadline[s]
       /\ past' = [past EXCEPT ![s].fault = IF @ = "torn" THEN @ ELSE "failed"]
       /\ UNCHANGED wire
    \/ /\ deadline[s] /\ ~closed[s] /\ Len(wire[s]) < WireCap
       /\ wire' = [wire EXCEPT ![s] = Append(@, Stump(items[1]))]
       /\ past' = [past EXCEPT ![s].fault = "torn"]

\* writeFatal keeps the first error.
Kept(s, e) == writeErr' = [writeErr EXCEPT ![s] = IF @ = None THEN e ELSE @]

\* The error WriteControl leaves: a close frame is the last one.
Afterwards(op) == IF op = "close" THEN "close sent" ELSE None

-----------------------------------------------------------------------------
(* The goroutine that reads: ReadMessage, or NextReader and io.ReadAll, or   *)
(* NextReader alone, for the sake of the handlers, in a loop that it leaves  *)
(* at an error.                                                              *)

In(s) == wire[Peer(s)]
Go(s, at) == reader' = [reader EXCEPT ![s].at = at]
AtHeader(s) == /\ In(s) # <<>> /\ Head(In(s)).op \notin {"payload", "torn"} /\ frame[s].rem = 0
               /\ reader[s].at = "advance" \/ (reader[s].at = "loop" /\ ~frame[s].final)

\* What the application is given for the message it was reading.
Given(s, n) == delivered' = [delivered EXCEPT ![s] = Append(@, [msg |-> reader[s].msg, units |-> n])]

\* n units of the payload at the head of what has arrived.
Consume(s, n) ==
    /\ In(s) # <<>> /\ Head(In(s)).op = "payload"
    /\ frame' = [frame EXCEPT ![s].rem = @ - n]
    /\ wire' = [wire EXCEPT ![Peer(s)] =
                   IF n = Head(In(s)).len THEN Tail(In(s))
                   ELSE <<[Head(In(s)) EXCEPT !.len = @ - n]>> \o Tail(In(s))]

\* readErr is kept, and the application leaves its loop: what ReadMessage tries
\* in readPool after an error gets the same error.
Stop(s, e) == /\ readErr' = [readErr EXCEPT ![s] = e]
              /\ reader' = [reader EXCEPT ![s].at = "ended"]

FreshKept(f) == f

\* A message begins: none of its frames has been counted.
Fresh(f) == [f EXCEPT !.length = 0]

NextReader(s) ==
    /\ reader[s].at = "next" /\ Go(s, "advance")
    /\ messageReader' = [messageReader EXCEPT ![s] = FALSE]
    /\ frame' = [frame EXCEPT ![s] = Fresh(@)]
    /\ UNCHANGED <<program, closed, wire, deadline, writeErr, readErr, delivered, writer,
                   pooling, wrote, past>>

\* advanceFrame throws away what is left of the frame before.
Skip(s) ==
    /\ reader[s].at = "advance" /\ frame[s].rem > 0
    /\ In(s) # <<>> /\ Consume(s, Lesser(frame[s].rem, Head(In(s)).len))
    /\ UNCHANGED <<program, closed, deadline, writeErr, readErr, messageReader, reader,
                   delivered, writer, pooling, wrote, past>>

Misplaced(s, h) == \/ h.op = "data" /\ ~frame[s].final
                   \/ h.op = "cont" /\ frame[s].final
TooLong(n) == ReadLimit > 0 /\ n > ReadLimit

\* The rest of advanceFrame: the header of a data frame.  The frame of a new
\* message ends NextReader, another one leaves its caller where it was.
TakeData(s) ==
    LET h == Head(In(s))  long == TooLong(frame[s].length + h.len) IN
    /\ AtHeader(s) /\ h.op \in {"data", "cont"} /\ ~Misplaced(s, h)
    /\ wire' = [wire EXCEPT ![Peer(s)] = Tail(@)]
    /\ frame' = [frame EXCEPT ![s] = [rem |-> h.len, final |-> h.fin, length |-> @.length + h.len]]
    /\ reader' = [reader EXCEPT ![s] =
                     IF long THEN [@ EXCEPT !.at = "reply", !.op = "close", !.after = "limit",
                                            !.msg = h.msg]
                     ELSE IF h.op = "data"
                     THEN [@ EXCEPT !.at = IF program.reads[s] = "NextReader" THEN "next" ELSE "Read",
                                    !.msg = h.msg, !.got = 0]
                     ELSE @]
    /\ messageReader' = [messageReader EXCEPT ![s] = @ \/ (h.op = "data" /\ ~long)]
    /\ UNCHANGED <<program, closed, deadline, writeErr, readErr, delivered, writer, pooling,
                   wrote, past>>

\* A frame that does not belong here: handleProtocolError writes a close message.
Refuse(s) ==
    /\ AtHeader(s) /\ Misplaced(s, Head(In(s)))
    /\ wire' = [wire EXCEPT ![Peer(s)] = Tail(@)]
    /\ reader' = [reader EXCEPT ![s].at = "reply", ![s].op = "close", ![s].after = "protocol"]
    /\ UNCHANGED <<program, closed, deadline, writeErr, readErr, messageReader, frame, delivered,
                   writer, pooling, wrote, past>>

RepliesNothingToClose(op) == IF op = "ping" THEN "pong" ELSE None

\* What the handlers of control messages write, None for a pong.
Replies(op) == CASE op = "ping" -> "pong" [] op = "close" -> "close" [] op = "pong" -> None

\* A control frame: its handler runs, and a close ends the reading.
TakeControl(s) ==
    LET op == Head(In(s)).op  reply == Replies(op)
        after == IF op = "close" THEN "close" ELSE reader[s].at IN
    /\ AtHeader(s) /\ op \in Control
    /\ wire' = [wire EXCEPT ![Peer(s)] = Tail(@)]
    /\ IF reply # None
       THEN /\ reader' = [reader EXCEPT ![s].at = "reply", ![s].op = reply, ![s].after = after]
            /\ UNCHANGED readErr
       ELSE IF after = "close" THEN Stop(s, "close") ELSE UNCHANGED <<reader, readErr>>
    /\ UNCHANGED <<program, closed, deadline, writeErr, messageReader, frame, delivered, writer,
                   pooling, wrote, past>>

\* Where the reader goes on when its reply is dealt with.
Resume(s, after) == IF after \in Ends THEN Stop(s, after) ELSE Go(s, after) /\ UNCHANGED readErr

\* WriteControl, called by a handler in the reading goroutine.  The error is
\* kept in a step of its own, and ignored by the handlers.
Reply(s) ==
    LET e == Afterwards(reader[s].op) IN
    /\ reader[s].at = "reply" /\ Puts(s, ControlFrame(reader[s].op), None)
    /\ IF e = None THEN Resume(s, reader[s].after)
       ELSE reader' = [reader EXCEPT ![s].at = "settle", ![s].err = e] /\ UNCHANGED readErr
    /\ UNCHANGED <<program, closed, deadline, writeErr, messageReader, frame, delivered, writer,
                   pooling>>

ReplyFails(s) ==
    /\ reader[s].at = "reply" /\ Fails(s, ControlFrame(reader[s].op))
    /\ reader' = [reader EXCEPT ![s].at = "settle", ![s].err = "failed"]
    /\ UNCHANGED <<program, closed, deadline, writeErr, readErr, messageReader, frame, delivered,
                   writer, pooling, wrote>>

ReplySettled(s) ==
    /\ reader[s].at = "settle" /\ Kept(s, reader[s].err) /\ Resume(s, reader[s].after)
    /\ UNCHANGED <<program, closed, wire, deadline, messageReader, frame, delivered, writer,
                   pooling, wrote, past>>

\* messageReader.Read: a reader that is no longer c.messageReader is at its end.
Read(s) ==
    /\ reader[s].at = "Read"
    /\ IF messageReader[s] THEN Go(s, "loop") /\ UNCHANGED delivered
       ELSE Go(s, "next") /\ Given(s, reader[s].got)
    /\ UNCHANGED <<program, closed, wire, deadline, writeErr, readErr, messageReader, frame,
                   writer, pooling, wrote, past>>

\* Its loop finds bytes and returns them: ReadMessage takes them for the whole
\* message, io.ReadAll reads on.
TakePiece(s) ==
    /\ reader[s].at = "loop" /\ frame[s].rem > 0 /\ In(s) # <<>>
    /\ LET here == Lesser(frame[s].rem, Head(In(s)).len)
           fits == IF program.reads[s] = "ReadMessage" THEN Lesser(here, BufLen) ELSE here
       IN \E n \in IF program.pieces THEN 1..fits ELSE {fits} :
              /\ Consume(s, n)
              /\ IF program.reads[s] = "ReadMessage" THEN Given(s, n) /\ Go(s, "next")
                 ELSE /\ reader' = [reader EXCEPT ![s].at = "Read", ![s].got = @ + n]
                      /\ UNCHANGED delivered
    /\ UNCHANGED <<program, closed, deadline, writeErr, readErr, messageReader, writer, pooling,
                   wrote, past>>

AtEndOfFrame(s) == frame[s].rem = 0

\* Or it is at the end of the last frame.
AtEnd(s) == frame[s].rem = 0 /\ frame[s].final

EndOfMessage(s) ==
    /\ reader[s].at = "loop" /\ AtEnd(s)
    /\ messageReader' = [messageReader EXCEPT ![s] = FALSE]
    /\ Given(s, reader[s].got) /\ Go(s, "next")
    /\ UNCHANGED <<program, closed, wire, deadline, writeErr, readErr, frame, writer, pooling,
                   wrote, past>>

\* What is read is not what was written there: bytes of a header as a payload,
\* or of a payload, or of the next frame, as a header.
Unexpected(s) ==
    CASE Head(In(s)).op = "payload" -> frame[s].rem = 0
      [] Head(In(s)).op = "torn" -> frame[s].rem > 0 \/ Len(In(s)) > 1
      [] OTHER -> frame[s].rem > 0

Garbled(s) ==
    /\ reader[s].at \in {"advance", "loop"} /\ ~(reader[s].at = "loop" /\ AtEnd(s))
    /\ In(s) # <<>> /\ Unexpected(s) /\ Stop(s, "garbled")
    /\ UNCHANGED <<program, closed, wire, deadline, writeErr, messageReader, frame, delivered,
                   writer, pooling, wrote, past>>

\* The connection ends, perhaps in the middle of a frame.
EndOfFile(s) ==
    /\ reader[s].at \in {"advance", "loop"} /\ ~(reader[s].at = "loop" /\ AtEnd(s))
    /\ \/ closed[s]
       \/ closed[Peer(s)] /\ (In(s) = <<>> \/ (Len(In(s)) = 1 /\ Head(In(s)).op = "torn"))
    /\ Stop(s, "eof")
    /\ UNCHANGED <<program, closed, wire, deadline, writeErr, messageReader, frame, delivered,
                   writer, pooling, wrote, past>>

-----------------------------------------------------------------------------
(* The goroutines that write.                                                *)

Mine(w) == program.calls[w][writer[w].call]
At(w, at) == writer[w].at = at /\ writer[w].call <= Len(program.calls[w])
Calls(w, dos) == At(w, "idle") /\ Mine(w).do \in dos
Move(w, at) == writer' = [writer EXCEPT ![w].at = at]
Returns(w) == writer' = [writer EXCEPT ![w] = [at |-> "idle", call |-> @.call + 1, left |-> <<>>,
                                               first |-> TRUE, err |-> None]]

\* WriteMessage and WriteMessageDirect look at writeErr, and let its lock go.
Check(w) ==
    /\ Calls(w, {"WriteMessage", "WriteMessageDirect"})
    /\ IF writeErr[Owner[w]] # None THEN Returns(w) ELSE Move(w, "write")
    /\ UNCHANGED <<program, closed, wire, deadline, writeErr, reading, pooling, wrote, past>>

Write(w) ==
    LET m == Mine(w).msg IN
    /\ At(w, "write") /\ Puts(Owner[w], WholeFrame("data", TRUE, m, Size[m]), m) /\ Returns(w)
    /\ UNCHANGED <<program, closed, deadline, writeErr, reading, pooling>>

\* WriteMessage tries again, in the pool.
WriteFails(w) ==
    LET m == Mine(w).msg IN
    /\ At(w, "write") /\ Fails(Owner[w], WholeFrame("data", TRUE, m, Size[m]))
    /\ IF Mine(w).do = "WriteMessage" THEN Move(w, "submit") ELSE Returns(w)
    /\ UNCHANGED <<program, closed, deadline, writeErr, reading, pooling, wrote>>

WriteControl(w) ==
    LET op == Mine(w).do IN
    /\ Calls(w, Control) /\ Puts(Owner[w], ControlFrame(op), None)
    /\ IF Afterwards(op) = None THEN Returns(w)
       ELSE writer' = [writer EXCEPT ![w].at = "settle", ![w].err = Afterwards(op)]
    /\ UNCHANGED <<program, closed, deadline, writeErr, reading, pooling>>

ControlFails(w) ==
    /\ Calls(w, Control) /\ Fails(Owner[w], ControlFrame(Mine(w).do))
    /\ writer' = [writer EXCEPT ![w].at = "settle", ![w].err = "failed"]
    /\ UNCHANGED <<program, closed, deadline, writeErr, reading, pooling, wrote>>

Settled(w) ==
    /\ At(w, "settle") /\ Kept(Owner[w], writer[w].err) /\ Returns(w)
    /\ UNCHANGED <<program, closed, wire, deadline, reading, pooling, wrote, past>>

\* The frames of a message that is written in one go: a server that is given
\* more than two buffers writes them unbuffered, and Close an empty last frame;
\* else the buffer is flushed when there is more to copy.
Unbuffered(s, n) == s = Server /\ n > 2 * WriteBuf
Flushes(s, n) ==
    IF Unbuffered(s, n) THEN <<n, 0>>
    ELSE LET k == IF n = 0 THEN 0 ELSE (n - 1) \div WriteBuf IN
         [i \in 1..(k + 1) |-> IF i <= k THEN WriteBuf ELSE n - k * WriteBuf]

NextWriter(w) ==
    /\ Calls(w, {"NextWriter"})
    /\ writer' = [writer EXCEPT ![w].at = "flush", ![w].left = Flushes(Owner[w], Size[Mine(w).msg])]
    /\ UNCHANGED <<program, closed, wire, deadline, writeErr, reading, pooling, wrote, past>>

OpenedAgain(w) == "data"

FrameType(w) == IF writer[w].first THEN "data" ELSE "cont"
Final(w) == Len(writer[w].left) = 1
Flushed(w) == WholeFrame(FrameType(w), Final(w), Mine(w).msg, Head(writer[w].left))
InTwoWrites(w) == program.tls /\ writer[w].first /\ Unbuffered(Owner[w], Size[Mine(w).msg])

\* flushFrame: c.write sets the deadline of the application, and does not take
\* writeMu; a header and a payload that were not copied together are two Writes
\* where the connection has no writev.
Flush(w) ==
    LET s == Owner[w]  items == Flushed(w) IN
    /\ At(w, "flush") /\ deadline' = [deadline EXCEPT ![s] = s \in program.deadlines]
    /\ IF InTwoWrites(w) THEN Puts(s, <<items[1]>>, None) /\ Move(w, "extra")
       ELSE /\ Puts(s, items, IF Final(w) THEN Mine(w).msg ELSE None)
            /\ writer' = [writer EXCEPT ![w].at = IF Final(w) THEN "end" ELSE "flush",
                                        ![w].left = Tail(@), ![w].first = FALSE]
    /\ UNCHANGED <<program, closed, writeErr, reading, pooling>>

FlushExtra(w) ==
    /\ At(w, "extra") /\ Puts(Owner[w], Tail(Flushed(w)), None)
    /\ writer' = [writer EXCEPT ![w].at = "flush", ![w].left = Tail(@), ![w].first = FALSE]
    /\ UNCHANGED <<program, closed, deadline, writeErr, reading, pooling>>

FlushFails(w) ==
    /\ At(w, "flush") /\ Fails(Owner[w], Flushed(w)) /\ Move(w, "end")
    /\ UNCHANGED <<program, closed, deadline, writeErr, reading, pooling, wrote>>

\* endMessage: what it sets to nil is the reader.
EndMessage(w) ==
    /\ At(w, "end") /\ messageReader' = [messageReader EXCEPT ![Owner[w]] = FALSE]
    /\ Returns(w)
    /\ UNCHANGED <<program, closed, wire, deadline, writeErr, readErr, frame, reader, delivered,
                   pooling, wrote, past>>

Close(w) ==
    /\ Calls(w, {"Close"}) /\ closed' = [closed EXCEPT ![Owner[w]] = TRUE]
    /\ messageReader' = [messageReader EXCEPT ![Owner[w]] = FALSE]
    /\ Returns(w)
    /\ UNCHANGED <<program, wire, deadline, writeErr, readErr, frame, reader, delivered, pooling,
                   wrote, past>>

-----------------------------------------------------------------------------
(* The pool of workers.                                                      *)

\* Submit looks at the flag; a pool that is gone is nil.
Submit(w) ==
    /\ At(w, "submit")
    /\ panicked' = (pool.at = "nil")
    /\ IF pool.at = "open" THEN Move(w, "enqueue") ELSE Returns(w)
    /\ UNCHANGED <<program, closed, wire, deadline, writeErr, reading, pool, worker, wrote, past>>

\* And sends: to a closed channel, if Shutdown came in between.
Enqueue(w) ==
    LET task == [by |-> w, call |-> writer[w].call, msg |-> Mine(w).msg]
        full == Len(pool.queue) >= QueueCap IN
    /\ At(w, "enqueue") /\ panicked' = (pool.at \in {"shut", "nil"})
    /\ IF panicked' \/ full THEN Returns(w) /\ UNCHANGED pool
       ELSE Move(w, "wait") /\ pool' = [pool EXCEPT !.queue = Append(@, task)]
    /\ UNCHANGED <<program, closed, wire, deadline, writeErr, reading, worker, wrote, past>>

\* The timer of WriteMessage: its task stays where it is.
WaitEnds(w) ==
    /\ At(w, "wait") /\ Returns(w)
    /\ UNCHANGED <<program, closed, wire, deadline, writeErr, reading, pooling, wrote, past>>

Work(k, at) == worker' = [worker EXCEPT ![k] = [at |-> at, task |-> None]]

WorkerChecks(k) ==
    /\ worker[k].at = "check" /\ Work(k, IF pool.at = "open" THEN "get" ELSE "gone")
    /\ UNCHANGED <<program, closed, wire, deadline, writeErr, reading, writer, pool, panicked,
                   wrote, past>>

\* A task is taken, and WriteTask.Execute sets a deadline nobody takes back.
WorkerTakes(k) ==
    /\ worker[k].at = "get" /\ pool.queue # <<>>
    /\ worker' = [worker EXCEPT ![k] = [at |-> "work", task |-> Head(pool.queue)]]
    /\ pool' = [pool EXCEPT !.queue = Tail(@)]
    /\ deadline' = [deadline EXCEPT ![Owner[Head(pool.queue).by]] = TRUE]
    /\ UNCHANGED <<program, closed, wire, writeErr, reading, writer, panicked, wrote, past>>

WorkerLeaves(k) ==
    /\ worker[k].at = "get" /\ pool.queue = <<>> /\ pool.at = "shut" /\ Work(k, "gone")
    /\ UNCHANGED <<program, closed, wire, deadline, writeErr, reading, writer, pool, panicked,
                   wrote, past>>

\* The answer goes to the call that waits for it, if it still does.
Answered(t) == writer' = IF writer[t.by].at = "wait" /\ writer[t.by].call = t.call
                         THEN [writer EXCEPT ![t.by].at = "idle", ![t.by].call = @ + 1] ELSE writer

\* The frame once more, whole.
Again(t) == WholeFrame("data", TRUE, t.msg, Size[t.msg])

WorkerWrites(k) ==
    LET t == worker[k].task IN
    /\ worker[k].at = "work" /\ Puts(Owner[t.by], Again(t), t.msg) /\ Answered(t) /\ Work(k, "check")
    /\ UNCHANGED <<program, closed, deadline, writeErr, reading, pool, panicked>>

WorkerFails(k) ==
    LET t == worker[k].task IN
    /\ worker[k].at = "work" /\ Fails(Owner[t.by], Again(t)) /\ Answered(t) /\ Work(k, "check")
    /\ UNCHANGED <<program, closed, deadline, writeErr, reading, pool, panicked, wrote>>

\* CleanupPools shuts the pool down: the flag first.
CleanupPools ==
    /\ pool.at = "open" /\ program.cleans /\ pool' = [pool EXCEPT !.at = "flag"]
    /\ UNCHANGED <<program, closed, wire, deadline, writeErr, reading, writer, worker, panicked,
                   wrote, past>>

NothingMore == "flag"

\* Then the channel is closed, which wakes the workers that wait for a task.
AfterFlag == "shut"

CloseTasks ==
    /\ pool.at = "flag" /\ pool' = [pool EXCEPT !.at = AfterFlag]
    /\ UNCHANGED <<program, closed, wire, deadline, writeErr, reading, writer, worker, panicked,
                   wrote, past>>

\* When they are gone, writePool is nil.
PoolGone ==
    /\ pool.at = "shut" /\ \A k \in Workers : worker[k].at = "gone"
    /\ pool' = [pool EXCEPT !.at = "nil"]
    /\ UNCHANGED <<program, closed, wire, deadline, writeErr, reading, writer, worker, panicked,
                   wrote, past>>

-----------------------------------------------------------------------------
ReaderStep(s) == \/ NextReader(s) \/ Skip(s) \/ TakeData(s) \/ Refuse(s) \/ TakeControl(s)
                 \/ Reply(s) \/ ReplyFails(s) \/ ReplySettled(s) \/ Read(s) \/ TakePiece(s)
                 \/ EndOfMessage(s) \/ Garbled(s) \/ EndOfFile(s)

\* The steps of a call that has begun.
CallStep(w) == \/ Write(w) \/ WriteFails(w) \/ Settled(w) \/ Flush(w) \/ FlushExtra(w)
               \/ FlushFails(w) \/ EndMessage(w) \/ Submit(w) \/ Enqueue(w) \/ WaitEnds(w)

CallBegins(w) == \/ Check(w) \/ WriteControl(w) \/ ControlFails(w) \/ NextWriter(w) \/ Close(w)

WorkerStep(k) == \/ WorkerChecks(k) \/ WorkerTakes(k) \/ WorkerLeaves(k) \/ WorkerWrites(k)
                 \/ WorkerFails(k)

\* A panic in a goroutine of the application ends the program.
Next == /\ ~panicked
        /\ \/ \E s \in Sides : ReaderStep(s)
           \/ \E w \in Writers : CallStep(w) \/ CallBegins(w)
           \/ \E k \in Workers : WorkerStep(k)
           \/ CleanupPools \/ CloseTasks \/ PoolGone

Spec == Init /\ [][Next]_vars

\* Goroutines that are not blocked go on, deadlines pass, CleanupPools ends what
\* it began; nobody is obliged to begin a call.
FairSpec == /\ Spec
            /\ \A s \in Sides : WF_vars(~panicked /\ ReaderStep(s))
            /\ \A w \in Writers : WF_vars(~panicked /\ CallStep(w))
            /\ \A k \in Workers : WF_vars(~panicked /\ WorkerStep(k))
            /\ WF_vars(~panicked /\ (CloseTasks \/ PoolGone))

-----------------------------------------------------------------------------
(* Properties.                                                               *)

\* An end that reads a header where a payload should be was sent a frame that a
\* failed Write cut off, and one that reads a frame out of place a message that
\* was given up after a failed Write: the frames of concurrent
\* writers, control frames between the frames of a message and the tries of the
\* pool do not get into each other (conn.go:361, 883-954, 799-835).
FramesParse ==
    \A s \in Sides :
        /\ readErr[s] = "protocol" => past[Peer(s)].fault # "no"
        /\ readErr[s] = "garbled" => past[Peer(s)].fault = "torn"

\* What an application is given are the messages that the other end has written,
\* each whole, in order and once (conn.go:1257-1344, 549-630).
MessagesArriveInOrder ==
    \A s \in Sides :
        IsPrefix(delivered[s], [i \in DOMAIN wrote[Peer(s)] |->
                                   [msg |-> wrote[Peer(s)][i], units |-> Size[wrote[Peer(s)][i]]]])

\* A close message that was written is answered: both ends stop reading, unless a
\* Write failed (conn.go:692-701, 1211-1232).
CloseIsAnswered ==
    \A s \in Sides :
        past[s].said # "no" ~> \/ \A p \in Sides : reader[p].at = "ended"
                               \/ \E p \in Sides : past[p].fault # "no"
                               \/ panicked

\* The limit is that of one message: one that is too long is not delivered, and
\* no other is refused (conn.go:1359-1364, 1172-1186).
LimitIsExact ==
    \A s \in Sides :
        /\ readErr[s] = "limit" => TooLong(Size[reader[s].msg])
        /\ \A i \in DOMAIN delivered[s] : ~TooLong(delivered[s][i].units)

\* CleanupPools returns: its workers notice (workerpool.go:79-89).
ShutdownReturns == pool.at = "flag" ~> (pool.at = "nil" \/ panicked)

-----------------------------------------------------------------------------
(* What comments claim and the code does not do.                             *)

\* "ErrCloseSent is returned when the application writes a message to the
\* connection after sending a close message" (conn.go:91-92).
NothingAfterClose == \A s \in Sides : past[s].said # "more"

\* "Returns false if the pool is full or shutting down" (workerpool.go:66).
SubmitReturns == ~panicked

\* "WriteControl writes a control message with the given deadline"
\* (conn.go:797): the reply to a ping does not wait for ever.
ControlReturns ==
    \A s \in Sides : reader[s].at = "reply" ~> (reader[s].at # "reply" \/ panicked)
=============================================================================
