----------------------------- MODULE WsConnProofs -----------------------------
(***************************************************************************)
(* Proofs about WsConn, for any programs of the applications, messages,    *)
(* sizes of buffers and of the network, and numbers of writers and         *)
(* workers.                                                                *)
(*                                                                         *)
(* A header means something only after the headers before it.  So the      *)
(* invariant walks over what is on the wire: it gives each place the state *)
(* in which a reader comes there (Label), and says that the first is the   *)
(* state of the reader and the last that of the writers.  If the walk does *)
(* not come to the end, it is at an item no reader gets past, and a Write  *)
(* has failed.                                                             *)
(***************************************************************************)
EXTENDS WsConn, TLAPS

-----------------------------------------------------------------------------
(* What applications have to keep to.                                        *)

Says(w, dos) == \E i \in DOMAIN program.calls[w] : program.calls[w][i].do \in dos

\* The messages an end may write.
Said(p) == {m \in Messages : \E w \in Writers : \E i \in DOMAIN program.calls[w] :
                /\ Owner[w] = p
                /\ program.calls[w][i].do \in Data /\ program.calls[w][i].msg = m}

\* A goroutine that writes a message in several frames is the only one of its end
\* that writes messages, and its frames are written with their headers.
Orderly ==
    /\ \A v, w \in Writers :
          Owner[v] = Owner[w] /\ Says(v, {"NextWriter"}) /\ Says(w, Data) => v = w
    /\ \A w \in Writers : \A i \in DOMAIN program.calls[w] :
          program.calls[w][i].do = "NextWriter"
              => ~(program.tls /\ Unbuffered(Owner[w], Size[program.calls[w][i].msg]))

\* An end sends messages in one frame each.
InOneFrame(p) == \A w \in Writers : Owner[w] = p => ~Says(w, {"NextWriter"})

\* Nothing an end does but reading touches c.messageReader.
Undisturbed(s) == \A w \in Writers : Owner[w] = s => ~Says(w, {"NextWriter", "Close"})

\* An end that reads a message to its end before it asks for the next one.
ReadsToTheEnd(s) == program.reads[s] = "ReadAll" /\ Undisturbed(s)

\* ReadMessage is enough for messages in one frame, and one segment, that fit in its
\* buffer.
FitsOneRead(s) ==
    /\ program.reads[s] = "ReadMessage" /\ Undisturbed(s)
    /\ InOneFrame(Peer(s)) /\ ~program.pieces
    /\ \A m \in Said(Peer(s)) : Size[m] <= BufLen

\* The limit counts what was read since NextReader.
CountsOneMessage(s) == InOneFrame(Peer(s)) \/ ReadsToTheEnd(s)

ReadsInOrder(s) == \/ program.reads[s] = "NextReader" \/ Said(Peer(s)) = {}
                   \/ ReadsToTheEnd(s) \/ FitsOneRead(s)

-----------------------------------------------------------------------------
(* The walk over the wire.                                                   *)

\* Of a reader at a place of the wire: what is left of its frame, whether that is the
\* last of the message, which message it is, the units its headers have announced,
\* and the messages that are over.
Label == [rem : Nat, fin : BOOLEAN, of : Messages \cup {None}, units : Nat, done : Nat]

OutOfPlace(l, x) == (x.op = "data" /\ ~l.fin) \/ (x.op = "cont" /\ l.fin)

CanTake(l, x) ==
    \/ x.op \in Control /\ l.rem = 0
    \/ x.op = "data" /\ l.rem = 0 /\ l.fin
    \/ x.op = "cont" /\ l.rem = 0 /\ ~l.fin /\ x.msg = l.of
    \/ x.op = "payload" /\ l.rem > 0 /\ x.len = l.rem

\* No reader gets past it.
Blocks(l, x) ==
    \/ x.op = "torn"
    \/ x.op \notin {"payload", "torn"} /\ (l.rem > 0 \/ OutOfPlace(l, x))

Over(fin, rem) == IF fin /\ rem = 0 THEN 1 ELSE 0

After(l, x) ==
    IF x.op \in Control THEN l
    ELSE IF x.op = "payload" THEN [l EXCEPT !.rem = 0, !.done = @ + Over(l.fin, 0)]
    ELSE [rem |-> x.len, fin |-> x.fin, of |-> x.msg,
          units |-> IF x.op = "data" THEN x.len ELSE l.units + x.len,
          done |-> l.done + Over(x.fin, x.len)]

\* A label a reader of p can have, when p has written the messages ms.
Sound(p, ms, l) ==
    /\ l.of = None => l.fin /\ l.rem = 0
    /\ l.of # None => l.of \in Said(p) /\ l.units <= Size[l.of]
    /\ l.done <= Len(ms)
    /\ l.of # None /\ l.fin /\ l.rem = 0 =>
           l.done > 0 /\ ms[l.done] = l.of /\ l.units = Size[l.of]
    /\ InOneFrame(p) => l.fin

Walk(p, ms, ws, n, lab) ==
    /\ n \in 0..Len(ws) /\ lab \in [0..n -> Label]
    /\ \A i \in 1..n : CanTake(lab[i - 1], ws[i]) /\ lab[i] = After(lab[i - 1], ws[i])
    /\ \A i \in 0..n : Sound(p, ms, lab[i])

\* The frames in left have n units together: r is what is left after each.
AddUp(left, n) == \E r \in [0..Len(left) -> Nat] :
                      /\ r[0] = n /\ r[Len(left)] = 0
                      /\ \A i \in 1..Len(left) : r[i - 1] = left[i] + r[i]

\* A writer in the middle of a message.
Open(p, w) == Owner[w] = p /\ writer[w].at = "flush" /\ ~writer[w].first

\* The state in which a reader comes to the end of the wire is that of the writers.
AtWriters(p, l) ==
    /\ past[p].fault # "torn" => l.rem = 0
    /\ l.rem = 0 => /\ l.done = Len(wrote[p])
                    /\ \A w \in Writers : Open(p, w) =>
                           /\ ~l.fin /\ l.of = Mine(w).msg /\ l.units <= Size[l.of]
                           /\ AddUp(writer[w].left, Size[l.of] - l.units)
    /\ past[p].fault = "no" /\ ~l.fin => \E w \in Writers : Open(p, w)

\* The walk ends where the wire does, or where a failed Write has spoilt it.
Outcome(p, n, lab) ==
    IF n = Len(wire[p]) THEN AtWriters(p, lab[n])
    ELSE LET x == wire[p][n + 1] IN
         /\ Blocks(lab[n], x) /\ past[p].fault # "no"
         /\ past[p].fault # "torn" => lab[n].rem = 0 /\ OutOfPlace(lab[n], x)

Sent(p, n, lab) == Walk(p, wrote[p], wire[p], n, lab) /\ Outcome(p, n, lab)

\* Where a reader is: its last frame, in a message, or between two of them.
Is(s, at) == reader[s].at = at \/ (reader[s].at \in {"reply", "settle"} /\ reader[s].after = at)
Live(s) == reader[s].at # "ended" /\ ~(reader[s].at \in {"reply", "settle"} /\ reader[s].after \in Ends)
InMessage(s) == reader[s].at = "Read" \/ Is(s, "loop")
BetweenMessages(s) == reader[s].at = "next" \/ Is(s, "advance")

AtReader(s, l) ==
    /\ frame[s].rem = l.rem /\ frame[s].final = l.fin
    /\ InMessage(s) => reader[s].msg = l.of
    /\ CountsOneMessage(s) => /\ InMessage(s) => frame[s].length = l.units
                              /\ BetweenMessages(s) => l.fin
                              /\ Is(s, "advance") => frame[s].length = 0
    /\ ReadsToTheEnd(s) \/ FitsOneRead(s) =>
         /\ BetweenMessages(s) => l.rem = 0 /\ Len(delivered[s]) = l.done
         /\ InMessage(s) => /\ reader[s].got + l.rem = l.units
                         /\ Len(delivered[s]) + Over(l.fin, l.rem) = l.done

Understood(p) ==
    Live(Peer(p)) => \E n, lab : Sent(p, n, lab) /\ AtReader(Peer(p), lab[0])

-----------------------------------------------------------------------------
(* The rest of the invariant.                                                *)

Tried(t) == past[Owner[t.by]].fault # "no" /\ t.msg \in Said(Owner[t.by])

\* What is in the pool is there since a Write failed.
PoolOK ==
    /\ \A i \in DOMAIN pool.queue : Tried(pool.queue[i])
    /\ \A k \in Workers : worker[k].at = "work" => Tried(worker[k].task)

WriterOK(w) == /\ writer[w].at # "extra"
               /\ writer[w].at \in {"submit", "enqueue"} => past[Owner[w]].fault # "no"

\* An error a reader reports, now or when its reply is dealt with.
Reports(s, e) == readErr[s] = e \/ (reader[s].at \in {"reply", "settle"} /\ reader[s].after = e)

ReaderOK(s) ==
    /\ reader[s].at # "ended" => readErr[s] = None
    /\ Reports(s, "protocol") => past[Peer(s)].fault # "no"
    /\ Reports(s, "garbled") => past[Peer(s)].fault = "torn"
    /\ program.reads[s] = "NextReader" => ~InMessage(s) /\ delivered[s] = <<>>
    /\ Undisturbed(s) /\ InMessage(s) => messageReader[s]
    /\ program.reads[s] = "ReadMessage" /\ InMessage(s) => reader[s].got = 0

\* What an application has of a message is within the limit.
LimitOK(s) ==
    /\ InMessage(s) => reader[s].got + frame[s].rem <= frame[s].length /\ ~TooLong(frame[s].length)
    /\ \A i \in DOMAIN delivered[s] : ~TooLong(delivered[s][i].units)

-----------------------------------------------------------------------------
(* Types.                                                                    *)

LEMMA Peers ==
    ASSUME NEW s \in Sides
    PROVE  /\ Peer(s) \in Sides /\ Peer(s) # s /\ Peer(Peer(s)) = s
           /\ \A p \in Sides : p = s \/ p = Peer(s)
<1>1. PICK a \in Sides, b \in Sides : a # b /\ Sides = {a, b}
  BY ConnAssumption
<1>2. \E p \in Sides : p # s
  BY <1>1
<1>3. Peer(s) \in Sides /\ Peer(s) # s
  BY <1>2 DEF Peer
<1>4. Peer(Peer(s)) \in Sides /\ Peer(Peer(s)) # Peer(s)
  <2>1. \E p \in Sides : p # Peer(s)
    BY <1>3
  <2>2. QED
    BY <2>1 DEF Peer
<1>5. QED
  BY <1>1, <1>3, <1>4

\* The calls of an application.
LEMMA CallTypes ==
    ASSUME TypeOK, NEW w \in Writers
    PROVE  /\ program \in Program /\ program.calls[w] \in Seq(Call)
           /\ \A i \in DOMAIN program.calls[w] :
                 /\ program.calls[w][i] \in Call
                 /\ program.calls[w][i].do \in Data \cup Control \cup {"Close"}
                 /\ program.calls[w][i].do \in Data => program.calls[w][i].msg \in Messages
<1>1. program \in Program
  BY ConnAssumption DEF TypeOK
<1>2. program.calls[w] \in Seq(Call)
  BY <1>1 DEF Program
<1>3. ASSUME NEW i \in DOMAIN program.calls[w]
      PROVE  /\ program.calls[w][i] \in Call
             /\ program.calls[w][i].do \in Data \cup Control \cup {"Close"}
             /\ program.calls[w][i].do \in Data => program.calls[w][i].msg \in Messages
  <2>1. program.calls[w][i] \in Call
    BY <1>2
  <2>2. QED
    BY <2>1 DEF Call, Data, Control
<1>4. QED
  BY <1>1, <1>2, <1>3

\* The call a writer is in.
LEMMA MineTypes ==
    ASSUME TypeOK, NEW w \in Writers, writer[w].call \in DOMAIN program.calls[w]
    PROVE  /\ Mine(w) \in Call /\ Mine(w).do \in Data \cup Control \cup {"Close"}
           /\ Mine(w).do \in Data => Mine(w).msg \in Messages
BY CallTypes DEF Mine

LEMMA FrameTypes ==
    ASSUME NEW op \in Ops, NEW fin \in BOOLEAN, NEW m \in Messages \cup {None}, NEW n \in Nat
    PROVE  /\ Header(op, fin, m, n) \in Item
           /\ Payload(m, n) \in Seq(Item)
           /\ WholeFrame(op, fin, m, n) \in Seq(Item)
           /\ WholeFrame(op, fin, m, n) # <<>>
           /\ WholeFrame(op, fin, m, n)[1] = Header(op, fin, m, n)
           /\ Tail(WholeFrame(op, fin, m, n)) = Payload(m, n)
<1>1. Header(op, fin, m, n) \in Item
  BY DEF Header, Item
<1>2. Payload(m, n) \in Seq(Item)
  <2>1. [op |-> "payload", fin |-> FALSE, msg |-> m, len |-> n] \in Item
    BY DEF Item, Ops
  <2>2. QED
    BY <2>1 DEF Payload
<1>3. QED
  BY <1>1, <1>2 DEF WholeFrame

Past == [fault : {"no", "failed", "torn"}, said : {"no", "close", "more"}]

LEMMA PutsTypes ==
    ASSUME TypeOK, NEW s \in Sides, NEW items \in Seq(Item), items # <<>>,
           NEW m \in Messages \cup {None}, Puts(s, items, m)
    PROVE  /\ wire' \in [Sides -> Seq(Item)] /\ wrote' \in [Sides -> Seq(Messages)]
           /\ past' \in [Sides -> Past]
           /\ wire' = [wire EXCEPT ![s] = @ \o items]
           /\ wrote' = IF m = None THEN wrote ELSE [wrote EXCEPT ![s] = Append(@, m)]
           /\ \A p \in Sides : past'[p].fault = past[p].fault
<1>1. wire' \in [Sides -> Seq(Item)]
  BY DEF Puts, TypeOK
<1>2. wrote' \in [Sides -> Seq(Messages)]
  BY DEF Puts, TypeOK
<1>3. PICK y \in {"no", "close", "more"} : past' = [past EXCEPT ![s].said = y]
  <2>1. past \in [Sides -> Past]
    BY DEF TypeOK, Past
  <2>2. past[s].said \in {"no", "close", "more"}
    BY <2>1 DEF Past
  <2>3. QED
    BY <2>2 DEF Puts
<1>4. past' \in [Sides -> Past] /\ \A p \in Sides : past'[p].fault = past[p].fault
  <2>1. past \in [Sides -> Past]
    BY DEF TypeOK, Past
  <2> DEFINE n == [past[s] EXCEPT !.said = y]
  <2>2. n \in Past /\ n.fault = past[s].fault
    BY <2>1 DEF Past
  <2>3. past' = [past EXCEPT ![s] = n]
    BY <1>3
  <2> HIDE DEF n
  <2>4. QED
    BY <2>1, <2>2, <2>3
<1>5. QED
  BY <1>1, <1>2, <1>4 DEF Puts

LEMMA StumpTypes ==
    ASSUME NEW x \in Item
    PROVE  Stump(x) \in Item /\ (x.len > 0 => Stump(x) = x) /\ (x.len = 0 => Stump(x).op = "torn")
BY DEF Stump, Item, Ops

LEMMA FailsTypes ==
    ASSUME TypeOK, NEW s \in Sides, NEW items \in Seq(Item), items # <<>>, Fails(s, items)
    PROVE  /\ wire' \in [Sides -> Seq(Item)] /\ past' \in [Sides -> Past]
           /\ \A p \in Sides : p # s => wire'[p] = wire[p] /\ past'[p] = past[p]
           /\ \/ wire' = wire /\ past'[s].fault = IF past[s].fault = "torn" THEN "torn" ELSE "failed"
              \/ wire' = [wire EXCEPT ![s] = Append(@, Stump(items[1]))] /\ past'[s].fault = "torn"
<1>1. past \in [Sides -> Past] /\ wire \in [Sides -> Seq(Item)]
  BY DEF TypeOK, Past
<1>2. items[1] \in Item
  OBVIOUS
<1>3. Stump(items[1]) \in Item
  BY <1>2, StumpTypes
<1>4. PICK f \in {"failed", "torn"} :
         /\ past' = [past EXCEPT ![s].fault = f]
         /\ \/ wire' = wire /\ f = IF past[s].fault = "torn" THEN "torn" ELSE "failed"
            \/ wire' = [wire EXCEPT ![s] = Append(@, Stump(items[1]))] /\ f = "torn"
  <2>1. CASE wire' = wire /\ past' = [past EXCEPT ![s].fault = IF @ = "torn" THEN @ ELSE "failed"]
    <3>1. PICK f : f = IF past[s].fault = "torn" THEN "torn" ELSE "failed"
      OBVIOUS
    <3>2. past' = [past EXCEPT ![s].fault = f] /\ f \in {"failed", "torn"}
      BY <2>1, <3>1
    <3>3. QED
      BY <2>1, <3>1, <3>2
  <2>2. CASE wire' = [wire EXCEPT ![s] = Append(@, Stump(items[1]))] /\ past' = [past EXCEPT ![s].fault = "torn"]
    BY <2>2
  <2>3. QED
    BY <2>1, <2>2 DEF Fails
<1> DEFINE n == [past[s] EXCEPT !.fault = f]
<1>5. n \in Past /\ n.fault = f
  BY <1>1 DEF Past
<1>6. past' = [past EXCEPT ![s] = n]
  BY <1>4
<1> HIDE DEF n
<1>7. past' \in [Sides -> Past] /\ past'[s].fault = f /\ \A p \in Sides : p # s => past'[p] = past[p]
  BY <1>1, <1>5, <1>6
<1>8. CASE wire' = wire /\ f = IF past[s].fault = "torn" THEN "torn" ELSE "failed"
  BY <1>1, <1>7, <1>8
<1>9. CASE wire' = [wire EXCEPT ![s] = Append(@, Stump(items[1]))] /\ f = "torn"
  BY <1>1, <1>3, <1>7, <1>9
<1>10. QED
  BY <1>4, <1>8, <1>9

Frames == [rem : Nat, final : BOOLEAN, length : Nat]

Readers == [at : {"next", "advance", "Read", "loop", "reply", "settle", "ended"},
            msg : Messages \cup {None}, got : Nat,
            op : Control \cup {None}, err : Errors,
            after : {"advance", "loop"} \cup Ends \cup {None}]

WriterStates == [at : {"idle", "write", "flush", "extra", "end", "settle", "submit", "enqueue", "wait"},
                 call : Nat, left : Seq(Nat), first : BOOLEAN, err : Errors]

WorkerStates == [at : {"check", "get", "work", "gone"}, task : Task \cup {None}]

Deliveries == [msg : Messages, units : Nat]

\* The parts of TypeOK.
LEMMA Types ==
    ASSUME TypeOK
    PROVE  /\ program \in Programs /\ closed \in [Sides -> BOOLEAN]
           /\ wire \in [Sides -> Seq(Item)] /\ deadline \in [Sides -> BOOLEAN]
           /\ writeErr \in [Sides -> Errors] /\ readErr \in [Sides -> Ends \cup {None}]
           /\ messageReader \in [Sides -> BOOLEAN]
           /\ frame \in [Sides -> Frames] /\ reader \in [Sides -> Readers]
           /\ writer \in [Writers -> WriterStates]
           /\ pool \in [at : {"open", "flag", "shut", "nil"}, queue : Seq(Task)]
           /\ worker \in [Workers -> WorkerStates] /\ panicked \in BOOLEAN
           /\ wrote \in [Sides -> Seq(Messages)]
           /\ delivered \in [Sides -> Seq(Deliveries)]
           /\ past \in [Sides -> Past]
BY DEF TypeOK, Frames, Readers, WriterStates, WorkerStates, Deliveries, Past

\* A data frame is one of a message.
WireNames == \A p \in Sides : \A i \in DOMAIN wire[p] :
                 wire[p][i].op \in {"data", "cont"} => wire[p][i].msg # None

\* What a reader needs where it is.
ReaderFits == \A s \in Sides :
    /\ InMessage(s) => reader[s].msg # None
    /\ reader[s].at \in {"reply", "settle"} => reader[s].op # None /\ reader[s].after # None

\* What a writer needs where it is.
WriterFits(w) ==
    /\ writer[w].call > 0
    /\ writer[w].at # "idle" => writer[w].call <= Len(program.calls[w])
    /\ writer[w].at = "write" => Mine(w).do \in {"WriteMessage", "WriteMessageDirect"}
    /\ writer[w].at \in {"submit", "enqueue", "wait"} => Mine(w).do = "WriteMessage"
    /\ writer[w].at \in {"flush", "extra", "end"} => Mine(w).do = "NextWriter"
    /\ writer[w].at \notin {"flush", "end"} => writer[w].first
    /\ writer[w].at \in {"flush", "extra"} =>
           /\ writer[w].left # <<>>
           /\ writer[w].first => writer[w].left = Flushes(Owner[w], Size[Mine(w).msg])
    /\ writer[w].at = "extra" => InTwoWrites(w)

WorkersFit == \A k \in Workers : worker[k].at = "work" => worker[k].task \in Task

TypeInv == TypeOK /\ WireNames /\ ReaderFits /\ (\A w \in Writers : WriterFits(w)) /\ WorkersFit

LEMMA Multiples ==
    ASSUME NEW k \in Nat, NEW w \in Nat
    PROVE  k * w \in Nat /\ (k + 1) * w = k * w + w /\ \A i \in 0..k : i * w \in Nat /\ i * w <= k * w
BY SMT

LEMMA Quotient ==
    ASSUME NEW n \in Nat, NEW w \in Nat \ {0}
    PROVE  n \div w \in Nat /\ (n \div w) * w \in Nat /\ (n \div w) * w <= n
<1>1. n \div w \in Nat
  BY SMT
<1>2. n = (n \div w) * w + (n % w)
  BY SMT
<1>3. n % w >= 0
  BY SMT
<1> QED
  BY <1>1, <1>2, <1>3, Multiples

\* The frames of a message have its units together.
LEMMA FlushesAddUp ==
    ASSUME NEW s \in Sides, NEW n \in Nat
    PROVE  Flushes(s, n) \in Seq(Nat) /\ Flushes(s, n) # <<>> /\ AddUp(Flushes(s, n), n)
<1>1. CASE Unbuffered(s, n)
  <2> DEFINE r == [i \in 0..2 |-> IF i = 0 THEN n ELSE 0]
  <2>1. Flushes(s, n) = <<n, 0>>
    BY <1>1 DEF Flushes
  <2>2. /\ r \in [0..Len(<<n, 0>>) -> Nat] /\ r[0] = n /\ r[Len(<<n, 0>>)] = 0
        /\ \A i \in 1..Len(<<n, 0>>) : r[i - 1] = <<n, 0>>[i] + r[i]
    OBVIOUS
  <2> HIDE DEF r
  <2>3. AddUp(<<n, 0>>, n)
    BY <2>2 DEF AddUp
  <2>4. QED
    BY <2>1, <2>3
<1>2. CASE ~Unbuffered(s, n)
  <2>1. PICK k : k = IF n = 0 THEN 0 ELSE (n - 1) \div WriteBuf
    OBVIOUS
  <2>2. WriteBuf \in Nat \ {0}
    BY ConnAssumption
  <2>3. k \in Nat /\ k * WriteBuf \in Nat /\ k * WriteBuf <= n
    BY <2>1, <2>2, Quotient
  <2> DEFINE q == [i \in 1..(k + 1) |-> IF i <= k THEN WriteBuf ELSE n - k * WriteBuf]
             r == [i \in 0..(k + 1) |-> IF i <= k THEN n - i * WriteBuf ELSE 0]
  <2>4. Flushes(s, n) = q
    BY <1>2, <2>1 DEF Flushes
  <2>5. q \in Seq(Nat) /\ Len(q) = k + 1 /\ q # <<>>
    <3>1. q \in [1..(k + 1) -> Nat]
      BY <2>2, <2>3
    <3> HIDE DEF q
    <3>2. QED
      BY <2>3, <3>1
  <2>6. r \in [0..Len(q) -> Nat] /\ r[0] = n /\ r[Len(q)] = 0
    <3>2. ASSUME NEW i \in 0..k
          PROVE  n - i * WriteBuf \in Nat
      <4>1. PICK x : x = i * WriteBuf
        OBVIOUS
      <4>2. x \in Nat /\ x <= n
        <5>1. x \in Nat /\ x <= k * WriteBuf
          BY <2>2, <2>3, <4>1, Multiples
        <5>2. QED
          BY <2>3, <5>1
      <4>3. n - x \in Nat
        BY <4>2
      <4>4. QED
        BY <4>1, <4>3
    <3>3. 0 * WriteBuf = 0
      BY <2>2
    <3>4. QED
      BY <2>3, <2>5, <3>2, <3>3
  <2>7. ASSUME NEW i \in 1..Len(q)
        PROVE  r[i - 1] = q[i] + r[i]
    <3>1. i \in 1..(k + 1) /\ i - 1 \in 0..k /\ i \in 0..(k + 1)
      BY <2>3, <2>5
    <3>2. r[i - 1] = n - (i - 1) * WriteBuf
      BY <2>3, <3>1
    <3>3. CASE i <= k
      <4>1. PICK j \in Nat : j = i - 1
        BY <3>1
      <4>2. i * WriteBuf = j * WriteBuf + WriteBuf /\ j * WriteBuf \in Nat
        BY <2>2, <4>1, Multiples
      <4>3. q[i] = WriteBuf /\ r[i] = n - i * WriteBuf
        BY <2>3, <3>1, <3>3
      <4> HIDE DEF q, r
      <4>4. QED
        BY <2>2, <3>2, <4>1, <4>2, <4>3
    <3>4. CASE i = k + 1
      <4>1. q[i] = n - k * WriteBuf /\ r[i] = 0 /\ i - 1 = k
        BY <2>3, <3>1, <3>4
      <4> HIDE DEF q, r
      <4>2. QED
        BY <2>3, <3>2, <4>1
    <3>5. QED
      BY <2>3, <3>1, <3>3, <3>4
  <2> HIDE DEF q, r
  <2>8. AddUp(q, n)
    BY <2>6, <2>7 DEF AddUp
  <2>9. QED
    BY <2>4, <2>5, <2>8
<1>3. QED
  BY <1>1, <1>2

-----------------------------------------------------------------------------
(* What the parts of a step do.                                              *)

\* A reader becomes this, and no other reader changes.
Moves(s, at, msg, got, op, after) ==
    /\ reader' \in [Sides -> Readers]
    /\ \A p \in Sides : p # s => reader'[p] = reader[p]
    /\ reader'[s].at = at /\ reader'[s].msg = msg /\ reader'[s].got = got
    /\ reader'[s].op = op /\ reader'[s].after = after

\* It goes somewhere else, and keeps the rest.
Steps(s, at) == Moves(s, at, reader[s].msg, reader[s].got, reader[s].op, reader[s].after)

Framed(s, rem, final, length) ==
    /\ frame' \in [Sides -> Frames]
    /\ \A p \in Sides : p # s => frame'[p] = frame[p]
    /\ frame'[s].rem = rem /\ frame'[s].final = final /\ frame'[s].length = length

\* An end is given n units of a message.
Gains(s, m, n) ==
    /\ delivered' \in [Sides -> Seq(Deliveries)]
    /\ \A p \in Sides : p # s => delivered'[p] = delivered[p]
    /\ delivered'[s] = Append(delivered[s], [msg |-> m, units |-> n])

\* The head of what came to s is gone.
Taken(s) ==
    /\ In(s) # <<>> /\ wire' \in [Sides -> Seq(Item)]
    /\ \A p \in Sides : p # Peer(s) => wire'[p] = wire[p]
    /\ wire'[Peer(s)] = Tail(In(s))

\* Of the payload at the head of what came to s, n units are gone.
Shortened(s, n) ==
    /\ In(s) # <<>> /\ wire' \in [Sides -> Seq(Item)]
    /\ \A p \in Sides : p # Peer(s) => wire'[p] = wire[p]
    /\ Len(wire'[Peer(s)]) = Len(In(s))
    /\ \A i \in 2..Len(In(s)) : wire'[Peer(s)][i] = In(s)[i]
    /\ wire'[Peer(s)][1] \in Item /\ wire'[Peer(s)][1].op = "payload"
    /\ wire'[Peer(s)][1].len = In(s)[1].len - n

LEMMA ReaderBecomes ==
    ASSUME TypeOK, NEW s \in Sides, NEW n \in Readers, reader' = [reader EXCEPT ![s] = n]
    PROVE  Moves(s, n.at, n.msg, n.got, n.op, n.after)
BY Types DEF Moves

LEMMA Goes ==
    ASSUME TypeOK, NEW s \in Sides,
           NEW at \in {"next", "advance", "Read", "loop", "reply", "settle", "ended"},
           reader' = [reader EXCEPT ![s].at = at]
    PROVE  Steps(s, at)
<1> DEFINE n == [reader[s] EXCEPT !.at = at]
<1>1. reader[s] \in Readers
  BY Types
<1>2. n \in Readers /\ n.at = at /\ n.msg = reader[s].msg /\ n.got = reader[s].got
      /\ n.op = reader[s].op /\ n.after = reader[s].after
  BY <1>1 DEF Readers
<1>3. reader' = [reader EXCEPT ![s] = n]
  BY Types
<1> HIDE DEF n
<1>4. Moves(s, n.at, n.msg, n.got, n.op, n.after)
  BY <1>2, <1>3, ReaderBecomes
<1>5. QED
  BY <1>2, <1>4 DEF Steps

LEMMA FrameBecomes ==
    ASSUME TypeOK, NEW s \in Sides, NEW f \in Frames, frame' = [frame EXCEPT ![s] = f]
    PROVE  Framed(s, f.rem, f.final, f.length)
BY Types DEF Framed

LEMMA Gives ==
    ASSUME TypeOK, NEW s \in Sides, NEW n \in Nat, reader[s].msg # None, Given(s, n)
    PROVE  Gains(s, reader[s].msg, n)
<1>1. reader[s] \in Readers
  BY Types
<1>2. reader[s].msg \in Messages
  BY <1>1 DEF Readers
<1>3. [msg |-> reader[s].msg, units |-> n] \in Deliveries
  BY <1>2 DEF Deliveries
<1>4. delivered' = [delivered EXCEPT ![s] = Append(@, [msg |-> reader[s].msg, units |-> n])]
  BY DEF Given
<1>5. QED
  BY <1>3, <1>4, Types DEF Gains

LEMMA Takes ==
    ASSUME TypeOK, NEW s \in Sides, In(s) # <<>>,
           wire' = [wire EXCEPT ![Peer(s)] = Tail(@)]
    PROVE  Taken(s)
BY Types, Peers DEF Taken, In

LEMMA Consumes ==
    ASSUME TypeOK, NEW s \in Sides, NEW n \in Nat, n <= frame[s].rem, n <= Head(In(s)).len, Consume(s, n)
    PROVE  /\ In(s) # <<>> /\ In(s)[1] \in Item /\ In(s)[1].op = "payload"
           /\ Framed(s, frame[s].rem - n, frame[s].final, frame[s].length)
           /\ n = In(s)[1].len => Taken(s)
           /\ n # In(s)[1].len => Shortened(s, n)
<1>1. In(s) \in Seq(Item) /\ In(s) # <<>> /\ Head(In(s)) = In(s)[1] /\ In(s)[1] \in Item
  <2>1. In(s) \in Seq(Item) /\ In(s) # <<>>
    BY Types, Peers DEF In, Consume
  <2>2. QED
    BY <2>1
<1>2. In(s)[1].op = "payload"
  BY <1>1 DEF Consume
<1>3. Framed(s, frame[s].rem - n, frame[s].final, frame[s].length)
  <2> DEFINE f == [frame[s] EXCEPT !.rem = @ - n]
  <2>1. frame[s] \in Frames
    BY Types
  <2>2. frame[s].rem - n \in Nat
    BY <2>1 DEF Frames
  <2>3. f \in Frames /\ f.rem = frame[s].rem - n /\ f.final = frame[s].final /\ f.length = frame[s].length
    BY <2>1, <2>2 DEF Frames
  <2>4. frame' = [frame EXCEPT ![s] = f]
    BY Types DEF Consume
  <2> HIDE DEF f
  <2>5. Framed(s, f.rem, f.final, f.length)
    BY <2>3, <2>4, FrameBecomes
  <2>6. QED
    BY <2>3, <2>5
<1>4. n = In(s)[1].len => Taken(s)
  BY <1>1, Takes DEF Consume, In
<1>5. ASSUME n # In(s)[1].len
      PROVE  Shortened(s, n)
  <2> DEFINE y == [Head(In(s)) EXCEPT !.len = @ - n]
  <2>1. In(s)[1].len - n \in Nat
    BY <1>1 DEF Item
  <2>2. y \in Item /\ y.op = "payload" /\ y.len = In(s)[1].len - n
    BY <1>1, <1>2, <2>1 DEF Item
  <2>3. wire' = [wire EXCEPT ![Peer(s)] = <<y>> \o Tail(@)]
    <3>1. wire' = [wire EXCEPT ![Peer(s)] = IF n = Head(In(s)).len THEN Tail(In(s))
                                            ELSE <<[Head(In(s)) EXCEPT !.len = @ - n]>> \o Tail(In(s))]
      BY DEF Consume, In
    <3>2. n # Head(In(s)).len
      BY <1>1, <1>5
    <3>3. wire' = [wire EXCEPT ![Peer(s)] = <<[Head(In(s)) EXCEPT !.len = @ - n]>> \o Tail(In(s))]
      BY <3>1, <3>2
    <3>4. QED
      BY <3>3 DEF In
  <2> HIDE DEF y
  <2>4. wire'[Peer(s)] = <<y>> \o Tail(In(s)) /\ \A p \in Sides : p # Peer(s) => wire'[p] = wire[p]
    BY <2>3, Types, Peers DEF In
  <2>5. wire' \in [Sides -> Seq(Item)]
    BY <1>1, <2>2, <2>3, Types, Peers DEF In
  <2>6. QED
    BY <1>1, <2>2, <2>4, <2>5 DEF Shortened
<1>6. QED
  BY <1>1, <1>2, <1>3, <1>4, <1>5

-----------------------------------------------------------------------------
(* What each step of a reader does.                                          *)

Stays == UNCHANGED <<program, closed, deadline, writer, pool, worker, panicked>>

LEMMA NextReaderDoes ==
    ASSUME TypeInv, NEW s \in Sides, NextReader(s)
    PROVE  /\ Stays /\ UNCHANGED <<wire, writeErr, readErr, delivered, wrote, past>>
           /\ reader[s].at = "next" /\ Steps(s, "advance")
           /\ Framed(s, frame[s].rem, frame[s].final, 0)
           /\ messageReader' = [messageReader EXCEPT ![s] = FALSE]
<1>1. TypeOK
  BY DEF TypeInv
<1>2. Framed(s, frame[s].rem, frame[s].final, 0)
  <2> DEFINE f == [frame[s] EXCEPT !.length = 0]
  <2>1. frame[s] \in Frames
    BY <1>1, Types
  <2>2. f \in Frames /\ f.rem = frame[s].rem /\ f.final = frame[s].final /\ f.length = 0
    BY <2>1 DEF Frames
  <2>3. frame' = [frame EXCEPT ![s] = f]
    BY <1>1, Types DEF NextReader, Fresh
  <2> HIDE DEF f
  <2>4. Framed(s, f.rem, f.final, f.length)
    BY <1>1, <2>2, <2>3, FrameBecomes
  <2>5. QED
    BY <2>2, <2>4
<1>3. Steps(s, "advance")
  BY <1>1, Goes DEF NextReader, Go
<1>4. QED
  BY <1>2, <1>3 DEF NextReader, Stays, pooling

LEMMA SkipDoes ==
    ASSUME TypeInv, NEW s \in Sides, Skip(s)
    PROVE  /\ Stays /\ UNCHANGED <<writeErr, readErr, messageReader, reader, delivered, wrote, past>>
           /\ reader[s].at = "advance" /\ frame[s].rem > 0
           /\ In(s) # <<>> /\ In(s)[1] \in Item /\ In(s)[1].op = "payload"
           /\ \E n \in Nat :
                 /\ n <= frame[s].rem /\ n <= In(s)[1].len
                 /\ Framed(s, frame[s].rem - n, frame[s].final, frame[s].length)
                 /\ n = In(s)[1].len => Taken(s)
                 /\ n # In(s)[1].len => Shortened(s, n)
<1>1. TypeOK
  BY DEF TypeInv
<1>2. In(s) # <<>> /\ In(s) \in Seq(Item)
  BY <1>1, Types, Peers DEF Skip, In
<1>3. Head(In(s)) = In(s)[1] /\ In(s)[1] \in Item
  BY <1>2
<1>4. frame[s].rem \in Nat /\ In(s)[1].len \in Nat
  <2>1. frame[s] \in Frames
    BY <1>1, Types
  <2>2. QED
    BY <2>1, <1>3 DEF Frames, Item
<1>5. PICK n \in Nat : n = Lesser(frame[s].rem, Head(In(s)).len)
  BY <1>3, <1>4 DEF Lesser
<1>6. n <= frame[s].rem /\ n <= Head(In(s)).len
  BY <1>3, <1>4, <1>5 DEF Lesser
<1>7. Consume(s, n)
  BY <1>5 DEF Skip
<1>8. /\ In(s)[1].op = "payload"
      /\ Framed(s, frame[s].rem - n, frame[s].final, frame[s].length)
      /\ n = In(s)[1].len => Taken(s)
      /\ n # In(s)[1].len => Shortened(s, n)
  BY <1>1, <1>6, <1>7, Consumes
<1>9. Stays /\ UNCHANGED <<writeErr, readErr, messageReader, reader, delivered, wrote, past>>
  BY DEF Skip, Stays, pooling
<1>10. reader[s].at = "advance" /\ frame[s].rem > 0
  BY DEF Skip
<1>11. QED
  BY <1>2, <1>3, <1>6, <1>8, <1>9, <1>10

LEMMA AtHeaderIs ==
    ASSUME TypeInv, NEW s \in Sides, AtHeader(s)
    PROVE  /\ In(s) # <<>> /\ In(s) \in Seq(Item) /\ Head(In(s)) = In(s)[1] /\ In(s)[1] \in Item
           /\ In(s)[1].op \in {"data", "cont"} \cup Control /\ frame[s].rem = 0
           /\ In(s)[1].op \in {"data", "cont"} => In(s)[1].msg \in Messages
           /\ reader[s].at = "advance" \/ (reader[s].at = "loop" /\ ~frame[s].final)
<1>1. In(s) # <<>> /\ In(s) \in Seq(Item)
  BY Types, Peers DEF AtHeader, In, TypeInv
<1>2. Head(In(s)) = In(s)[1] /\ In(s)[1] \in Item /\ 1 \in DOMAIN wire[Peer(s)]
  BY <1>1 DEF In
<1>3. In(s)[1].op \in {"data", "cont"} \cup Control
  BY <1>2 DEF AtHeader, Item, Ops, Control
<1>4. In(s)[1].op \in {"data", "cont"} => In(s)[1].msg \in Messages
  BY <1>2, Peers DEF Item, TypeInv, WireNames, In
<1>5. QED
  BY <1>1, <1>2, <1>3, <1>4 DEF AtHeader

LEMMA TakeDataDoes ==
    ASSUME TypeInv, NEW s \in Sides, TakeData(s)
    PROVE  LET h == In(s)[1]  long == TooLong(frame[s].length + h.len) IN
           /\ Stays /\ UNCHANGED <<writeErr, readErr, delivered, wrote, past>>
           /\ AtHeader(s) /\ h.op \in {"data", "cont"} /\ ~Misplaced(s, h)
           /\ Taken(s) /\ Framed(s, h.len, h.fin, frame[s].length + h.len)
           /\ messageReader' \in [Sides -> BOOLEAN]
           /\ \A p \in Sides : messageReader[p] => messageReader'[p]
           /\ long => Moves(s, "reply", h.msg, reader[s].got, "close", "limit")
           /\ ~long /\ h.op = "data" =>
                 /\ Moves(s, IF program.reads[s] = "NextReader" THEN "next" ELSE "Read", h.msg, 0,
                          reader[s].op, reader[s].after)
                 /\ messageReader'[s]
           /\ ~long /\ h.op = "cont" => reader' = reader
<1>1. TypeOK
  BY DEF TypeInv
<1>2. AtHeader(s)
  BY DEF TakeData
<1>3. PICK h \in Item : h = In(s)[1] /\ h = Head(In(s))
  BY <1>2, AtHeaderIs
<1>4. h.op \in {"data", "cont"} /\ ~Misplaced(s, h) /\ h.msg \in Messages
  BY <1>2, <1>3, AtHeaderIs DEF TakeData
<1>5. Taken(s)
  BY <1>1, <1>2, AtHeaderIs, Takes DEF TakeData
<1>6. Framed(s, h.len, h.fin, frame[s].length + h.len)
  <2>1. PICK f : f = [rem |-> h.len, final |-> h.fin, length |-> frame[s].length + h.len]
    OBVIOUS
  <2>2. frame[s] \in Frames
    BY <1>1, Types
  <2>3. f \in Frames /\ f.rem = h.len /\ f.final = h.fin /\ f.length = frame[s].length + h.len
    BY <2>1, <2>2 DEF Frames, Item
  <2>4. frame' = [frame EXCEPT ![s] = f]
    BY <1>3, <2>1 DEF TakeData
  <2>5. Framed(s, f.rem, f.final, f.length)
    BY <1>1, <2>3, <2>4, FrameBecomes
  <2>6. QED
    BY <2>3, <2>5
<1>7. /\ messageReader' \in [Sides -> BOOLEAN]
      /\ \A p \in Sides : messageReader[p] => messageReader'[p]
      /\ ~TooLong(frame[s].length + h.len) /\ h.op = "data" => messageReader'[s]
  <2>1. PICK b \in BOOLEAN : b = (messageReader[s] \/ (h.op = "data" /\ ~TooLong(frame[s].length + h.len)))
    OBVIOUS
  <2>2. messageReader' = [messageReader EXCEPT ![s] = b]
    BY <1>3, <2>1, Zenon DEF TakeData
  <2>3. QED
    BY <1>1, <2>1, <2>2, Types
<1>8. ASSUME TooLong(frame[s].length + h.len)
      PROVE  Moves(s, "reply", h.msg, reader[s].got, "close", "limit")
  <2> DEFINE n == [reader[s] EXCEPT !.at = "reply", !.op = "close", !.after = "limit", !.msg = h.msg]
  <2>1. reader[s] \in Readers
    BY <1>1, Types
  <2>2. n \in Readers /\ n.at = "reply" /\ n.msg = h.msg /\ n.got = reader[s].got
        /\ n.op = "close" /\ n.after = "limit"
    BY <1>4, <2>1 DEF Readers, Control, Ends
  <2>3. reader' = [reader EXCEPT ![s] = n]
    BY <1>1, <1>3, <1>8, Types DEF TakeData
  <2> HIDE DEF n
  <2>4. Moves(s, n.at, n.msg, n.got, n.op, n.after)
    BY <1>1, <2>2, <2>3, ReaderBecomes
  <2>5. QED
    BY <2>2, <2>4
<1>9. ASSUME ~TooLong(frame[s].length + h.len), h.op = "data"
      PROVE  Moves(s, IF program.reads[s] = "NextReader" THEN "next" ELSE "Read", h.msg, 0,
                   reader[s].op, reader[s].after)
  <2>1. PICK at \in {"next", "Read"} : at = IF program.reads[s] = "NextReader" THEN "next" ELSE "Read"
    OBVIOUS
  <2> DEFINE n == [reader[s] EXCEPT !.at = at, !.msg = h.msg, !.got = 0]
  <2>2. reader[s] \in Readers
    BY <1>1, Types
  <2>3. n \in Readers /\ n.at = at /\ n.msg = h.msg /\ n.got = 0
        /\ n.op = reader[s].op /\ n.after = reader[s].after
    BY <1>4, <2>2 DEF Readers
  <2>4. reader' = [reader EXCEPT ![s] = n]
    BY <1>1, <1>3, <1>9, <2>1, Types DEF TakeData
  <2> HIDE DEF n
  <2>5. Moves(s, n.at, n.msg, n.got, n.op, n.after)
    BY <1>1, <2>3, <2>4, ReaderBecomes
  <2>6. QED
    BY <2>1, <2>3, <2>5
<1>10. ASSUME ~TooLong(frame[s].length + h.len), h.op = "cont"
       PROVE  reader' = reader
  BY <1>1, <1>3, <1>10, Types DEF TakeData
<1>11. Stays /\ UNCHANGED <<writeErr, readErr, delivered, wrote, past>>
  BY DEF TakeData, Stays, pooling
<1>12. QED
  BY <1>2, <1>3, <1>4, <1>5, <1>6, <1>7, <1>8, <1>9, <1>10, <1>11

LEMMA RefuseDoes ==
    ASSUME TypeInv, NEW s \in Sides, Refuse(s)
    PROVE  /\ Stays /\ UNCHANGED <<writeErr, readErr, messageReader, frame, delivered, wrote, past>>
           /\ AtHeader(s) /\ Misplaced(s, In(s)[1]) /\ Taken(s)
           /\ Moves(s, "reply", reader[s].msg, reader[s].got, "close", "protocol")
<1>1. TypeOK
  BY DEF TypeInv
<1>2. AtHeader(s) /\ Misplaced(s, In(s)[1])
  BY AtHeaderIs DEF Refuse
<1>3. Taken(s)
  BY <1>1, <1>2, AtHeaderIs, Takes DEF Refuse
<1>4. Moves(s, "reply", reader[s].msg, reader[s].got, "close", "protocol")
  <2> DEFINE n == [reader[s] EXCEPT !.at = "reply", !.op = "close", !.after = "protocol"]
  <2>1. reader[s] \in Readers
    BY <1>1, Types
  <2>2. n \in Readers /\ n.at = "reply" /\ n.msg = reader[s].msg /\ n.got = reader[s].got
        /\ n.op = "close" /\ n.after = "protocol"
    BY <2>1 DEF Readers, Control, Ends
  <2>3. reader' = [reader EXCEPT ![s] = n]
    BY <1>1, Types DEF Refuse
  <2> HIDE DEF n
  <2>4. Moves(s, n.at, n.msg, n.got, n.op, n.after)
    BY <1>1, <2>2, <2>3, ReaderBecomes
  <2>5. QED
    BY <2>2, <2>4
<1>5. QED
  BY <1>2, <1>3, <1>4 DEF Refuse, Stays, pooling

LEMMA TakeControlDoes ==
    ASSUME TypeInv, NEW s \in Sides, TakeControl(s)
    PROVE  /\ Stays /\ UNCHANGED <<writeErr, readErr, messageReader, frame, delivered, wrote, past>>
           /\ AtHeader(s) /\ In(s)[1].op \in Control /\ Taken(s)
           /\ \/ reader' = reader
              \/ Moves(s, "reply", reader[s].msg, reader[s].got, "pong", reader[s].at)
              \/ Moves(s, "reply", reader[s].msg, reader[s].got, "close", "close")
<1>1. TypeOK
  BY DEF TypeInv
<1>2. AtHeader(s) /\ In(s)[1].op \in Control
  BY AtHeaderIs DEF TakeControl
<1>3. Taken(s)
  BY <1>1, <1>2, AtHeaderIs, Takes DEF TakeControl
<1>4. reader[s] \in Readers /\ reader[s].at \in {"advance", "loop"}
  BY <1>1, <1>2, AtHeaderIs, Types
<1>5. ASSUME NEW op \in {"pong", "close"}, NEW after \in {"advance", "loop", "close"},
             reader' = [reader EXCEPT ![s].at = "reply", ![s].op = op, ![s].after = after]
      PROVE  Moves(s, "reply", reader[s].msg, reader[s].got, op, after)
  <2> DEFINE n == [reader[s] EXCEPT !.at = "reply", !.op = op, !.after = after]
  <2>1. n \in Readers /\ n.at = "reply" /\ n.msg = reader[s].msg /\ n.got = reader[s].got
        /\ n.op = op /\ n.after = after
    BY <1>4 DEF Readers, Control, Ends
  <2>2. reader' = [reader EXCEPT ![s] = n]
    BY <1>1, <1>5, Types
  <2> HIDE DEF n
  <2>3. Moves(s, n.at, n.msg, n.got, n.op, n.after)
    BY <1>1, <2>1, <2>2, ReaderBecomes
  <2>4. QED
    BY <2>1, <2>3
<1>7. CASE In(s)[1].op = "ping"
  <2>1. reader' = [reader EXCEPT ![s].at = "reply", ![s].op = "pong", ![s].after = reader[s].at]
        /\ UNCHANGED readErr
    BY <1>2, <1>7, AtHeaderIs, ConnAssumption DEF TakeControl, Replies, Control
  <2>2. QED
    BY <1>2, <1>3, <1>4, <1>5, <2>1 DEF TakeControl, Stays, pooling
<1>8. CASE In(s)[1].op = "close"
  <2>1. reader' = [reader EXCEPT ![s].at = "reply", ![s].op = "close", ![s].after = "close"]
        /\ UNCHANGED readErr
    BY <1>2, <1>8, AtHeaderIs, ConnAssumption DEF TakeControl, Replies, Control
  <2>2. QED
    BY <1>2, <1>3, <1>5, <2>1 DEF TakeControl, Stays, pooling
<1>9. CASE In(s)[1].op = "pong"
  <2>1. UNCHANGED <<reader, readErr>>
    BY <1>2, <1>4, <1>9, AtHeaderIs, ConnAssumption DEF TakeControl, Replies, Control
  <2>2. QED
    BY <1>2, <1>3, <2>1 DEF TakeControl, Stays, pooling
<1>10. QED
  BY <1>2, <1>7, <1>8, <1>9 DEF Control

Ended(s, e) == readErr' = [readErr EXCEPT ![s] = e] /\ Steps(s, "ended")

Resumed(s) == \/ reader[s].after \in Ends /\ Ended(s, reader[s].after)
              \/ reader[s].after \in {"advance", "loop"} /\ Steps(s, reader[s].after) /\ UNCHANGED readErr

LEMMA ReaderPlaces ==
    ASSUME TypeInv, NEW s \in Sides
    PROVE  /\ reader[s] \in Readers /\ frame[s] \in Frames
           /\ reader[s].at \in {"reply", "settle"} =>
                 reader[s].op \in Control /\ reader[s].after \in {"advance", "loop"} \cup Ends
           /\ reader[s].got \in Nat
           /\ frame[s].rem \in Nat /\ frame[s].final \in BOOLEAN /\ frame[s].length \in Nat
           /\ {"advance", "loop"} \cap Ends = {}
<1>1. reader[s] \in Readers /\ frame[s] \in Frames
  BY Types DEF TypeInv
<1>2. ReaderFits
  BY DEF TypeInv
<1>3. QED
  BY <1>1, <1>2 DEF ReaderFits, Readers, Frames, Ends

LEMMA ControlItem ==
    ASSUME NEW op \in Control
    PROVE  /\ ControlFrame(op) \in Seq(Item) /\ ControlFrame(op) # <<>> /\ Len(ControlFrame(op)) = 1
           /\ ControlFrame(op)[1] \in Item /\ ControlFrame(op)[1].op = op
           /\ ControlFrame(op)[1].len = 0
<1>1. Header(op, TRUE, None, 0) \in Item
  BY DEF Header, Item, Ops
<1>2. QED
  BY <1>1 DEF ControlFrame, Header

LEMMA Resumes ==
    ASSUME TypeInv, NEW s \in Sides, reader[s].at \in {"reply", "settle"}, Resume(s, reader[s].after)
    PROVE  Resumed(s)
<1>1. TypeOK /\ reader[s].after \in {"advance", "loop"} \cup Ends
  BY ReaderPlaces DEF TypeInv
<1>2. CASE reader[s].after \in Ends
  BY <1>1, <1>2, Goes DEF Resume, Stop, Resumed, Ended
<1>3. CASE reader[s].after \notin Ends
  BY <1>1, <1>3, Goes DEF Resume, Go, Resumed
<1>4. QED
  BY <1>2, <1>3

LEMMA Settles ==
    ASSUME TypeInv, NEW s \in Sides, NEW e \in {"failed", "close sent"},
           reader' = [reader EXCEPT ![s].at = "settle", ![s].err = e]
    PROVE  Steps(s, "settle")
<1>1. TypeOK
  BY DEF TypeInv
<1> DEFINE n == [reader[s] EXCEPT !.at = "settle", !.err = e]
<1>2. n \in Readers /\ n.at = "settle" /\ n.msg = reader[s].msg /\ n.got = reader[s].got
      /\ n.op = reader[s].op /\ n.after = reader[s].after
  BY ReaderPlaces DEF Readers, Errors
<1>3. reader' = [reader EXCEPT ![s] = n]
  BY <1>1, Types
<1> HIDE DEF n
<1>4. Moves(s, n.at, n.msg, n.got, n.op, n.after)
  BY <1>1, <1>2, <1>3, ReaderBecomes
<1>5. QED
  BY <1>2, <1>4 DEF Steps

LEMMA ReplyDoes ==
    ASSUME TypeInv, NEW s \in Sides, Reply(s)
    PROVE  /\ Stays /\ UNCHANGED <<writeErr, messageReader, frame, delivered>>
           /\ reader[s].at = "reply" /\ reader[s].op \in Control
           /\ Puts(s, ControlFrame(reader[s].op), None)
           /\ Resumed(s) \/ (Steps(s, "settle") /\ UNCHANGED readErr)
<1>1. reader[s].at = "reply" /\ reader[s].op \in Control
  BY ReaderPlaces DEF Reply
<1>2. CASE Afterwards(reader[s].op) = None
  BY <1>1, <1>2, Resumes DEF Reply, Stays, pooling
<1>3. CASE Afterwards(reader[s].op) # None
  <2>1. Afterwards(reader[s].op) = "close sent"
    BY <1>3 DEF Afterwards
  <2>2. reader' = [reader EXCEPT ![s].at = "settle", ![s].err = "close sent"] /\ UNCHANGED readErr
    BY <1>3, <2>1 DEF Reply
  <2>3. Steps(s, "settle")
    BY <2>2, Settles
  <2>4. QED
    BY <1>1, <2>2, <2>3 DEF Reply, Stays, pooling
<1>4. QED
  BY <1>2, <1>3

LEMMA ReplyFailsDoes ==
    ASSUME TypeInv, NEW s \in Sides, ReplyFails(s)
    PROVE  /\ Stays /\ UNCHANGED <<writeErr, readErr, messageReader, frame, delivered, wrote>>
           /\ reader[s].at = "reply" /\ reader[s].op \in Control
           /\ Fails(s, ControlFrame(reader[s].op)) /\ Steps(s, "settle")
<1>1. reader[s].at = "reply" /\ reader[s].op \in Control
  BY ReaderPlaces DEF ReplyFails
<1>2. Steps(s, "settle")
  BY Settles DEF ReplyFails
<1>3. QED
  BY <1>1, <1>2 DEF ReplyFails, Stays, pooling

LEMMA ReplySettledDoes ==
    ASSUME TypeInv, NEW s \in Sides, ReplySettled(s)
    PROVE  /\ Stays /\ UNCHANGED <<wire, messageReader, frame, delivered, wrote, past>>
           /\ Kept(s, reader[s].err) /\ reader[s].at = "settle" /\ Resumed(s)
BY Resumes DEF ReplySettled, Stays, pooling

LEMMA ReadDoes ==
    ASSUME TypeInv, NEW s \in Sides, Read(s)
    PROVE  /\ Stays /\ UNCHANGED <<wire, writeErr, readErr, messageReader, frame, wrote, past>>
           /\ reader[s].at = "Read"
           /\ \/ messageReader[s] /\ Steps(s, "loop") /\ UNCHANGED delivered
              \/ ~messageReader[s] /\ Steps(s, "next") /\ Gains(s, reader[s].msg, reader[s].got)
<1>1. TypeOK /\ reader[s].at = "Read" /\ reader[s].msg # None
  BY DEF TypeInv, ReaderFits, InMessage, Read
<1>2. CASE messageReader[s]
  BY <1>1, <1>2, Goes DEF Read, Go, Stays, pooling
<1>3. CASE ~messageReader[s]
  <2>1. Steps(s, "next")
    BY <1>1, <1>3, Goes DEF Read, Go
  <2>2. Gains(s, reader[s].msg, reader[s].got)
    BY <1>1, <1>3, ReaderPlaces, Gives DEF Read
  <2>3. QED
    BY <1>1, <1>3, <2>1, <2>2 DEF Read, Stays, pooling
<1>4. QED
  BY <1>2, <1>3

LEMMA TakePieceDoes ==
    ASSUME TypeInv, NEW s \in Sides, TakePiece(s)
    PROVE  /\ Stays /\ UNCHANGED <<writeErr, readErr, messageReader, wrote, past>>
           /\ reader[s].at = "loop" /\ frame[s].rem > 0
           /\ In(s) # <<>> /\ In(s)[1] \in Item /\ In(s)[1].op = "payload"
           /\ \E n \in Nat :
                 /\ n <= frame[s].rem /\ n <= In(s)[1].len
                 /\ program.reads[s] = "ReadMessage" /\ ~program.pieces =>
                       n = Lesser(Lesser(frame[s].rem, In(s)[1].len), BufLen)
                 /\ Framed(s, frame[s].rem - n, frame[s].final, frame[s].length)
                 /\ n = In(s)[1].len => Taken(s)
                 /\ n # In(s)[1].len => Shortened(s, n)
                 /\ IF program.reads[s] = "ReadMessage"
                    THEN Gains(s, reader[s].msg, n) /\ Steps(s, "next")
                    ELSE /\ UNCHANGED delivered
                         /\ Moves(s, "Read", reader[s].msg, reader[s].got + n,
                                  reader[s].op, reader[s].after)
<1>1. TypeOK /\ reader[s].at = "loop" /\ reader[s].msg # None /\ frame[s].rem > 0
  BY DEF TypeInv, ReaderFits, InMessage, Is, TakePiece
<1>2. In(s) # <<>> /\ In(s) \in Seq(Item)
  BY <1>1, Types, Peers DEF TakePiece, In
<1>3. Head(In(s)) = In(s)[1] /\ In(s)[1] \in Item /\ In(s)[1].len \in Nat
  <2>1. Head(In(s)) = In(s)[1] /\ In(s)[1] \in Item
    BY <1>2
  <2>2. QED
    BY <2>1 DEF Item
<1>4. PICK here : here = Lesser(frame[s].rem, Head(In(s)).len)
  OBVIOUS
<1>5. here \in Nat /\ here <= frame[s].rem /\ here <= In(s)[1].len
  BY <1>3, <1>4, ReaderPlaces DEF Lesser
<1>6. PICK fits : fits = IF program.reads[s] = "ReadMessage" THEN Lesser(here, BufLen) ELSE here
  OBVIOUS
<1>7. fits \in Nat /\ fits <= here
  BY <1>5, <1>6, ConnAssumption DEF Lesser
<1>8. PICK n \in IF program.pieces THEN 1..fits ELSE {fits} :
         /\ Consume(s, n)
         /\ IF program.reads[s] = "ReadMessage" THEN Given(s, n) /\ Go(s, "next")
            ELSE /\ reader' = [reader EXCEPT ![s].at = "Read", ![s].got = @ + n]
                 /\ UNCHANGED delivered
  BY <1>4, <1>6 DEF TakePiece
<1>9. n \in Nat /\ n <= frame[s].rem /\ n <= In(s)[1].len
  BY <1>3, <1>5, <1>7, <1>8, ReaderPlaces
<1>10. program.reads[s] = "ReadMessage" /\ ~program.pieces =>
           n = Lesser(Lesser(frame[s].rem, In(s)[1].len), BufLen)
  BY <1>3, <1>4, <1>6, <1>8
<1>11. /\ In(s)[1].op = "payload"
       /\ Framed(s, frame[s].rem - n, frame[s].final, frame[s].length)
       /\ n = In(s)[1].len => Taken(s)
       /\ n # In(s)[1].len => Shortened(s, n)
  BY <1>1, <1>3, <1>8, <1>9, Consumes
<1>12. IF program.reads[s] = "ReadMessage"
       THEN Gains(s, reader[s].msg, n) /\ Steps(s, "next")
       ELSE /\ UNCHANGED delivered
            /\ Moves(s, "Read", reader[s].msg, reader[s].got + n, reader[s].op, reader[s].after)
  <2>1. CASE program.reads[s] = "ReadMessage"
    <3>1. Given(s, n) /\ Go(s, "next")
      BY <1>8, <2>1
    <3>2. Gains(s, reader[s].msg, n)
      BY <1>1, <1>9, <3>1, Gives
    <3>3. Steps(s, "next")
      BY <1>1, <3>1, Goes DEF Go
    <3>4. QED
      BY <2>1, <3>2, <3>3
  <2>2. CASE program.reads[s] # "ReadMessage"
    <3> DEFINE r == [reader[s] EXCEPT !.at = "Read", !.got = @ + n]
    <3>0. reader[s].got + n \in Nat /\ reader[s] \in Readers
      BY <1>9, ReaderPlaces
    <3>1. r \in Readers /\ r.at = "Read" /\ r.msg = reader[s].msg /\ r.got = reader[s].got + n
          /\ r.op = reader[s].op /\ r.after = reader[s].after
      BY <3>0 DEF Readers
    <3>2. reader' = [reader EXCEPT ![s] = r] /\ UNCHANGED delivered
      BY <1>1, <1>8, <2>2, Types
    <3> HIDE DEF r
    <3>3. Moves(s, r.at, r.msg, r.got, r.op, r.after)
      BY <1>1, <3>1, <3>2, ReaderBecomes
    <3>4. QED
      BY <2>2, <3>1, <3>2, <3>3
  <2>3. QED
    BY <2>1, <2>2
<1>13. Stays /\ UNCHANGED <<writeErr, readErr, messageReader, wrote, past>>
  BY DEF TakePiece, Stays, pooling
<1>14. QED
  BY <1>1, <1>2, <1>3, <1>9, <1>10, <1>11, <1>12, <1>13

LEMMA EndOfMessageDoes ==
    ASSUME TypeInv, NEW s \in Sides, EndOfMessage(s)
    PROVE  /\ Stays /\ UNCHANGED <<wire, writeErr, readErr, frame, wrote, past>>
           /\ reader[s].at = "loop" /\ frame[s].rem = 0 /\ frame[s].final
           /\ messageReader' = [messageReader EXCEPT ![s] = FALSE]
           /\ Gains(s, reader[s].msg, reader[s].got) /\ Steps(s, "next")
<1>1. TypeOK /\ reader[s].at = "loop" /\ reader[s].msg # None
  BY DEF TypeInv, ReaderFits, InMessage, Is, EndOfMessage
<1>2. Gains(s, reader[s].msg, reader[s].got)
  BY <1>1, ReaderPlaces, Gives DEF EndOfMessage
<1>3. Steps(s, "next")
  BY <1>1, Goes DEF EndOfMessage, Go
<1>4. QED
  BY <1>1, <1>2, <1>3 DEF EndOfMessage, AtEnd, Stays, pooling

LEMMA GarbledDoes ==
    ASSUME TypeInv, NEW s \in Sides, Garbled(s)
    PROVE  /\ Stays /\ UNCHANGED <<wire, writeErr, messageReader, frame, delivered, wrote, past>>
           /\ reader[s].at \in {"advance", "loop"} /\ In(s) # <<>> /\ In(s)[1] \in Item
           /\ Head(In(s)) = In(s)[1] /\ Unexpected(s) /\ Ended(s, "garbled")
<1>1. TypeOK
  BY DEF TypeInv
<1>2. In(s) # <<>> /\ In(s) \in Seq(Item)
  BY <1>1, Types, Peers DEF Garbled, In
<1>3. In(s)[1] \in Item /\ Head(In(s)) = In(s)[1]
  BY <1>2
<1>4. Ended(s, "garbled")
  BY <1>1, Goes DEF Garbled, Stop, Ended
<1>5. QED
  BY <1>2, <1>3, <1>4 DEF Garbled, Stays, pooling

LEMMA EndOfFileDoes ==
    ASSUME TypeInv, NEW s \in Sides, EndOfFile(s)
    PROVE  /\ Stays /\ UNCHANGED <<wire, writeErr, messageReader, frame, delivered, wrote, past>>
           /\ reader[s].at \in {"advance", "loop"} /\ Ended(s, "eof")
<1>1. TypeOK
  BY DEF TypeInv
<1>2. Ended(s, "eof")
  BY <1>1, Goes DEF EndOfFile, Stop, Ended
<1>3. QED
  BY <1>2 DEF EndOfFile, Stays, pooling

-----------------------------------------------------------------------------
(* What each step of a writer does.                                          *)

\* A writer becomes this, and no other writer changes.
Turns(w, at, call, left, first) ==
    /\ writer' \in [Writers -> WriterStates]
    /\ \A v \in Writers : v # w => writer'[v] = writer[v]
    /\ writer'[w].at = at /\ writer'[w].call = call
    /\ writer'[w].left = left /\ writer'[w].first = first

Leaves(w) == Turns(w, "idle", writer[w].call + 1, <<>>, TRUE)
MovesOn(w, at) == Turns(w, at, writer[w].call, writer[w].left, writer[w].first)

\* What a writer leaves to the readers.
Reads == UNCHANGED <<program, readErr, frame, reader, delivered>>

LEMMA WriterBecomes ==
    ASSUME TypeOK, NEW w \in Writers, NEW n \in WriterStates, writer' = [writer EXCEPT ![w] = n]
    PROVE  Turns(w, n.at, n.call, n.left, n.first)
BY Types DEF Turns

LEMMA WriterPlaces ==
    ASSUME TypeInv, NEW w \in Writers
    PROVE  /\ writer[w] \in WriterStates /\ WriterFits(w)
           /\ writer[w].call \in Nat /\ writer[w].left \in Seq(Nat) /\ writer[w].first \in BOOLEAN
           /\ Owner[w] \in Sides
           /\ writer[w].call <= Len(program.calls[w]) =>
                 /\ writer[w].call \in DOMAIN program.calls[w]
                 /\ Mine(w) \in Call /\ Mine(w).do \in Data \cup Control \cup {"Close"}
                 /\ Mine(w).do \in Data => Mine(w).msg \in Messages /\ Size[Mine(w).msg] \in Nat
                 /\ Mine(w).do \in Data => Mine(w).msg \in Said(Owner[w])
<1>1. TypeOK /\ WriterFits(w) /\ writer[w] \in WriterStates
  BY Types DEF TypeInv
<1>2. writer[w].call \in Nat /\ writer[w].left \in Seq(Nat) /\ writer[w].first \in BOOLEAN
  BY <1>1 DEF WriterStates
<1>3. Owner[w] \in Sides
  BY ConnAssumption
<1>4. ASSUME writer[w].call <= Len(program.calls[w])
      PROVE  writer[w].call \in DOMAIN program.calls[w]
  <2>1. program.calls[w] \in Seq(Call)
    BY <1>1, CallTypes
  <2>2. writer[w].call > 0
    BY <1>1 DEF WriterFits
  <2>3. QED
    BY <1>2, <1>4, <2>1, <2>2
<1>5. ASSUME writer[w].call <= Len(program.calls[w])
      PROVE  /\ Mine(w) \in Call /\ Mine(w).do \in Data \cup Control \cup {"Close"}
             /\ Mine(w).do \in Data => Mine(w).msg \in Messages /\ Size[Mine(w).msg] \in Nat
             /\ Mine(w).do \in Data => Mine(w).msg \in Said(Owner[w])
  <2>1. writer[w].call \in DOMAIN program.calls[w]
    BY <1>4, <1>5
  <2>2. /\ Mine(w) \in Call /\ Mine(w).do \in Data \cup Control \cup {"Close"}
        /\ Mine(w).do \in Data => Mine(w).msg \in Messages
    BY <1>1, <2>1, MineTypes
  <2>3. QED
    BY <2>1, <2>2, ConnAssumption DEF Mine, Said
<1>6. QED
  BY <1>1, <1>2, <1>3, <1>4, <1>5

LEMMA ReturnsDoes ==
    ASSUME TypeInv, NEW w \in Writers, Returns(w)
    PROVE  Leaves(w)
<1>1. TypeOK
  BY DEF TypeInv
<1> DEFINE n == [at |-> "idle", call |-> writer[w].call + 1, left |-> <<>>, first |-> TRUE, err |-> None]
<1>2. n \in WriterStates /\ n.at = "idle" /\ n.call = writer[w].call + 1 /\ n.left = <<>> /\ n.first = TRUE
  <2>1. writer[w].call + 1 \in Nat /\ <<>> \in Seq(Nat)
    BY WriterPlaces
  <2>2. QED
    BY <2>1 DEF WriterStates, Errors
<1>3. writer' = [writer EXCEPT ![w] = n]
  BY <1>1, Types DEF Returns
<1> HIDE DEF n
<1>4. Turns(w, n.at, n.call, n.left, n.first)
  BY <1>1, <1>2, <1>3, WriterBecomes
<1>5. QED
  BY <1>2, <1>4 DEF Leaves

LEMMA MoveDoes ==
    ASSUME TypeInv, NEW w \in Writers,
           NEW at \in {"idle", "write", "flush", "extra", "end", "settle", "submit", "enqueue", "wait"},
           Move(w, at)
    PROVE  MovesOn(w, at)
<1>1. TypeOK
  BY DEF TypeInv
<1> DEFINE n == [writer[w] EXCEPT !.at = at]
<1>2. n \in WriterStates /\ n.at = at /\ n.call = writer[w].call /\ n.left = writer[w].left
      /\ n.first = writer[w].first
  BY WriterPlaces DEF WriterStates
<1>3. writer' = [writer EXCEPT ![w] = n]
  BY <1>1, Types DEF Move
<1> HIDE DEF n
<1>4. Turns(w, n.at, n.call, n.left, n.first)
  BY <1>1, <1>2, <1>3, WriterBecomes
<1>5. QED
  BY <1>2, <1>4 DEF MovesOn

LEMMA SettleDoes ==
    ASSUME TypeInv, NEW w \in Writers, NEW e \in {"failed", "close sent"},
           writer' = [writer EXCEPT ![w].at = "settle", ![w].err = e]
    PROVE  MovesOn(w, "settle")
<1>1. TypeOK
  BY DEF TypeInv
<1> DEFINE n == [writer[w] EXCEPT !.at = "settle", !.err = e]
<1>2. n \in WriterStates /\ n.at = "settle" /\ n.call = writer[w].call /\ n.left = writer[w].left
      /\ n.first = writer[w].first
  BY WriterPlaces DEF WriterStates, Errors
<1>3. writer' = [writer EXCEPT ![w] = n]
  BY <1>1, Types
<1> HIDE DEF n
<1>4. Turns(w, n.at, n.call, n.left, n.first)
  BY <1>1, <1>2, <1>3, WriterBecomes
<1>5. QED
  BY <1>2, <1>4 DEF MovesOn

\* The steps that write nothing.
Quiet(w) == Check(w) \/ Settled(w) \/ NextWriter(w) \/ EndMessage(w) \/ Close(w) \/ Submit(w)
            \/ Enqueue(w) \/ WaitEnds(w)

LEMMA QuietDoes ==
    ASSUME TypeInv, NEW w \in Writers, Quiet(w)
    PROVE  /\ Reads /\ UNCHANGED <<wire, worker, wrote, past>>
           /\ writer[w].call <= Len(program.calls[w])
           /\ writer[w].at \notin {"write", "flush", "extra"}
           /\ \/ Leaves(w) /\ UNCHANGED pool
              \/ /\ writer[w].at = "idle" /\ MovesOn(w, "write") /\ UNCHANGED pool
                 /\ Mine(w).do \in {"WriteMessage", "WriteMessageDirect"}
              \/ /\ writer[w].at = "idle" /\ Mine(w).do = "NextWriter" /\ UNCHANGED pool
                 /\ Turns(w, "flush", writer[w].call, Flushes(Owner[w], Size[Mine(w).msg]), writer[w].first)
              \/ writer[w].at = "submit" /\ MovesOn(w, "enqueue") /\ UNCHANGED pool
              \/ /\ writer[w].at = "enqueue" /\ MovesOn(w, "wait")
                 /\ pool' = [pool EXCEPT !.queue = Append(@, [by |-> w, call |-> writer[w].call,
                                                              msg |-> Mine(w).msg])]
<1>1. CASE Check(w)
  <2>1. Returns(w) \/ Move(w, "write")
    BY <1>1 DEF Check
  <2>2. Leaves(w) \/ MovesOn(w, "write")
    BY <2>1, ReturnsDoes, MoveDoes
  <2>3. QED
    BY <1>1, <2>2 DEF Check, Calls, At, Reads, reading, pooling
<1>2. CASE Settled(w)
  BY <1>2, ReturnsDoes DEF Settled, At, Reads, reading, pooling
<1>3. CASE NextWriter(w)
  <2>1. writer[w].call <= Len(program.calls[w]) /\ writer[w].at = "idle" /\ Mine(w).do = "NextWriter"
    BY <1>3 DEF NextWriter, Calls, At
  <2>2. PICK f : f = Flushes(Owner[w], Size[Mine(w).msg])
    OBVIOUS
  <2>3. f \in Seq(Nat)
    <3>1. Size[Mine(w).msg] \in Nat /\ Owner[w] \in Sides
      BY <2>1, WriterPlaces DEF Data
    <3>2. QED
      BY <2>2, <3>1, FlushesAddUp
  <2> DEFINE n == [writer[w] EXCEPT !.at = "flush", !.left = f]
  <2>4. n \in WriterStates /\ n.at = "flush" /\ n.call = writer[w].call /\ n.left = f
        /\ n.first = writer[w].first
    BY <2>3, WriterPlaces DEF WriterStates
  <2>5. writer' = [writer EXCEPT ![w] = n]
    BY <1>3, <2>2, Types DEF NextWriter, TypeInv
  <2> HIDE DEF n
  <2>6. Turns(w, n.at, n.call, n.left, n.first)
    BY <2>4, <2>5, WriterBecomes DEF TypeInv
  <2>7. Turns(w, "flush", writer[w].call, f, writer[w].first)
    BY <2>4, <2>6
  <2>8. QED
    BY <1>3, <2>1, <2>2, <2>7 DEF NextWriter, Reads, reading, pooling
<1>4. CASE EndMessage(w)
  BY <1>4, ReturnsDoes DEF EndMessage, At, Reads, pooling
<1>5. CASE Close(w)
  BY <1>5, ReturnsDoes DEF Close, Calls, At, Reads, pooling
<1>6. CASE Submit(w)
  <2>1. Returns(w) \/ Move(w, "enqueue")
    BY <1>6 DEF Submit
  <2>2. Leaves(w) \/ MovesOn(w, "enqueue")
    BY <2>1, ReturnsDoes, MoveDoes
  <2>3. QED
    BY <1>6, <2>2 DEF Submit, At, Reads, reading
<1>7. CASE Enqueue(w)
  <2>1. \/ Returns(w) /\ UNCHANGED pool
        \/ Move(w, "wait") /\ pool' = [pool EXCEPT !.queue = Append(@, [by |-> w, call |-> writer[w].call,
                                                                       msg |-> Mine(w).msg])]
    BY <1>7 DEF Enqueue
  <2>2. \/ Leaves(w) /\ UNCHANGED pool
        \/ MovesOn(w, "wait") /\ pool' = [pool EXCEPT !.queue = Append(@, [by |-> w, call |-> writer[w].call,
                                                                           msg |-> Mine(w).msg])]
    BY <2>1, ReturnsDoes, MoveDoes
  <2>3. QED
    BY <1>7, <2>2 DEF Enqueue, At, Reads, reading
<1>8. CASE WaitEnds(w)
  BY <1>8, ReturnsDoes DEF WaitEnds, At, Reads, reading, pooling
<1>9. QED
  BY <1>1, <1>2, <1>3, <1>4, <1>5, <1>6, <1>7, <1>8 DEF Quiet

Piped == UNCHANGED <<pool, worker>>

LEMMA WriteDoes ==
    ASSUME TypeInv, NEW w \in Writers, Write(w)
    PROVE  LET m == Mine(w).msg IN
           /\ Reads /\ Piped /\ writer[w].at = "write" /\ writer[w].call <= Len(program.calls[w])
           /\ m \in Messages /\ Mine(w).do \in Data
           /\ Puts(Owner[w], WholeFrame("data", TRUE, m, Size[m]), m) /\ Leaves(w)
<1>1. writer[w].at = "write" /\ writer[w].call <= Len(program.calls[w])
  BY DEF Write, At
<1>2. Mine(w).do \in Data
  BY <1>1, WriterPlaces DEF WriterFits, Data
<1>3. Mine(w).msg \in Messages
  BY <1>1, <1>2, WriterPlaces
<1>4. Leaves(w)
  BY ReturnsDoes DEF Write
<1>5. QED
  BY <1>1, <1>2, <1>3, <1>4 DEF Write, Reads, reading, pooling, Piped

LEMMA WriteFailsDoes ==
    ASSUME TypeInv, NEW w \in Writers, WriteFails(w)
    PROVE  LET m == Mine(w).msg IN
           /\ Reads /\ Piped /\ writer[w].at = "write" /\ writer[w].call <= Len(program.calls[w])
           /\ UNCHANGED wrote /\ m \in Messages /\ Mine(w).do \in Data
           /\ Fails(Owner[w], WholeFrame("data", TRUE, m, Size[m]))
           /\ Leaves(w) \/ (Mine(w).do = "WriteMessage" /\ MovesOn(w, "submit"))
<1>1. writer[w].at = "write" /\ writer[w].call <= Len(program.calls[w])
  BY DEF WriteFails, At
<1>2. Mine(w).do \in Data
  BY <1>1, WriterPlaces DEF WriterFits, Data
<1>3. Mine(w).msg \in Messages
  BY <1>1, <1>2, WriterPlaces
<1>4. Leaves(w) \/ (Mine(w).do = "WriteMessage" /\ MovesOn(w, "submit"))
  <2>1. Returns(w) \/ (Mine(w).do = "WriteMessage" /\ Move(w, "submit"))
    BY DEF WriteFails
  <2>2. QED
    BY <2>1, ReturnsDoes, MoveDoes
<1>5. QED
  BY <1>1, <1>2, <1>3, <1>4 DEF WriteFails, Reads, reading, pooling, Piped

LEMMA WriteControlDoes ==
    ASSUME TypeInv, NEW w \in Writers, WriteControl(w)
    PROVE  /\ Reads /\ Piped /\ writer[w].at = "idle" /\ writer[w].call <= Len(program.calls[w])
           /\ Mine(w).do \in Control
           /\ Puts(Owner[w], ControlFrame(Mine(w).do), None)
           /\ Leaves(w) \/ MovesOn(w, "settle")
<1>1. writer[w].at = "idle" /\ writer[w].call <= Len(program.calls[w]) /\ Mine(w).do \in Control
  BY DEF WriteControl, Calls, At
<1>2. Leaves(w) \/ MovesOn(w, "settle")
  <2>1. CASE Afterwards(Mine(w).do) = None
    BY <2>1, ReturnsDoes DEF WriteControl
  <2>2. CASE Afterwards(Mine(w).do) # None
    <3>1. Afterwards(Mine(w).do) = "close sent"
      BY <2>2 DEF Afterwards
    <3>2. writer' = [writer EXCEPT ![w].at = "settle", ![w].err = "close sent"]
      BY <2>2, <3>1 DEF WriteControl
    <3>3. QED
      BY <3>2, SettleDoes
  <2>3. QED
    BY <2>1, <2>2
<1>3. QED
  BY <1>1, <1>2 DEF WriteControl, Reads, reading, pooling, Piped

LEMMA ControlFailsDoes ==
    ASSUME TypeInv, NEW w \in Writers, ControlFails(w)
    PROVE  /\ Reads /\ Piped /\ writer[w].at = "idle" /\ writer[w].call <= Len(program.calls[w])
           /\ UNCHANGED wrote /\ Mine(w).do \in Control
           /\ Fails(Owner[w], ControlFrame(Mine(w).do)) /\ MovesOn(w, "settle")
<1>1. writer[w].at = "idle" /\ writer[w].call <= Len(program.calls[w]) /\ Mine(w).do \in Control
  BY DEF ControlFails, Calls, At
<1>2. MovesOn(w, "settle")
  BY SettleDoes DEF ControlFails
<1>3. QED
  BY <1>1, <1>2 DEF ControlFails, Reads, reading, pooling, Piped

\* The frame a writer of frames is about to write.
LEMMA FlushedIs ==
    ASSUME TypeInv, NEW w \in Writers, writer[w].at \in {"flush", "extra"},
           writer[w].call <= Len(program.calls[w])
    PROVE  /\ Mine(w).do = "NextWriter" /\ Mine(w).msg \in Messages
           /\ writer[w].left \in Seq(Nat) /\ writer[w].left # <<>> /\ Head(writer[w].left) \in Nat
           /\ Tail(writer[w].left) \in Seq(Nat)
           /\ FrameType(w) \in {"data", "cont"}
           /\ Flushed(w) = WholeFrame(FrameType(w), Final(w), Mine(w).msg, Head(writer[w].left))
           /\ Flushed(w) \in Seq(Item) /\ Flushed(w) # <<>>
           /\ Flushed(w)[1] = Header(FrameType(w), Final(w), Mine(w).msg, Head(writer[w].left))
           /\ Flushed(w)[1] \in Item
           /\ Tail(Flushed(w)) = Payload(Mine(w).msg, Head(writer[w].left))
<1>1. Mine(w).do = "NextWriter" /\ writer[w].left \in Seq(Nat) /\ writer[w].left # <<>>
  BY WriterPlaces DEF WriterFits
<1>2. Mine(w).msg \in Messages
  BY <1>1, WriterPlaces DEF Data
<1>3. Head(writer[w].left) \in Nat /\ Tail(writer[w].left) \in Seq(Nat)
  BY <1>1
<1>4. FrameType(w) \in {"data", "cont"} /\ FrameType(w) \in Ops /\ Final(w) \in BOOLEAN
  BY DEF FrameType, Final, Ops
<1>5. /\ Header(FrameType(w), Final(w), Mine(w).msg, Head(writer[w].left)) \in Item
      /\ WholeFrame(FrameType(w), Final(w), Mine(w).msg, Head(writer[w].left)) \in Seq(Item)
      /\ WholeFrame(FrameType(w), Final(w), Mine(w).msg, Head(writer[w].left)) # <<>>
      /\ WholeFrame(FrameType(w), Final(w), Mine(w).msg, Head(writer[w].left))[1]
            = Header(FrameType(w), Final(w), Mine(w).msg, Head(writer[w].left))
      /\ Tail(WholeFrame(FrameType(w), Final(w), Mine(w).msg, Head(writer[w].left)))
            = Payload(Mine(w).msg, Head(writer[w].left))
  <2>1. PICK op \in Ops, fin \in BOOLEAN, m \in Messages, n \in Nat :
           op = FrameType(w) /\ fin = Final(w) /\ m = Mine(w).msg /\ n = Head(writer[w].left)
    BY <1>2, <1>3, <1>4
  <2>2. /\ Header(op, fin, m, n) \in Item /\ WholeFrame(op, fin, m, n) \in Seq(Item)
        /\ WholeFrame(op, fin, m, n) # <<>> /\ WholeFrame(op, fin, m, n)[1] = Header(op, fin, m, n)
        /\ Tail(WholeFrame(op, fin, m, n)) = Payload(m, n)
    BY FrameTypes
  <2>3. QED
    BY <2>1, <2>2
<1>6. QED
  BY <1>1, <1>2, <1>3, <1>4, <1>5 DEF Flushed

LEMMA FlushDoes ==
    ASSUME TypeInv, NEW w \in Writers, Flush(w)
    PROVE  /\ Reads /\ Piped /\ writer[w].at = "flush" /\ writer[w].call <= Len(program.calls[w])
           /\ IF InTwoWrites(w)
              THEN Puts(Owner[w], <<Flushed(w)[1]>>, None) /\ MovesOn(w, "extra")
              ELSE /\ Puts(Owner[w], Flushed(w), IF Final(w) THEN Mine(w).msg ELSE None)
                   /\ Turns(w, IF Final(w) THEN "end" ELSE "flush", writer[w].call,
                            Tail(writer[w].left), FALSE)
<1>1. writer[w].at = "flush" /\ writer[w].call <= Len(program.calls[w])
  BY DEF Flush, At
<1>2. CASE InTwoWrites(w)
  <2>1. MovesOn(w, "extra")
    BY <1>2, MoveDoes DEF Flush
  <2>2. QED
    BY <1>1, <1>2, <2>1 DEF Flush, Reads, reading, pooling, Piped
<1>3. CASE ~InTwoWrites(w)
  <2>1. PICK at \in {"end", "flush"} : at = IF Final(w) THEN "end" ELSE "flush"
    OBVIOUS
  <2>2. Tail(writer[w].left) \in Seq(Nat)
    BY <1>1, FlushedIs
  <2> DEFINE n == [writer[w] EXCEPT !.at = at, !.left = Tail(writer[w].left), !.first = FALSE]
  <2>3. n \in WriterStates /\ n.at = at /\ n.call = writer[w].call /\ n.left = Tail(writer[w].left)
        /\ n.first = FALSE
    BY <2>1, <2>2, WriterPlaces DEF WriterStates
  <2>4. writer' = [writer EXCEPT ![w] = n]
    BY <1>3, <2>1, Types DEF Flush, TypeInv
  <2> HIDE DEF n
  <2>5. Turns(w, n.at, n.call, n.left, n.first)
    BY <2>3, <2>4, WriterBecomes DEF TypeInv
  <2>6. Turns(w, at, writer[w].call, Tail(writer[w].left), FALSE)
    BY <2>3, <2>5
  <2>7. QED
    BY <1>1, <1>3, <2>1, <2>6 DEF Flush, Reads, reading, pooling, Piped
<1>4. QED
  BY <1>2, <1>3

LEMMA FlushExtraDoes ==
    ASSUME TypeInv, NEW w \in Writers, FlushExtra(w)
    PROVE  /\ Reads /\ Piped /\ writer[w].at = "extra" /\ writer[w].call <= Len(program.calls[w])
           /\ Puts(Owner[w], Tail(Flushed(w)), None)
           /\ Turns(w, "flush", writer[w].call, Tail(writer[w].left), FALSE)
<1>1. writer[w].at = "extra" /\ writer[w].call <= Len(program.calls[w])
  BY DEF FlushExtra, At
<1>2. Tail(writer[w].left) \in Seq(Nat)
  BY <1>1, FlushedIs
<1> DEFINE n == [writer[w] EXCEPT !.at = "flush", !.left = Tail(writer[w].left), !.first = FALSE]
<1>3. n \in WriterStates /\ n.at = "flush" /\ n.call = writer[w].call /\ n.left = Tail(writer[w].left)
      /\ n.first = FALSE
  BY <1>2, WriterPlaces DEF WriterStates
<1>4. writer' = [writer EXCEPT ![w] = n]
  BY Types DEF FlushExtra, TypeInv
<1> HIDE DEF n
<1>5. Turns(w, n.at, n.call, n.left, n.first)
  BY <1>3, <1>4, WriterBecomes DEF TypeInv
<1>6. QED
  BY <1>1, <1>3, <1>5 DEF FlushExtra, Reads, reading, pooling, Piped

LEMMA FlushFailsDoes ==
    ASSUME TypeInv, NEW w \in Writers, FlushFails(w)
    PROVE  /\ Reads /\ Piped /\ writer[w].at = "flush" /\ writer[w].call <= Len(program.calls[w])
           /\ UNCHANGED wrote
           /\ Fails(Owner[w], Flushed(w)) /\ MovesOn(w, "end")
<1>1. MovesOn(w, "end")
  BY MoveDoes DEF FlushFails
<1>2. QED
  BY <1>1 DEF FlushFails, At, Reads, reading, pooling, Piped

-----------------------------------------------------------------------------
(* What each step of the pool does.                                          *)

\* A worker is where it has no task.
Works(k) == /\ worker' \in [Workers -> WorkerStates]
            /\ \A j \in Workers : j # k => worker'[j] = worker[j]
            /\ worker'[k].at # "work"

LEMMA WorkDoes ==
    ASSUME TypeOK, NEW k \in Workers, NEW at \in {"check", "get", "gone"}, Work(k, at)
    PROVE  Works(k)
<1>1. PICK n \in WorkerStates : n = [at |-> at, task |-> None]
  BY DEF WorkerStates
<1>2. worker' = [worker EXCEPT ![k] = n] /\ n.at # "work"
  BY <1>1 DEF Work
<1>3. QED
  BY <1>2, Types DEF Works

LEMMA QueueTypes ==
    ASSUME TypeOK
    PROVE  pool.queue \in Seq(Task) /\ pool.at \in {"open", "flag", "shut", "nil"}
BY Types

\* The steps of the pool that write nothing.
PoolQuiet == \/ \E k \in Workers : WorkerChecks(k) \/ WorkerTakes(k) \/ WorkerLeaves(k)
             \/ CleanupPools \/ CloseTasks \/ PoolGone

LEMMA PoolQuietDoes ==
    ASSUME TypeInv, PoolQuiet
    PROVE  /\ Reads /\ UNCHANGED <<wire, writer, wrote, past>>
           /\ \/ pool'.queue = pool.queue /\ \E k \in Workers : Works(k)
              \/ pool'.queue = pool.queue /\ UNCHANGED worker
              \/ \E k \in Workers :
                    /\ pool.queue # <<>> /\ pool'.queue = Tail(pool.queue)
                    /\ worker' \in [Workers -> WorkerStates]
                    /\ \A j \in Workers : j # k => worker'[j] = worker[j]
                    /\ worker'[k].task = pool.queue[1] /\ worker'[k].task \in Task
<1>1. TypeOK
  BY DEF TypeInv
<1>2. ASSUME NEW k \in Workers, WorkerChecks(k)
      PROVE  Works(k) /\ UNCHANGED <<pool, writer, wire, wrote, past>> /\ Reads
  <2>1. Work(k, "get") \/ Work(k, "gone")
    BY <1>2 DEF WorkerChecks
  <2>2. Works(k)
    BY <1>1, <2>1, WorkDoes
  <2>3. QED
    BY <1>2, <2>2 DEF WorkerChecks, Reads, reading
<1>3. ASSUME NEW k \in Workers, WorkerLeaves(k)
      PROVE  Works(k) /\ UNCHANGED <<pool, writer, wire, wrote, past>> /\ Reads
  <2>1. Works(k)
    BY <1>1, <1>3, WorkDoes DEF WorkerLeaves
  <2>2. QED
    BY <1>3, <2>1 DEF WorkerLeaves, Reads, reading
<1>4. ASSUME NEW k \in Workers, WorkerTakes(k)
      PROVE  /\ Reads /\ UNCHANGED <<wire, writer, wrote, past>>
             /\ pool.queue # <<>> /\ pool'.queue = Tail(pool.queue)
             /\ worker' \in [Workers -> WorkerStates]
             /\ \A j \in Workers : j # k => worker'[j] = worker[j]
             /\ worker'[k].task = pool.queue[1] /\ worker'[k].task \in Task
  <2>1. pool.queue \in Seq(Task) /\ pool.queue # <<>>
    BY <1>1, <1>4, QueueTypes DEF WorkerTakes
  <2>2. Head(pool.queue) = pool.queue[1] /\ pool.queue[1] \in Task
    BY <2>1
  <2>3. PICK n : n = [at |-> "work", task |-> pool.queue[1]]
    OBVIOUS
  <2>4. n \in WorkerStates /\ n.task = pool.queue[1]
    BY <2>2, <2>3 DEF WorkerStates
  <2>5. worker' = [worker EXCEPT ![k] = n]
    BY <1>4, <2>2, <2>3 DEF WorkerTakes
  <2>6. pool'.queue = Tail(pool.queue)
    BY <1>1, <1>4, Types DEF WorkerTakes
  <2>7. Reads /\ UNCHANGED <<wire, writer, wrote, past>>
    BY <1>4 DEF WorkerTakes, Reads, reading
  <2>8. QED
    BY <1>1, <2>1, <2>2, <2>4, <2>5, <2>6, <2>7, Types
<1>5. ASSUME CleanupPools \/ CloseTasks \/ PoolGone
      PROVE  pool'.queue = pool.queue /\ UNCHANGED <<worker, writer, wire, wrote, past>> /\ Reads
  BY <1>1, <1>5, Types DEF CleanupPools, CloseTasks, PoolGone, Reads, reading
<1>6. QED
  BY <1>2, <1>3, <1>4, <1>5 DEF PoolQuiet

\* A call that waited for its task goes on.
AnswerDone == \/ UNCHANGED writer
              \/ \E w \in Writers :
                    /\ writer[w].at = "wait"
                    /\ Turns(w, "idle", writer[w].call + 1, writer[w].left, writer[w].first)

LEMMA AnsweredDoes ==
    ASSUME TypeInv, NEW t \in Task, Answered(t)
    PROVE  AnswerDone
<1>1. t.by \in Writers
  BY DEF Task
<1>2. CASE writer[t.by].at = "wait" /\ writer[t.by].call = t.call
  <2> DEFINE n == [writer[t.by] EXCEPT !.at = "idle", !.call = @ + 1]
  <2>1. writer[t.by] \in WriterStates /\ writer[t.by].call + 1 \in Nat
    BY <1>1, WriterPlaces
  <2>2. n \in WriterStates /\ n.at = "idle" /\ n.call = writer[t.by].call + 1 /\ n.left = writer[t.by].left
        /\ n.first = writer[t.by].first
    BY <2>1 DEF WriterStates
  <2>3. writer' = [writer EXCEPT ![t.by] = n]
    BY <1>1, <1>2, Types DEF Answered, TypeInv
  <2> HIDE DEF n
  <2>4. Turns(t.by, n.at, n.call, n.left, n.first)
    BY <1>1, <2>2, <2>3, WriterBecomes DEF TypeInv
  <2>5. QED
    BY <1>1, <1>2, <2>2, <2>4 DEF AnswerDone
<1>3. QED
  BY <1>2 DEF Answered, AnswerDone

LEMMA WorkerWritesDoes ==
    ASSUME TypeInv, NEW k \in Workers, WorkerWrites(k)
    PROVE  LET t == worker[k].task IN
           /\ Reads /\ UNCHANGED pool /\ worker[k].at = "work" /\ t \in Task
           /\ t.by \in Writers /\ t.msg \in Messages
           /\ Puts(Owner[t.by], WholeFrame("data", TRUE, t.msg, Size[t.msg]), t.msg)
           /\ AnswerDone /\ Works(k)
<1>1. worker[k].at = "work" /\ worker[k].task \in Task
  BY DEF WorkerWrites, TypeInv, WorkersFit
<1>2. worker[k].task.by \in Writers /\ worker[k].task.msg \in Messages
  BY <1>1 DEF Task
<1>3. AnswerDone
  BY <1>1, AnsweredDoes DEF WorkerWrites
<1>4. Works(k)
  BY WorkDoes DEF WorkerWrites, TypeInv
<1>5. QED
  BY <1>1, <1>2, <1>3, <1>4 DEF WorkerWrites, Again, Reads, reading

LEMMA WorkerFailsDoes ==
    ASSUME TypeInv, NEW k \in Workers, WorkerFails(k)
    PROVE  LET t == worker[k].task IN
           /\ Reads /\ UNCHANGED <<pool, wrote>> /\ worker[k].at = "work" /\ t \in Task
           /\ t.by \in Writers /\ t.msg \in Messages
           /\ Fails(Owner[t.by], WholeFrame("data", TRUE, t.msg, Size[t.msg]))
           /\ AnswerDone /\ Works(k)
<1>1. worker[k].at = "work" /\ worker[k].task \in Task
  BY DEF WorkerFails, TypeInv, WorkersFit
<1>2. worker[k].task.by \in Writers /\ worker[k].task.msg \in Messages
  BY <1>1 DEF Task
<1>3. AnswerDone
  BY <1>1, AnsweredDoes DEF WorkerFails
<1>4. Works(k)
  BY WorkDoes DEF WorkerFails, TypeInv
<1>5. QED
  BY <1>1, <1>2, <1>3, <1>4 DEF WorkerFails, Again, Reads, reading

-----------------------------------------------------------------------------
(* Every step keeps the types.                                               *)

Switches == /\ program \in Programs /\ closed \in [Sides -> BOOLEAN] /\ deadline \in [Sides -> BOOLEAN]
            /\ writeErr \in [Sides -> Errors] /\ messageReader \in [Sides -> BOOLEAN]
            /\ pool \in [at : {"open", "flag", "shut", "nil"}, queue : Seq(Task)]
            /\ panicked \in BOOLEAN
Network == /\ wire \in [Sides -> Seq(Item)] /\ wrote \in [Sides -> Seq(Messages)]
           /\ past \in [Sides -> Past] /\ WireNames
Readings == /\ readErr \in [Sides -> Ends \cup {None}] /\ frame \in [Sides -> Frames]
            /\ reader \in [Sides -> Readers] /\ delivered \in [Sides -> Seq(Deliveries)]
            /\ ReaderFits
Writings == writer \in [Writers -> WriterStates] /\ \A w \in Writers : WriterFits(w)
Workings == worker \in [Workers -> WorkerStates] /\ WorkersFit

LEMMA TypeParts == TypeInv <=> Switches /\ Network /\ Readings /\ Writings /\ Workings
BY DEF TypeInv, TypeOK, Switches, Network, Readings, Writings, Workings, Frames, Readers,
       WriterStates, WorkerStates, Deliveries, Past

LEMMA KeptTypes ==
    ASSUME TypeOK, NEW s \in Sides, NEW e \in Errors, Kept(s, e)
    PROVE  writeErr' \in [Sides -> Errors]
BY Types DEF Kept

LEMMA WritersErr ==
    ASSUME TypeOK, NEW w \in Writers
    PROVE  writer[w].err \in Errors
<1>1. writer[w] \in WriterStates
  BY Types
<1>2. QED
  BY <1>1 DEF WriterStates

LEMMA ReadersErr ==
    ASSUME TypeOK, NEW s \in Sides
    PROVE  reader[s].err \in Errors
<1>1. reader[s] \in Readers
  BY Types
<1>2. QED
  BY <1>1 DEF Readers

LEMMA SwitchesKept ==
    ASSUME TypeInv, [Next]_vars
    PROVE  Switches'
<1>1. TypeOK /\ Switches
  BY TypeParts DEF TypeInv
<1>2. CASE UNCHANGED vars
  BY <1>1, <1>2 DEF Switches, vars, reading, pooling
<1>3. ASSUME NEW s \in Sides, ReaderStep(s)
      PROVE  Switches'
  <2>1. CASE NextReader(s)
    BY <1>1, <2>1, NextReaderDoes DEF Switches, Stays
  <2>2. CASE Skip(s)
    BY <1>1, <2>2, SkipDoes DEF Switches, Stays
  <2>3. CASE TakeData(s)
    BY <1>1, <2>3, TakeDataDoes DEF Switches, Stays
  <2>4. CASE Refuse(s)
    BY <1>1, <2>4, RefuseDoes DEF Switches, Stays
  <2>5. CASE TakeControl(s)
    BY <1>1, <2>5, TakeControlDoes DEF Switches, Stays
  <2>6. CASE Reply(s)
    BY <1>1, <2>6, ReplyDoes DEF Switches, Stays
  <2>7. CASE ReplyFails(s)
    BY <1>1, <2>7, ReplyFailsDoes DEF Switches, Stays
  <2>8. CASE ReplySettled(s)
    BY <1>1, <2>8, ReplySettledDoes, ReadersErr, KeptTypes DEF Switches, Stays
  <2>9. CASE Read(s)
    BY <1>1, <2>9, ReadDoes DEF Switches, Stays
  <2>10. CASE TakePiece(s)
    BY <1>1, <2>10, TakePieceDoes DEF Switches, Stays
  <2>11. CASE EndOfMessage(s)
    BY <1>1, <2>11, EndOfMessageDoes DEF Switches, Stays
  <2>12. CASE Garbled(s)
    BY <1>1, <2>12, GarbledDoes DEF Switches, Stays
  <2>13. CASE EndOfFile(s)
    BY <1>1, <2>13, EndOfFileDoes DEF Switches, Stays
  <2>14. QED
    BY <1>3, <2>1, <2>2, <2>3, <2>4, <2>5, <2>6, <2>7, <2>8, <2>9, <2>10, <2>11, <2>12, <2>13
       DEF ReaderStep
<1>4. ASSUME NEW w \in Writers, CallStep(w) \/ CallBegins(w)
      PROVE  Switches'
  <2>0. Owner[w] \in Sides
    BY ConnAssumption
  <2>1. CASE Write(w) \/ WriteFails(w) \/ WriteControl(w) \/ ControlFails(w) \/ Check(w) \/ NextWriter(w)
             \/ WaitEnds(w) \/ FlushExtra(w) \/ FlushFails(w)
    BY <1>1, <2>1 DEF Switches, Write, WriteFails, WriteControl, ControlFails, Check, NextWriter,
                      WaitEnds, FlushExtra, FlushFails, reading, pooling
  <2>2. CASE Settled(w)
    BY <1>1, <2>0, <2>2, WritersErr, KeptTypes DEF Settled, Switches, reading, pooling
  <2>3. CASE Flush(w)
    BY <1>1, <2>0, <2>3 DEF Flush, Switches, reading, pooling
  <2>4. CASE EndMessage(w)
    BY <1>1, <2>0, <2>4 DEF EndMessage, Switches, pooling
  <2>5. CASE Close(w)
    BY <1>1, <2>0, <2>5 DEF Close, Switches, pooling
  <2>6. CASE Submit(w)
    BY <1>1, <2>6 DEF Submit, Switches, reading
  <2>7. CASE Enqueue(w)
    <3>1. pool' \in [at : {"open", "flag", "shut", "nil"}, queue : Seq(Task)]
      <4>1. CASE UNCHANGED pool
        BY <1>1, <4>1 DEF Switches
      <4>2. CASE pool' = [pool EXCEPT !.queue = Append(@, [by |-> w, call |-> writer[w].call,
                                                           msg |-> Mine(w).msg])]
        <5>1. Mine(w).do = "WriteMessage" /\ writer[w].call <= Len(program.calls[w])
          BY <2>7, WriterPlaces DEF Enqueue, At, WriterFits
        <5>2. Mine(w).msg \in Messages /\ writer[w].call \in Nat
          BY <5>1, WriterPlaces DEF Data
        <5>3. PICK t \in Task : t = [by |-> w, call |-> writer[w].call, msg |-> Mine(w).msg]
          BY <5>2 DEF Task
        <5>4. pool.queue \in Seq(Task)
          BY <1>1, QueueTypes
        <5>5. PICK q : q = Append(pool.queue, t)
          OBVIOUS
        <5>6. q \in Seq(Task)
          BY <5>3, <5>4, <5>5
        <5>7. pool' = [pool EXCEPT !.queue = q]
          BY <4>2, <5>3, <5>5
        <5>8. QED
          BY <1>1, <5>6, <5>7 DEF Switches
      <4>3. QED
        BY <2>7, <4>1, <4>2 DEF Enqueue
    <3>2. panicked' \in BOOLEAN
      BY <2>7 DEF Enqueue
    <3>3. QED
      BY <1>1, <2>7, <3>1, <3>2 DEF Enqueue, Switches, reading
  <2>8. QED
    BY <1>4, <2>1, <2>2, <2>3, <2>4, <2>5, <2>6, <2>7 DEF CallStep, CallBegins
<1>5. ASSUME NEW k \in Workers, WorkerStep(k)
      PROVE  Switches'
  <2>1. CASE WorkerChecks(k) \/ WorkerLeaves(k) \/ WorkerWrites(k) \/ WorkerFails(k)
    BY <1>1, <2>1 DEF Switches, WorkerChecks, WorkerLeaves, WorkerWrites, WorkerFails, reading
  <2>2. CASE WorkerTakes(k)
    <3>1. pool.queue \in Seq(Task) /\ pool.queue # <<>>
      BY <1>1, <2>2, QueueTypes DEF WorkerTakes
    <3>2. Head(pool.queue) \in Task /\ Tail(pool.queue) \in Seq(Task)
      BY <3>1
    <3>3. Owner[Head(pool.queue).by] \in Sides
      BY <3>2, ConnAssumption DEF Task
    <3>4. pool' \in [at : {"open", "flag", "shut", "nil"}, queue : Seq(Task)]
      BY <1>1, <2>2, <3>2 DEF WorkerTakes, Switches
    <3>5. deadline' \in [Sides -> BOOLEAN]
      BY <1>1, <2>2, <3>3 DEF WorkerTakes, Switches
    <3>6. QED
      BY <1>1, <2>2, <3>4, <3>5 DEF WorkerTakes, Switches, reading
  <2>3. QED
    BY <1>5, <2>1, <2>2 DEF WorkerStep
<1>6. CASE CleanupPools \/ CloseTasks \/ PoolGone
  BY <1>1, <1>6 DEF CleanupPools, CloseTasks, PoolGone, AfterFlag, Switches, reading
<1>7. QED
  BY <1>2, <1>3, <1>4, <1>5, <1>6 DEF Next

\* Items that name the messages their data frames are of.
Named(items) == \A i \in DOMAIN items : items[i].op \in {"data", "cont"} => items[i].msg # None

LEMMA WholeFrameNamed ==
    ASSUME NEW op \in Ops, NEW fin \in BOOLEAN, NEW m \in Messages, NEW n \in Nat
    PROVE  Named(WholeFrame(op, fin, m, n)) /\ Named(Payload(m, n)) /\ Named(<<Header(op, fin, m, n)>>)
<1>1. m # None
  BY ConnAssumption
<1>2. Named(Payload(m, n)) /\ Named(<<Header(op, fin, m, n)>>)
  BY <1>1 DEF Named, Payload, Header
<1>3. Named(WholeFrame(op, fin, m, n))
  BY <1>1 DEF Named, WholeFrame, Payload, Header
<1>4. QED
  BY <1>2, <1>3

LEMMA ControlNamed ==
    ASSUME NEW op \in Control
    PROVE  Named(ControlFrame(op))
BY DEF Named, ControlFrame, Header, Control

LEMMA NetworkPuts ==
    ASSUME TypeInv, NEW s \in Sides, NEW items \in Seq(Item), items # <<>>, Named(items),
           NEW m \in Messages \cup {None}, Puts(s, items, m)
    PROVE  Network'
<1>1. TypeOK /\ WireNames
  BY DEF TypeInv
<1>2. /\ wire' \in [Sides -> Seq(Item)] /\ wrote' \in [Sides -> Seq(Messages)]
      /\ past' \in [Sides -> Past] /\ wire' = [wire EXCEPT ![s] = @ \o items]
  BY <1>1, PutsTypes
<1>3. WireNames'
  <2> SUFFICES ASSUME NEW p \in Sides, NEW i \in DOMAIN wire'[p], wire'[p][i].op \in {"data", "cont"}
               PROVE  wire'[p][i].msg # None
    BY DEF WireNames
  <2>1. CASE p # s
    BY <1>1, <1>2, <2>1, Types DEF WireNames
  <2>2. CASE p = s
    <3>1. wire[s] \in Seq(Item) /\ wire'[s] = wire[s] \o items
      BY <1>1, <1>2, Types
    <3>2. CASE i <= Len(wire[s])
      BY <1>1, <2>2, <3>1, <3>2 DEF WireNames
    <3>3. CASE i > Len(wire[s])
      <4>1. i - Len(wire[s]) \in DOMAIN items /\ wire'[s][i] = items[i - Len(wire[s])]
        BY <2>2, <3>1, <3>3
      <4>2. QED
        BY <2>2, <4>1 DEF Named
    <3>4. QED
      BY <2>2, <3>1, <3>2, <3>3
  <2>3. QED
    BY <2>1, <2>2
<1>4. QED
  BY <1>2, <1>3 DEF Network

LEMMA NetworkFails ==
    ASSUME TypeInv, NEW s \in Sides, NEW items \in Seq(Item), items # <<>>, Named(items),
           Fails(s, items), UNCHANGED wrote
    PROVE  Network'
<1>1. TypeOK /\ WireNames /\ Network
  BY TypeParts DEF TypeInv
<1>2. /\ wire' \in [Sides -> Seq(Item)] /\ past' \in [Sides -> Past]
      /\ wire' = wire \/ wire' = [wire EXCEPT ![s] = Append(@, Stump(items[1]))]
  BY <1>1, FailsTypes
<1>3. WireNames'
  <2>1. CASE wire' = wire
    BY <1>1, <2>1 DEF WireNames
  <2>2. CASE wire' = [wire EXCEPT ![s] = Append(@, Stump(items[1]))]
    <3>1. items[1] \in Item /\ (items[1].op \in {"data", "cont"} => items[1].msg # None)
      BY DEF Named
    <3>2. PICK x : x = Stump(items[1])
      OBVIOUS
    <3>3. x.op \in {"data", "cont"} => x.msg # None
      <4>1. CASE items[1].len > 0
        BY <3>1, <3>2, <4>1 DEF Stump
      <4>2. CASE ~(items[1].len > 0)
        BY <3>1, <3>2, <4>2, StumpTypes DEF Item
      <4>3. QED
        BY <4>1, <4>2
    <3>4. wire[s] \in Seq(Item) /\ wire'[s] = Append(wire[s], x)
      BY <1>1, <2>2, <3>2, Types
    <3> SUFFICES ASSUME NEW p \in Sides, NEW i \in DOMAIN wire'[p], wire'[p][i].op \in {"data", "cont"}
                 PROVE  wire'[p][i].msg # None
      BY DEF WireNames
    <3>5. CASE p # s
      BY <1>1, <2>2, <3>5, Types DEF WireNames
    <3>6. CASE p = s
      <4>1. CASE i <= Len(wire[s])
        BY <1>1, <3>4, <3>6, <4>1 DEF WireNames
      <4>2. CASE i > Len(wire[s])
        <5>1. wire'[s][i] = x
          BY <3>4, <3>6, <4>2
        <5>2. QED
          BY <3>3, <3>6, <5>1
      <4>3. QED
        BY <3>4, <3>6, <4>1, <4>2
    <3>7. QED
      BY <3>5, <3>6
  <2>3. QED
    BY <1>2, <2>1, <2>2
<1>4. QED
  BY <1>1, <1>2, <1>3 DEF Network

LEMMA NetworkTaken ==
    ASSUME TypeInv, NEW s \in Sides, UNCHANGED <<wrote, past>>,
           Taken(s) \/ \E n \in Nat : Shortened(s, n)
    PROVE  Network'
<1>1. TypeOK /\ WireNames /\ Network
  BY TypeParts DEF TypeInv
<1>2. Peer(s) \in Sides /\ In(s) \in Seq(Item) /\ In(s) = wire[Peer(s)]
  BY <1>1, Peers, Types DEF In
<1>3. ASSUME Taken(s)
      PROVE  Network'
  <2>1. \A i \in DOMAIN wire'[Peer(s)] : i + 1 \in DOMAIN In(s) /\ wire'[Peer(s)][i] = In(s)[i + 1]
    BY <1>2, <1>3 DEF Taken
  <2>2. WireNames'
    <3> SUFFICES ASSUME NEW p \in Sides, NEW i \in DOMAIN wire'[p], wire'[p][i].op \in {"data", "cont"}
                 PROVE  wire'[p][i].msg # None
      BY DEF WireNames
    <3>1. CASE p = Peer(s)
      BY <1>1, <1>2, <2>1, <3>1 DEF WireNames
    <3>2. CASE p # Peer(s)
      BY <1>1, <1>3, <3>2 DEF WireNames, Taken
    <3>3. QED
      BY <3>1, <3>2
  <2>3. QED
    BY <1>1, <1>3, <2>2 DEF Network, Taken
<1>4. ASSUME NEW n \in Nat, Shortened(s, n)
      PROVE  Network'
  <2>1. wire'[Peer(s)] \in Seq(Item) /\ Len(wire'[Peer(s)]) = Len(In(s))
    BY <1>2, <1>4 DEF Shortened
  <2>2. \A i \in DOMAIN wire'[Peer(s)] : i \in DOMAIN In(s) /\ (i # 1 => wire'[Peer(s)][i] = In(s)[i])
    BY <1>2, <1>4, <2>1 DEF Shortened
  <2>3. WireNames'
    <3> SUFFICES ASSUME NEW p \in Sides, NEW i \in DOMAIN wire'[p], wire'[p][i].op \in {"data", "cont"}
                 PROVE  wire'[p][i].msg # None
      BY DEF WireNames
    <3>1. CASE p = Peer(s) /\ i # 1
      BY <1>1, <1>2, <2>2, <3>1 DEF WireNames
    <3>2. CASE p = Peer(s) /\ i = 1
      BY <1>4, <3>2 DEF Shortened
    <3>3. CASE p # Peer(s)
      BY <1>1, <1>4, <3>3 DEF WireNames, Shortened
    <3>4. QED
      BY <3>1, <3>2, <3>3
  <2>4. QED
    BY <1>1, <1>4, <2>3 DEF Network, Shortened
<1>5. QED
  BY <1>3, <1>4

LEMMA NetworkSame ==
    ASSUME TypeInv, UNCHANGED <<wire, wrote, past>>
    PROVE  Network'
BY TypeParts DEF Network, WireNames

\* The payload that is written by itself is not empty.
LEMMA ExtraHasPayload ==
    ASSUME TypeInv, NEW w \in Writers, writer[w].at = "extra", writer[w].call <= Len(program.calls[w])
    PROVE  /\ Tail(Flushed(w)) # <<>> /\ writer[w].left = <<Size[Mine(w).msg], 0>>
           /\ Size[Mine(w).msg] > 0
<1>1. writer[w].left = Flushes(Owner[w], Size[Mine(w).msg]) /\ InTwoWrites(w)
  BY WriterPlaces DEF WriterFits
<1>2. Mine(w).do = "NextWriter" /\ Mine(w).msg \in Messages
  BY FlushedIs
<1>3. Unbuffered(Owner[w], Size[Mine(w).msg])
  BY <1>1 DEF InTwoWrites
<1>4. writer[w].left = <<Size[Mine(w).msg], 0>>
  BY <1>1, <1>3 DEF Flushes
<1>5. Size[Mine(w).msg] > 0 /\ Size[Mine(w).msg] \in Nat
  BY <1>2, <1>3, ConnAssumption DEF Unbuffered
<1>6. Payload(Mine(w).msg, Size[Mine(w).msg]) # <<>>
  BY <1>5 DEF Payload
<1>7. Head(writer[w].left) = Size[Mine(w).msg]
  BY <1>4
<1>8. QED
  BY <1>4, <1>5, <1>6, <1>7, FlushedIs

LEMMA NetworkKept ==
    ASSUME TypeInv, [Next]_vars
    PROVE  Network'
<1>1. TypeOK /\ Network
  BY TypeParts DEF TypeInv
<1>2. CASE UNCHANGED vars
  BY <1>2, NetworkSame DEF vars
<1>3. ASSUME NEW s \in Sides, ReaderStep(s)
      PROVE  Network'
  <2>1. CASE NextReader(s) \/ Read(s) \/ EndOfMessage(s) \/ Garbled(s) \/ EndOfFile(s) \/ ReplySettled(s)
    BY <2>1, NextReaderDoes, ReadDoes, EndOfMessageDoes, GarbledDoes, EndOfFileDoes, ReplySettledDoes,
       NetworkSame
  <2>2. CASE Skip(s)
    BY <2>2, SkipDoes, NetworkTaken
  <2>3. CASE TakeData(s)
    BY <2>3, TakeDataDoes, NetworkTaken
  <2>4. CASE Refuse(s)
    BY <2>4, RefuseDoes, NetworkTaken
  <2>5. CASE TakeControl(s)
    BY <2>5, TakeControlDoes, NetworkTaken
  <2>6. CASE TakePiece(s)
    BY <2>6, TakePieceDoes, NetworkTaken
  <2>7. CASE Reply(s)
    BY <2>7, ReplyDoes, ControlItem, ControlNamed, NetworkPuts
  <2>8. CASE ReplyFails(s)
    BY <2>8, ReplyFailsDoes, ControlItem, ControlNamed, NetworkFails
  <2>9. QED
    BY <1>3, <2>1, <2>2, <2>3, <2>4, <2>5, <2>6, <2>7, <2>8 DEF ReaderStep
<1>4. ASSUME NEW w \in Writers, CallStep(w) \/ CallBegins(w)
      PROVE  Network'
  <2>0. Owner[w] \in Sides
    BY ConnAssumption
  <2>1. CASE Quiet(w)
    BY <2>1, QuietDoes, NetworkSame
  <2>2. CASE Write(w)
    <3>1. PICK m \in Messages : m = Mine(w).msg /\ Puts(Owner[w], WholeFrame("data", TRUE, m, Size[m]), m)
      BY <2>2, WriteDoes
    <3>2. "data" \in Ops /\ Size[m] \in Nat
      BY ConnAssumption DEF Ops
    <3>3. /\ WholeFrame("data", TRUE, m, Size[m]) \in Seq(Item)
          /\ WholeFrame("data", TRUE, m, Size[m]) # <<>> /\ Named(WholeFrame("data", TRUE, m, Size[m]))
      BY <3>2, FrameTypes, WholeFrameNamed
    <3>4. QED
      BY <2>0, <3>1, <3>3, NetworkPuts
  <2>3. CASE WriteFails(w)
    <3>1. PICK m \in Messages : m = Mine(w).msg /\ Fails(Owner[w], WholeFrame("data", TRUE, m, Size[m]))
                                /\ UNCHANGED wrote
      BY <2>3, WriteFailsDoes
    <3>2. "data" \in Ops /\ Size[m] \in Nat
      BY ConnAssumption DEF Ops
    <3>3. /\ WholeFrame("data", TRUE, m, Size[m]) \in Seq(Item)
          /\ WholeFrame("data", TRUE, m, Size[m]) # <<>> /\ Named(WholeFrame("data", TRUE, m, Size[m]))
      BY <3>2, FrameTypes, WholeFrameNamed
    <3>4. QED
      BY <2>0, <3>1, <3>3, NetworkFails
  <2>4. CASE WriteControl(w)
    BY <2>0, <2>4, WriteControlDoes, ControlItem, ControlNamed, NetworkPuts
  <2>5. CASE ControlFails(w)
    BY <2>0, <2>5, ControlFailsDoes, ControlItem, ControlNamed, NetworkFails
  <2>6. ASSUME writer[w].at \in {"flush", "extra"}, writer[w].call <= Len(program.calls[w])
        PROVE  /\ Named(Flushed(w)) /\ Flushed(w) \in Seq(Item) /\ Flushed(w) # <<>>
               /\ Flushed(w)[1] \in Item
               /\ Named(<<Flushed(w)[1]>>) /\ Named(Tail(Flushed(w))) /\ Tail(Flushed(w)) \in Seq(Item)
               /\ Mine(w).msg \in Messages
    <3>1. PICK op \in Ops, fin \in BOOLEAN, m \in Messages, n \in Nat :
             op = FrameType(w) /\ fin = Final(w) /\ m = Mine(w).msg /\ n = Head(writer[w].left)
      BY <2>6, FlushedIs DEF Ops, Final
    <3>2. Named(WholeFrame(op, fin, m, n)) /\ Named(Payload(m, n)) /\ Named(<<Header(op, fin, m, n)>>)
      BY WholeFrameNamed
    <3>3. Payload(m, n) \in Seq(Item)
      BY FrameTypes
    <3>4. /\ Flushed(w) = WholeFrame(op, fin, m, n) /\ Flushed(w)[1] = Header(op, fin, m, n)
          /\ Tail(Flushed(w)) = Payload(m, n)
      BY <2>6, <3>1, FlushedIs
    <3>5. Flushed(w) \in Seq(Item) /\ Flushed(w) # <<>> /\ Flushed(w)[1] \in Item
      BY <2>6, FlushedIs
    <3>6. QED
      BY <3>1, <3>2, <3>3, <3>4, <3>5
  <2>7. CASE Flush(w)
    <3>1. writer[w].at = "flush" /\ writer[w].call <= Len(program.calls[w])
      BY <2>7, FlushDoes
    <3>2. CASE InTwoWrites(w)
      <4>1. Puts(Owner[w], <<Flushed(w)[1]>>, None)
        BY <2>7, <3>2, FlushDoes
      <4>2. <<Flushed(w)[1]>> \in Seq(Item) /\ <<Flushed(w)[1]>> # <<>> /\ Named(<<Flushed(w)[1]>>)
        BY <2>6, <3>1
      <4>3. QED
        BY <2>0, <4>1, <4>2, NetworkPuts
    <3>3. CASE ~InTwoWrites(w)
      <4>1. PICK m \in Messages \cup {None} : Puts(Owner[w], Flushed(w), m)
        BY <2>6, <2>7, <3>1, <3>3, FlushDoes
      <4>2. QED
        BY <2>0, <2>6, <3>1, <4>1, NetworkPuts
    <3>4. QED
      BY <3>2, <3>3
  <2>8. CASE FlushExtra(w)
    <3>1. writer[w].at = "extra" /\ writer[w].call <= Len(program.calls[w])
          /\ Puts(Owner[w], Tail(Flushed(w)), None)
      BY <2>8, FlushExtraDoes
    <3>2. Tail(Flushed(w)) # <<>>
      BY <3>1, ExtraHasPayload
    <3>3. QED
      BY <2>0, <2>6, <3>1, <3>2, NetworkPuts
  <2>9. CASE FlushFails(w)
    <3>1. writer[w].at = "flush" /\ writer[w].call <= Len(program.calls[w])
          /\ Fails(Owner[w], Flushed(w)) /\ UNCHANGED wrote
      BY <2>9, FlushFailsDoes
    <3>2. QED
      BY <2>0, <2>6, <3>1, NetworkFails
  <2>10. QED
    BY <1>4, <2>1, <2>2, <2>3, <2>4, <2>5, <2>7, <2>8, <2>9 DEF CallStep, CallBegins, Quiet
<1>5. ASSUME NEW k \in Workers, WorkerWrites(k) \/ WorkerFails(k)
      PROVE  Network'
  <2>1. PICK t \in Task : t = worker[k].task
    BY <1>5, WorkerWritesDoes, WorkerFailsDoes
  <2>2. t.msg \in Messages /\ Owner[t.by] \in Sides /\ "data" \in Ops /\ Size[t.msg] \in Nat
    BY ConnAssumption DEF Task, Ops
  <2>3. /\ WholeFrame("data", TRUE, t.msg, Size[t.msg]) \in Seq(Item)
        /\ WholeFrame("data", TRUE, t.msg, Size[t.msg]) # <<>>
        /\ Named(WholeFrame("data", TRUE, t.msg, Size[t.msg]))
    BY <2>2, FrameTypes, WholeFrameNamed
  <2>4. CASE WorkerWrites(k)
    BY <2>1, <2>2, <2>3, <2>4, WorkerWritesDoes, NetworkPuts
  <2>5. CASE WorkerFails(k)
    BY <2>1, <2>2, <2>3, <2>5, WorkerFailsDoes, NetworkFails
  <2>6. QED
    BY <1>5, <2>4, <2>5
<1>6. CASE PoolQuiet
  BY <1>6, PoolQuietDoes, NetworkSame
<1>7. QED
  BY <1>2, <1>3, <1>4, <1>5, <1>6 DEF Next, WorkerStep, PoolQuiet

LEMMA ReadingsKept ==
    ASSUME TypeInv, [Next]_vars
    PROVE  Readings'
<1>1. TypeOK /\ Readings
  BY TypeParts DEF TypeInv
<1>2. ASSUME Reads
      PROVE  Readings'
  BY <1>1, <1>2 DEF Reads, Readings, ReaderFits, InMessage, Is
<1>3. ASSUME NEW s \in Sides, ReaderStep(s)
      PROVE  Readings'
  <2>1. ASSUME NEW at, NEW op, NEW after, NEW got, NEW m, Moves(s, at, m, got, op, after),
               at \in {"reply", "settle"} => op # None /\ after # None,
               at \in {"Read", "loop"} \/ (at \in {"reply", "settle"} /\ after = "loop") => m # None
        PROVE  reader' \in [Sides -> Readers] /\ ReaderFits'
    BY <1>1, <2>1 DEF Moves, Readings, ReaderFits, InMessage, Is
  <2>2. reader' = reader => reader' \in [Sides -> Readers] /\ ReaderFits'
    BY <1>1 DEF Readings, ReaderFits, InMessage, Is
  <2>3. InMessage(s) => reader[s].msg # None
    BY <1>1 DEF Readings, ReaderFits
  <2>4. None \notin Control \cup Ends \cup {"advance", "loop"} \cup Messages
    BY ConnAssumption
  <2>5. ASSUME Resumed(s), reader[s].at \in {"reply", "settle"}
        PROVE  reader' \in [Sides -> Readers] /\ ReaderFits' /\ readErr' \in [Sides -> Ends \cup {None}]
    <3>1. CASE reader[s].after \in Ends /\ Ended(s, reader[s].after)
      <4>1. reader' \in [Sides -> Readers] /\ ReaderFits'
        BY <2>1, <3>1 DEF Ended, Steps
      <4>2. QED
        BY <1>1, <3>1, <4>1 DEF Ended, Readings
    <3>2. CASE reader[s].after = "advance" /\ Steps(s, "advance") /\ UNCHANGED readErr
      BY <1>1, <2>1, <3>2 DEF Steps, Readings
    <3>3. CASE reader[s].after = "loop" /\ Steps(s, "loop") /\ UNCHANGED readErr
      <4>1. reader[s].msg # None
        BY <2>3, <2>5, <3>3 DEF InMessage, Is
      <4>2. QED
        BY <1>1, <2>1, <3>3, <4>1 DEF Steps, Readings
    <3>4. QED
      BY <2>5, <3>1, <3>2, <3>3 DEF Resumed
  <2>6. ASSUME Steps(s, "settle"), reader[s].at = "reply"
        PROVE  reader' \in [Sides -> Readers] /\ ReaderFits'
    <3>1. reader[s].op # None /\ reader[s].after # None
      BY <1>1, <2>6 DEF Readings, ReaderFits
    <3>2. reader[s].after = "loop" => reader[s].msg # None
      BY <2>3, <2>6 DEF InMessage, Is
    <3>3. Moves(s, "settle", reader[s].msg, reader[s].got, reader[s].op, reader[s].after)
      BY <2>6 DEF Steps
    <3>4. QED
      BY <2>1, <3>1, <3>2, <3>3
  <2>7. CASE NextReader(s)
    <3>1. Moves(s, "advance", reader[s].msg, reader[s].got, reader[s].op, reader[s].after)
      BY <2>7, NextReaderDoes DEF Steps
    <3>2. reader' \in [Sides -> Readers] /\ ReaderFits'
      BY <2>1, <3>1
    <3>3. QED
      BY <1>1, <2>7, <3>2, NextReaderDoes DEF Readings, Framed
  <2>8. CASE Skip(s)
    BY <1>1, <2>2, <2>8, SkipDoes DEF Readings, Framed
  <2>9. CASE TakeData(s)
    <3>1. PICK h \in Item : h = In(s)[1]
      BY <2>9, TakeDataDoes, AtHeaderIs
    <3>2. h.msg # None
      BY <2>4, <2>9, <3>1, TakeDataDoes, AtHeaderIs
    <3>3. reader' \in [Sides -> Readers] /\ ReaderFits'
      <4>1. CASE TooLong(frame[s].length + h.len)
        <5>1. Moves(s, "reply", h.msg, reader[s].got, "close", "limit")
          BY <2>9, <3>1, <4>1, TakeDataDoes
        <5>2. "close" # None /\ "limit" # None
          BY <2>4 DEF Control, Ends
        <5>3. QED
          BY <2>1, <5>1, <5>2
      <4>2. CASE ~TooLong(frame[s].length + h.len) /\ h.op = "data"
        <5>1. PICK at \in {"next", "Read"} : Moves(s, at, h.msg, 0, reader[s].op, reader[s].after)
          BY <2>9, <3>1, <4>2, TakeDataDoes
        <5>2. QED
          BY <2>1, <3>2, <5>1
      <4>3. CASE ~TooLong(frame[s].length + h.len) /\ h.op = "cont"
        BY <2>2, <2>9, <3>1, <4>3, TakeDataDoes
      <4>4. QED
        BY <2>9, <3>1, <4>1, <4>2, <4>3, TakeDataDoes
    <3>4. QED
      BY <1>1, <2>9, <3>3, TakeDataDoes DEF Readings, Framed
  <2>10. CASE Refuse(s)
    <3>1. Moves(s, "reply", reader[s].msg, reader[s].got, "close", "protocol")
      BY <2>10, RefuseDoes
    <3>2. "close" # None /\ "protocol" # None
      BY <2>4 DEF Control, Ends
    <3>3. reader' \in [Sides -> Readers] /\ ReaderFits'
      BY <2>1, <3>1, <3>2
    <3>4. QED
      BY <1>1, <2>10, <3>3, RefuseDoes DEF Readings
  <2>11. CASE TakeControl(s)
    <3>1. reader[s].at \in {"advance", "loop"}
      BY <2>11, TakeControlDoes, AtHeaderIs
    <3>2. "close" # None /\ "pong" # None /\ reader[s].at # None
      BY <2>4, <3>1 DEF Control
    <3>3. reader[s].at = "loop" => reader[s].msg # None
      BY <2>3 DEF InMessage, Is
    <3>4. reader' \in [Sides -> Readers] /\ ReaderFits'
      <4>1. CASE reader' = reader
        BY <2>2, <4>1
      <4>2. CASE Moves(s, "reply", reader[s].msg, reader[s].got, "pong", reader[s].at)
        BY <2>1, <3>2, <3>3, <4>2
      <4>3. CASE Moves(s, "reply", reader[s].msg, reader[s].got, "close", "close")
        BY <2>1, <3>2, <4>3
      <4>4. QED
        BY <2>11, <4>1, <4>2, <4>3, TakeControlDoes
    <3>5. QED
      BY <1>1, <2>11, <3>4, TakeControlDoes DEF Readings
  <2>12. CASE Reply(s)
    <3>1. CASE Resumed(s)
      BY <1>1, <2>5, <2>12, <3>1, ReplyDoes DEF Readings
    <3>2. CASE Steps(s, "settle") /\ UNCHANGED readErr
      BY <1>1, <2>6, <2>12, <3>2, ReplyDoes DEF Readings
    <3>3. QED
      BY <2>12, <3>1, <3>2, ReplyDoes
  <2>13. CASE ReplyFails(s)
    BY <1>1, <2>6, <2>13, ReplyFailsDoes DEF Readings
  <2>14. CASE ReplySettled(s)
    BY <1>1, <2>5, <2>14, ReplySettledDoes DEF Readings
  <2>15. CASE Read(s)
    <3>1. reader[s].msg # None
      BY <2>3, <2>15, ReadDoes DEF InMessage
    <3>2. PICK at \in {"loop", "next"} : Moves(s, at, reader[s].msg, reader[s].got, reader[s].op, reader[s].after)
      BY <2>15, ReadDoes DEF Steps
    <3>3. reader' \in [Sides -> Readers] /\ ReaderFits'
      BY <2>1, <3>1, <3>2
    <3>4. QED
      BY <1>1, <2>15, <3>3, ReadDoes DEF Readings, Gains
  <2>16. CASE TakePiece(s)
    <3>1. reader[s].msg # None
      BY <2>3, <2>16, TakePieceDoes DEF InMessage, Is
    <3>2. frame' \in [Sides -> Frames] /\ delivered' \in [Sides -> Seq(Deliveries)]
      BY <1>1, <2>16, TakePieceDoes DEF Framed, Gains, Readings
    <3>3. \E at \in {"Read", "next"} : \E got : Moves(s, at, reader[s].msg, got, reader[s].op, reader[s].after)
      BY <2>16, TakePieceDoes DEF Steps
    <3>4. PICK at \in {"Read", "next"} : \E got : Moves(s, at, reader[s].msg, got, reader[s].op, reader[s].after)
      BY <3>3
    <3>5. reader' \in [Sides -> Readers] /\ ReaderFits'
      <4>1. PICK got : Moves(s, at, reader[s].msg, got, reader[s].op, reader[s].after)
        BY <3>4
      <4>2. QED
        BY <2>1, <3>1, <3>4, <4>1
    <3>6. QED
      BY <1>1, <2>16, <3>2, <3>5, TakePieceDoes DEF Readings
  <2>17. CASE EndOfMessage(s)
    <3>1. Moves(s, "next", reader[s].msg, reader[s].got, reader[s].op, reader[s].after)
      BY <2>17, EndOfMessageDoes DEF Steps
    <3>2. reader' \in [Sides -> Readers] /\ ReaderFits'
      BY <2>1, <3>1
    <3>3. QED
      BY <1>1, <2>17, <3>2, EndOfMessageDoes DEF Readings, Gains
  <2>18. CASE Garbled(s) \/ EndOfFile(s)
    <3>1. PICK e \in Ends : Ended(s, e) /\ UNCHANGED <<frame, delivered>>
      BY <2>18, GarbledDoes, EndOfFileDoes DEF Ends
    <3>2. reader' \in [Sides -> Readers] /\ ReaderFits'
      BY <2>1, <3>1 DEF Ended, Steps
    <3>3. QED
      BY <1>1, <3>1, <3>2 DEF Readings, Ended
  <2>19. QED
    BY <1>3, <2>7, <2>8, <2>9, <2>10, <2>11, <2>12, <2>13, <2>14, <2>15, <2>16, <2>17, <2>18
       DEF ReaderStep
<1>4. CASE UNCHANGED vars
  BY <1>2, <1>4 DEF vars, Reads, reading
<1>5. ASSUME NEW w \in Writers, CallStep(w) \/ CallBegins(w)
      PROVE  Reads
  <2>1. CASE Quiet(w)
    BY <2>1, QuietDoes
  <2>2. CASE Write(w) \/ WriteFails(w) \/ WriteControl(w) \/ ControlFails(w)
    BY <2>2, WriteDoes, WriteFailsDoes, WriteControlDoes, ControlFailsDoes
  <2>3. CASE Flush(w) \/ FlushExtra(w) \/ FlushFails(w)
    BY <2>3, FlushDoes, FlushExtraDoes, FlushFailsDoes
  <2>4. QED
    BY <1>5, <2>1, <2>2, <2>3 DEF CallStep, CallBegins, Quiet
<1>6. ASSUME NEW k \in Workers, WorkerWrites(k) \/ WorkerFails(k)
      PROVE  Reads
  BY <1>6, WorkerWritesDoes, WorkerFailsDoes
<1>7. CASE PoolQuiet
  BY <1>2, <1>7, PoolQuietDoes
<1>8. QED
  BY <1>2, <1>3, <1>4, <1>5, <1>6, <1>7 DEF Next, WorkerStep, PoolQuiet

LEMMA ReaderStays ==
    ASSUME TypeInv, NEW s \in Sides, ReaderStep(s)
    PROVE  Stays
<1>1. CASE NextReader(s) \/ Skip(s) \/ TakeData(s) \/ Refuse(s) \/ TakeControl(s)
  BY <1>1, NextReaderDoes, SkipDoes, TakeDataDoes, RefuseDoes, TakeControlDoes
<1>2. CASE Reply(s) \/ ReplyFails(s) \/ ReplySettled(s) \/ Read(s)
  BY <1>2, ReplyDoes, ReplyFailsDoes, ReplySettledDoes, ReadDoes
<1>3. CASE TakePiece(s) \/ EndOfMessage(s) \/ Garbled(s) \/ EndOfFile(s)
  BY <1>3, TakePieceDoes, EndOfMessageDoes, GarbledDoes, EndOfFileDoes
<1>4. QED
  BY <1>1, <1>2, <1>3 DEF ReaderStep

LEMMA FitsWhenSame ==
    ASSUME NEW v \in Writers, WriterFits(v), program' = program, writer'[v] = writer[v]
    PROVE  WriterFits(v)'
BY DEF WriterFits, Mine, InTwoWrites

LEMMA FitsIdle ==
    ASSUME TypeInv, NEW w \in Writers, NEW left, Turns(w, "idle", writer[w].call + 1, left, TRUE)
    PROVE  WriterFits(w)'
<1>1. writer[w].call + 1 > 0
  BY WriterPlaces
<1>2. writer'[w].at = "idle" /\ writer'[w].call = writer[w].call + 1 /\ writer'[w].first = TRUE
  BY DEF Turns
<1>3. QED
  BY <1>1, <1>2 DEF WriterFits

LEMMA WritingsKept ==
    ASSUME TypeInv, [Next]_vars
    PROVE  Writings'
<1>1. TypeOK /\ Writings
  BY TypeParts DEF TypeInv
<1>2. ASSUME UNCHANGED <<program, writer>>
      PROVE  Writings'
  BY <1>1, <1>2, FitsWhenSame DEF Writings
<1>3. ASSUME NEW w \in Writers, program' = program, NEW at, NEW call, NEW left, NEW first,
             Turns(w, at, call, left, first), WriterFits(w)'
      PROVE  Writings'
  <2>1. \A v \in Writers : WriterFits(v)'
    BY <1>1, <1>3, FitsWhenSame DEF Turns, Writings
  <2>2. QED
    BY <1>3, <2>1 DEF Turns, Writings
<1>4. ASSUME NEW w \in Writers, CallStep(w) \/ CallBegins(w)
      PROVE  Writings'
  <2>1. WriterFits(w) /\ writer[w].call > 0
    BY WriterPlaces DEF WriterFits
  <2>2. ASSUME Leaves(w), Reads
        PROVE  Writings'
    BY <1>3, <2>2, FitsIdle DEF Leaves, Reads
  <2>3. ASSUME NEW at \in {"write", "settle", "submit", "enqueue", "wait", "end"}, MovesOn(w, at), Reads,
               writer[w].call <= Len(program.calls[w]),
               at = "write" => Mine(w).do \in {"WriteMessage", "WriteMessageDirect"},
               at \in {"submit", "enqueue", "wait"} => Mine(w).do = "WriteMessage",
               at = "end" => Mine(w).do = "NextWriter",
               at # "end" => writer[w].first
        PROVE  Writings'
    <3>1. writer'[w].at = at /\ writer'[w].call = writer[w].call /\ writer'[w].first = writer[w].first
          /\ program' = program
      BY <2>3 DEF MovesOn, Turns, Reads
    <3>2. Mine(w)' = Mine(w)
      BY <3>1 DEF Mine
    <3>3. WriterFits(w)'
      BY <2>1, <2>3, <3>1, <3>2 DEF WriterFits
    <3>4. QED
      BY <1>3, <2>3, <3>1, <3>3 DEF MovesOn
  <2>4. CASE Quiet(w)
    <3>1. Reads /\ writer[w].call <= Len(program.calls[w])
      BY <2>4, QuietDoes
    <3>2. CASE Leaves(w)
      BY <2>2, <3>1, <3>2
    <3>3. CASE writer[w].at = "idle" /\ MovesOn(w, "write") /\ Mine(w).do \in {"WriteMessage", "WriteMessageDirect"}
      BY <2>1, <2>3, <3>1, <3>3 DEF WriterFits
    <3>4. CASE writer[w].at = "submit" /\ MovesOn(w, "enqueue")
      BY <2>1, <2>3, <3>1, <3>4 DEF WriterFits
    <3>5. CASE writer[w].at = "enqueue" /\ MovesOn(w, "wait")
      BY <2>1, <2>3, <3>1, <3>5 DEF WriterFits
    <3>6. CASE /\ writer[w].at = "idle" /\ Mine(w).do = "NextWriter"
               /\ Turns(w, "flush", writer[w].call, Flushes(Owner[w], Size[Mine(w).msg]), writer[w].first)
      <4>1. Mine(w).msg \in Messages /\ Size[Mine(w).msg] \in Nat /\ Owner[w] \in Sides
        BY <3>1, <3>6, WriterPlaces DEF Data
      <4>2. Flushes(Owner[w], Size[Mine(w).msg]) # <<>>
        BY <4>1, FlushesAddUp
      <4>3. /\ writer'[w].at = "flush" /\ writer'[w].call = writer[w].call /\ program' = program
            /\ writer'[w].left = Flushes(Owner[w], Size[Mine(w).msg])
        BY <3>1, <3>6 DEF Turns, Reads
      <4>4. Mine(w)' = Mine(w)
        BY <4>3 DEF Mine
      <4>5. WriterFits(w)'
        BY <2>1, <3>1, <3>6, <4>2, <4>3, <4>4 DEF WriterFits
      <4>6. QED
        BY <1>3, <3>6, <4>3, <4>5
    <3>7. QED
      BY <2>4, <3>2, <3>3, <3>4, <3>5, <3>6, QuietDoes
  <2>5. CASE Write(w)
    BY <2>2, <2>5, WriteDoes
  <2>6. CASE WriteFails(w)
    <3>1. Reads /\ writer[w].at = "write" /\ writer[w].call <= Len(program.calls[w])
      BY <2>6, WriteFailsDoes
    <3>2. CASE Leaves(w)
      BY <2>2, <3>1, <3>2
    <3>3. CASE Mine(w).do = "WriteMessage" /\ MovesOn(w, "submit")
      BY <2>1, <2>3, <3>1, <3>3 DEF WriterFits
    <3>4. QED
      BY <2>6, <3>2, <3>3, WriteFailsDoes
  <2>7. CASE WriteControl(w)
    <3>1. Reads /\ writer[w].at = "idle" /\ writer[w].call <= Len(program.calls[w])
      BY <2>7, WriteControlDoes
    <3>2. CASE Leaves(w)
      BY <2>2, <3>1, <3>2
    <3>3. CASE MovesOn(w, "settle")
      BY <2>1, <2>3, <3>1, <3>3 DEF WriterFits
    <3>4. QED
      BY <2>7, <3>2, <3>3, WriteControlDoes
  <2>8. CASE ControlFails(w)
    BY <2>1, <2>3, <2>8, ControlFailsDoes DEF WriterFits
  <2>9. CASE Flush(w)
    <3>1. /\ Reads /\ writer[w].at = "flush" /\ writer[w].call <= Len(program.calls[w])
          /\ Mine(w).do = "NextWriter"
      BY <2>1, <2>9, FlushDoes DEF WriterFits
    <3>2. CASE InTwoWrites(w)
      <4>1. MovesOn(w, "extra")
        BY <2>9, <3>2, FlushDoes
      <4>2. /\ writer'[w].at = "extra" /\ writer'[w].call = writer[w].call /\ program' = program
            /\ writer'[w].left = writer[w].left /\ writer'[w].first = writer[w].first
        BY <3>1, <4>1 DEF MovesOn, Turns, Reads
      <4>3. Mine(w)' = Mine(w) /\ InTwoWrites(w)'
        BY <3>2, <4>2 DEF Mine, InTwoWrites
      <4>4. writer[w].first
        BY <3>2 DEF InTwoWrites
      <4>5. WriterFits(w)'
        BY <2>1, <3>1, <4>2, <4>3, <4>4 DEF WriterFits
      <4>6. QED
        BY <1>3, <4>1, <4>2, <4>5 DEF MovesOn
    <3>3. CASE ~InTwoWrites(w)
      <4>1. Turns(w, IF Final(w) THEN "end" ELSE "flush", writer[w].call, Tail(writer[w].left), FALSE)
        BY <2>9, <3>3, FlushDoes
      <4>2. /\ writer'[w].at = (IF Final(w) THEN "end" ELSE "flush")
            /\ writer'[w].call = writer[w].call /\ program' = program
            /\ writer'[w].left = Tail(writer[w].left) /\ writer'[w].first = FALSE
        BY <3>1, <4>1 DEF Turns, Reads
      <4>3. Mine(w)' = Mine(w)
        BY <4>2 DEF Mine
      <4>4. ~Final(w) => Tail(writer[w].left) # <<>>
        <5>1. writer[w].left \in Seq(Nat) /\ writer[w].left # <<>>
          BY <3>1, FlushedIs
        <5>2. Len(writer[w].left) \in Nat /\ Len(writer[w].left) # 0
              /\ Len(Tail(writer[w].left)) = Len(writer[w].left) - 1
          BY <5>1
        <5>3. Tail(writer[w].left) = <<>> => Len(Tail(writer[w].left)) = 0
          <6>1. PICK t : t = Tail(writer[w].left)
            OBVIOUS
          <6>2. t = <<>> => Len(t) = 0
            OBVIOUS
          <6>3. QED
            BY <6>1, <6>2
        <5>4. ~Final(w) => Len(writer[w].left) # 1
          BY DEF Final
        <5>5. QED
          BY <5>2, <5>3, <5>4
      <4>5. WriterFits(w)'
        BY <2>1, <3>1, <4>2, <4>3, <4>4 DEF WriterFits
      <4>6. QED
        BY <1>3, <4>1, <4>2, <4>5
    <3>4. QED
      BY <3>2, <3>3
  <2>10. CASE FlushExtra(w)
    <3>1. /\ Reads /\ writer[w].at = "extra" /\ writer[w].call <= Len(program.calls[w])
          /\ Mine(w).do = "NextWriter"
          /\ Turns(w, "flush", writer[w].call, Tail(writer[w].left), FALSE)
      BY <2>1, <2>10, FlushExtraDoes DEF WriterFits
    <3>2. /\ writer'[w].at = "flush" /\ writer'[w].call = writer[w].call /\ program' = program
          /\ writer'[w].left = Tail(writer[w].left) /\ writer'[w].first = FALSE
      BY <3>1 DEF Turns, Reads
    <3>3. Mine(w)' = Mine(w)
      BY <3>2 DEF Mine
    <3>4. Tail(writer[w].left) # <<>>
      <4>1. PICK n : n = Size[Mine(w).msg]
        OBVIOUS
      <4>2. writer[w].left = <<n, 0>>
        BY <3>1, <4>1, ExtraHasPayload
      <4>3. Tail(<<n, 0>>) = <<0>>
        OBVIOUS
      <4>4. QED
        BY <4>2, <4>3
    <3>5. WriterFits(w)'
      BY <2>1, <3>1, <3>2, <3>3, <3>4 DEF WriterFits
    <3>6. QED
      BY <1>3, <3>1, <3>2, <3>5
  <2>11. CASE FlushFails(w)
    BY <2>1, <2>3, <2>11, FlushFailsDoes DEF WriterFits
  <2>12. QED
    BY <1>4, <2>4, <2>5, <2>6, <2>7, <2>8, <2>9, <2>10, <2>11 DEF CallStep, CallBegins, Quiet
<1>5. ASSUME NEW k \in Workers, WorkerWrites(k) \/ WorkerFails(k)
      PROVE  Writings'
  <2>1. Reads /\ AnswerDone
    BY <1>5, WorkerWritesDoes, WorkerFailsDoes
  <2>2. CASE UNCHANGED writer
    BY <1>2, <2>1, <2>2 DEF Reads
  <2>3. ASSUME NEW w \in Writers, writer[w].at = "wait",
               Turns(w, "idle", writer[w].call + 1, writer[w].left, writer[w].first)
        PROVE  Writings'
    <3>1. writer[w].first = TRUE
      BY <2>3, WriterPlaces DEF WriterFits
    <3>2. WriterFits(w)'
      BY <2>3, <3>1, FitsIdle
    <3>3. QED
      BY <1>3, <2>1, <2>3, <3>2 DEF Reads
  <2>4. QED
    BY <2>1, <2>2, <2>3 DEF AnswerDone
<1>6. CASE PoolQuiet
  BY <1>2, <1>6, PoolQuietDoes DEF Reads
<1>7. CASE \E s \in Sides : ReaderStep(s)
  BY <1>2, <1>7, ReaderStays DEF Stays
<1>8. CASE UNCHANGED vars
  BY <1>2, <1>8 DEF vars
<1>9. QED
  BY <1>4, <1>5, <1>6, <1>7, <1>8 DEF Next, WorkerStep, PoolQuiet

LEMMA WorkingsKept ==
    ASSUME TypeInv, [Next]_vars
    PROVE  Workings'
<1>1. TypeOK /\ Workings
  BY TypeParts DEF TypeInv
<1>2. ASSUME UNCHANGED worker
      PROVE  Workings'
  BY <1>1, <1>2 DEF Workings, WorkersFit
<1>3. ASSUME NEW k \in Workers, Works(k)
      PROVE  Workings'
  BY <1>1, <1>3 DEF Workings, WorkersFit, Works
<1>4. ASSUME NEW w \in Writers, CallStep(w) \/ CallBegins(w)
      PROVE  UNCHANGED worker
  <2>1. CASE Quiet(w)
    BY <2>1, QuietDoes
  <2>2. CASE Write(w) \/ WriteFails(w) \/ WriteControl(w) \/ ControlFails(w)
    BY <2>2, WriteDoes, WriteFailsDoes, WriteControlDoes, ControlFailsDoes DEF Piped
  <2>3. CASE Flush(w) \/ FlushExtra(w) \/ FlushFails(w)
    BY <2>3, FlushDoes, FlushExtraDoes, FlushFailsDoes DEF Piped
  <2>4. QED
    BY <1>4, <2>1, <2>2, <2>3 DEF CallStep, CallBegins, Quiet
<1>5. ASSUME NEW k \in Workers, WorkerWrites(k) \/ WorkerFails(k)
      PROVE  Workings'
  BY <1>3, <1>5, WorkerWritesDoes, WorkerFailsDoes
<1>6. CASE PoolQuiet
  <2>1. CASE \E k \in Workers : Works(k)
    BY <1>3, <2>1
  <2>2. CASE UNCHANGED worker
    BY <1>2, <2>2
  <2>3. ASSUME NEW k \in Workers, worker' \in [Workers -> WorkerStates], worker'[k].task \in Task,
               \A j \in Workers : j # k => worker'[j] = worker[j]
        PROVE  Workings'
    BY <1>1, <2>3 DEF Workings, WorkersFit
  <2>4. QED
    BY <1>6, <2>1, <2>2, <2>3, PoolQuietDoes
<1>7. CASE \E s \in Sides : ReaderStep(s)
  BY <1>2, <1>7, ReaderStays DEF Stays
<1>8. CASE UNCHANGED vars
  BY <1>2, <1>8 DEF vars, pooling
<1>9. QED
  BY <1>2, <1>4, <1>5, <1>6, <1>7, <1>8 DEF Next, WorkerStep, PoolQuiet

LEMMA TypesInit ==
    ASSUME Init
    PROVE  TypeInv
<1>1. Switches
  <2>1. program \in Programs /\ program \in Program
    BY ConnAssumption DEF Init
  <2>2. closed \in [Sides -> BOOLEAN] /\ messageReader \in [Sides -> BOOLEAN] /\ panicked \in BOOLEAN
    BY DEF Init
  <2>3. deadline \in [Sides -> BOOLEAN]
    BY DEF Init
  <2>4. writeErr \in [Sides -> Errors]
    BY DEF Init, Errors
  <2>5. pool \in [at : {"open", "flag", "shut", "nil"}, queue : Seq(Task)]
    BY DEF Init
  <2>6. QED
    BY <2>1, <2>2, <2>3, <2>4, <2>5 DEF Switches
<1>2. Network
  <2>1. \A s \in Sides : wire[s] = <<>>
    BY DEF Init
  <2>2. WireNames
    BY <2>1 DEF WireNames
  <2>3. past \in [Sides -> Past]
    BY DEF Init, Past
  <2>4. wire \in [Sides -> Seq(Item)] /\ wrote \in [Sides -> Seq(Messages)]
    BY DEF Init
  <2>5. QED
    BY <2>2, <2>3, <2>4 DEF Network
<1>3. Readings
  <2>1. frame \in [Sides -> Frames]
    BY DEF Init, Frames
  <2>2. reader \in [Sides -> Readers]
    BY DEF Init, Readers, Errors
  <2>3. \A s \in Sides : reader[s].at = "next"
    BY DEF Init
  <2>4. ReaderFits
    BY <2>3 DEF ReaderFits, InMessage, Is
  <2>5. readErr \in [Sides -> Ends \cup {None}] /\ delivered \in [Sides -> Seq(Deliveries)]
    BY DEF Init
  <2>6. QED
    BY <2>1, <2>2, <2>4, <2>5 DEF Readings
<1>4. Writings
  <2>1. PICK n \in WriterStates : n = [at |-> "idle", call |-> 1, left |-> <<>>, first |-> TRUE, err |-> None]
    <3>1. <<>> \in Seq(Nat)
      OBVIOUS
    <3>2. QED
      BY <3>1 DEF WriterStates, Errors
  <2>2. writer = [w \in Writers |-> n]
    BY <2>1 DEF Init
  <2>3. QED
    BY <2>1, <2>2 DEF Writings, WriterFits
<1>5. Workings
  BY DEF Init, NewWorkerPool, Workings, WorkerStates, WorkersFit
<1>6. QED
  BY <1>1, <1>2, <1>3, <1>4, <1>5, TypeParts

LEMMA TypesKept == TypeInv /\ [Next]_vars => TypeInv'
<1> SUFFICES ASSUME TypeInv, [Next]_vars
             PROVE  TypeInv'
  OBVIOUS
<1>1. Switches' /\ Network' /\ Readings' /\ Writings' /\ Workings'
  BY SwitchesKept, NetworkKept, ReadingsKept, WritingsKept, WorkingsKept
<1>2. (TypeInv <=> Switches /\ Network /\ Readings /\ Writings /\ Workings)'
  BY TypeParts, PTL
<1>3. QED
  BY <1>1, <1>2

LEMMA AlwaysTypeInv == Spec => []TypeInv
BY TypesInit, TypesKept, PTL DEF Spec

\* The types of all variables, whatever the applications do.
THEOREM TypeCorrect == Spec => []TypeOK
<1>1. TypeInv => TypeOK
  BY DEF TypeInv
<1>2. QED
  BY <1>1, AlwaysTypeInv, PTL

-----------------------------------------------------------------------------
(* Walks.                                                                    *)

LEMMA LabelTypes ==
    ASSUME NEW l \in Label
    PROVE  /\ l.rem \in Nat /\ l.fin \in BOOLEAN /\ l.of \in Messages \cup {None}
           /\ l.units \in Nat /\ l.done \in Nat
BY DEF Label

\* A label by its parts.
LEMMA ALabel ==
    ASSUME NEW rem \in Nat, NEW fin \in BOOLEAN, NEW of \in Messages \cup {None},
           NEW units \in Nat, NEW done \in Nat
    PROVE  \E l \in Label : /\ l = [rem |-> rem, fin |-> fin, of |-> of, units |-> units, done |-> done]
                            /\ l.rem = rem /\ l.fin = fin /\ l.of = of /\ l.units = units
                            /\ l.done = done
<1> DEFINE l == [rem |-> rem, fin |-> fin, of |-> of, units |-> units, done |-> done]
<1>1. l \in Label /\ l.rem = rem /\ l.fin = fin /\ l.of = of /\ l.units = units /\ l.done = done
  BY DEF Label
<1>2. QED
  BY <1>1

LEMMA AfterHeader ==
    ASSUME NEW l \in Label, NEW x \in Item, x.op \in {"data", "cont"}
    PROVE  /\ After(l, x) \in Label /\ After(l, x).rem = x.len /\ After(l, x).fin = x.fin
           /\ After(l, x).of = x.msg
           /\ After(l, x).units = IF x.op = "data" THEN x.len ELSE l.units + x.len
           /\ After(l, x).done = l.done + Over(x.fin, x.len)
<1>1. /\ x.len \in Nat /\ x.fin \in BOOLEAN /\ x.msg \in Messages \cup {None}
      /\ l.units + x.len \in Nat /\ l.done + Over(x.fin, x.len) \in Nat
  BY DEF Item, Label, Over
<1>2. PICK units \in Nat : units = IF x.op = "data" THEN x.len ELSE l.units + x.len
  BY <1>1
<1>3. PICK done \in Nat : done = l.done + Over(x.fin, x.len)
  BY <1>1
<1>4. PICK y \in Label : /\ y = [rem |-> x.len, fin |-> x.fin, of |-> x.msg, units |-> units,
                                 done |-> done]
                         /\ y.rem = x.len /\ y.fin = x.fin /\ y.of = x.msg /\ y.units = units
                         /\ y.done = done
  BY <1>1, <1>2, <1>3, ALabel
<1>5. After(l, x) = y
  BY <1>2, <1>3, <1>4 DEF After, Control
<1>6. QED
  BY <1>2, <1>3, <1>4, <1>5

LEMMA AfterPayload ==
    ASSUME NEW l \in Label, NEW x \in Item, x.op = "payload"
    PROVE  /\ After(l, x) \in Label /\ After(l, x).rem = 0 /\ After(l, x).fin = l.fin
           /\ After(l, x).of = l.of /\ After(l, x).units = l.units
           /\ After(l, x).done = l.done + Over(l.fin, 0)
<1>1. l.done + Over(l.fin, 0) \in Nat
  BY DEF Label, Over
<1> DEFINE y == [l EXCEPT !.rem = 0, !.done = @ + Over(l.fin, 0)]
<1>2. /\ y \in Label /\ y.rem = 0 /\ y.fin = l.fin /\ y.of = l.of /\ y.units = l.units
      /\ y.done = l.done + Over(l.fin, 0)
  BY <1>1 DEF Label
<1>3. After(l, x) = y
  BY DEF After, Control
<1> HIDE DEF y
<1>4. QED
  BY <1>2, <1>3

LEMMA AfterControl ==
    ASSUME NEW l, NEW x, x.op \in Control
    PROVE  After(l, x) = l
BY DEF After

\* What a header or a payload must fit.
LEMMA Taking ==
    ASSUME NEW l \in Label, NEW x \in Item, CanTake(l, x)
    PROVE  /\ x.op \in {"data", "cont"} \cup Control => l.rem = 0 /\ ~OutOfPlace(l, x)
           /\ x.op = "cont" => x.msg = l.of
           /\ x.op = "payload" => l.rem > 0 /\ x.len = l.rem
           /\ x.op # "torn" /\ ~Blocks(l, x)
BY DEF CanTake, OutOfPlace, Blocks, Control, Label

LEMMA LabelAfter ==
    ASSUME NEW l \in Label, NEW x \in Item, CanTake(l, x)
    PROVE  After(l, x) \in Label
<1>1. x.op \in Control \cup {"data", "cont", "payload"}
  BY DEF CanTake
<1>2. QED
  BY <1>1, AfterHeader, AfterPayload, AfterControl

\* More messages do not make a label wrong.
LEMMA SoundGrows ==
    ASSUME NEW p, NEW ms \in Seq(Messages), NEW m \in Messages, NEW l \in Label, Sound(p, ms, l)
    PROVE  Sound(p, Append(ms, m), l)
<1>1. l.done \in Nat /\ l.done <= Len(ms) /\ Len(Append(ms, m)) = Len(ms) + 1
  BY LabelTypes DEF Sound
<1>2. l.done > 0 => Append(ms, m)[l.done] = ms[l.done]
  BY <1>1
<1>3. QED
  BY <1>1, <1>2 DEF Sound

LEMMA WalkGrows ==
    ASSUME NEW p, NEW ms \in Seq(Messages), NEW m \in Messages, NEW ws, NEW n, NEW lab,
           Walk(p, ms, ws, n, lab)
    PROVE  Walk(p, Append(ms, m), ws, n, lab)
<1>1. \A i \in 0..n : lab[i] \in Label /\ Sound(p, ms, lab[i])
  BY DEF Walk
<1>2. \A i \in 0..n : Sound(p, Append(ms, m), lab[i])
  BY <1>1, SoundGrows
<1>3. QED
  BY <1>2 DEF Walk

\* Places on the wire, as one thing.
Whole(n, ws) == n = Len(ws)
Later(n2, n, ws) == n \in Nat /\ n2 = n + 1 /\ n2 \in DOMAIN ws

LEMMA Prepended ==
    ASSUME NEW x \in Item, NEW ps \in Seq(Item)
    PROVE  /\ <<x>> \in Seq(Item) /\ <<x>> \o ps \in Seq(Item) /\ <<x>> \o ps # <<>>
           /\ Len(<<x>> \o ps) = 1 + Len(ps) /\ (<<x>> \o ps)[1] = x
OBVIOUS

LEMMA Lengthens ==
    ASSUME NEW ws \in Seq(Item), NEW items \in Seq(Item)
    PROVE  /\ ws \o items \in Seq(Item) /\ Len(ws \o items) = Len(ws) + Len(items)
           /\ Len(items) > 0 => (ws \o items)[Len(ws) + 1] = items[1]
OBVIOUS

\* A walk stays one when the wire grows beyond it.
LEMMA WalkStays ==
    ASSUME NEW p, NEW ms, NEW ws \in Seq(Item), NEW items \in Seq(Item), NEW n, NEW lab,
           Walk(p, ms, ws, n, lab), NEW us, us = ws \o items
    PROVE  Walk(p, ms, us, n, lab)
<1>1. n \in 0..Len(ws)
  BY DEF Walk
<1>2. us \in Seq(Item) /\ Len(us) = Len(ws) + Len(items) /\ \A i \in 1..Len(ws) : us[i] = ws[i]
  OBVIOUS
<1>3. n \in 0..Len(us) /\ \A i \in 1..n : us[i] = ws[i]
  BY <1>1, <1>2
<1>4. QED
  BY <1>3 DEF Walk

\* It goes one item further.
LEMMA WalkOn ==
    ASSUME NEW p, NEW ms, NEW ws \in Seq(Item), NEW n, NEW lab, Walk(p, ms, ws, n, lab),
           NEW n2, Later(n2, n, ws), NEW l, l = lab[n], NEW x, x = ws[n2],
           CanTake(l, x), NEW y, y = After(l, x), Sound(p, ms, y)
    PROVE  \E far : Walk(p, ms, ws, n2, far) /\ far[0] = lab[0] /\ far[n2] = y
<1>1. y = After(lab[n], ws[n2]) /\ CanTake(lab[n], ws[n2])
  OBVIOUS
<1>2. lab \in [0..n -> Label] /\ n \in Nat /\ n2 = n + 1 /\ n2 \in 0..Len(ws)
  BY DEF Walk, Later
<1>3. lab[n] \in Label /\ y \in Label
  <2>1. ws[n2] \in Item /\ n \in 0..n
    BY <1>2
  <2>2. lab[n] \in Label
    BY <1>2, <2>1
  <2>3. QED
    BY <1>1, <2>1, <2>2, LabelAfter
<1> DEFINE far == [i \in 0..n2 |-> IF i <= n THEN lab[i] ELSE y]
<1>4. far \in [0..n2 -> Label] /\ far[n2] = y /\ \A i \in 0..n : far[i] = lab[i]
  <2>1. \A i \in 0..n2 : i <= n => i \in 0..n
    BY <1>2
  <2>2. far \in [0..n2 -> Label]
    BY <1>2, <1>3, <2>1
  <2>3. QED
    BY <1>2, <2>2
<1> HIDE DEF far
<1>5. ASSUME NEW i \in 1..n2
      PROVE  CanTake(far[i - 1], ws[i]) /\ far[i] = After(far[i - 1], ws[i])
  <2>1. CASE i \in 1..n
    <3>1. i - 1 \in 0..n /\ i \in 0..n
      BY <1>2, <2>1
    <3>2. CanTake(lab[i - 1], ws[i]) /\ lab[i] = After(lab[i - 1], ws[i])
      BY <2>1 DEF Walk
    <3>3. QED
      BY <1>4, <3>1, <3>2
  <2>2. CASE i = n2
    <3>1. i - 1 = n /\ n \in 0..n
      BY <1>2, <2>2
    <3>2. far[i - 1] = lab[n] /\ far[i] = y
      BY <1>4, <2>2, <3>1
    <3>3. QED
      BY <1>1, <2>2, <3>2
  <2>3. QED
    BY <1>2, <2>1, <2>2
<1>6. ASSUME NEW i \in 0..n2
      PROVE  Sound(p, ms, far[i])
  <2>1. CASE i \in 0..n
    BY <1>4, <2>1 DEF Walk
  <2>2. CASE i = n2
    BY <1>1, <1>4, <2>2
  <2>3. QED
    BY <1>2, <2>1, <2>2
<1>7. Walk(p, ms, ws, n2, far)
  BY <1>2, <1>4, <1>5, <1>6 DEF Walk
<1>8. far[0] = lab[0]
  BY <1>2, <1>4
<1>9. QED
  BY <1>1, <1>4, <1>7, <1>8

\* The first item is gone.
LEMMA WalkDrops ==
    ASSUME NEW p, NEW ms, NEW ws \in Seq(Item), NEW n \in Nat, NEW lab, Walk(p, ms, ws, n, lab), n > 0
    PROVE  /\ ws # <<>> /\ CanTake(lab[0], ws[1]) /\ lab[1] = After(lab[0], ws[1])
           /\ lab[0] \in Label /\ lab[1] \in Label /\ Sound(p, ms, lab[0]) /\ Sound(p, ms, lab[1])
           /\ Len(Tail(ws)) = Len(ws) - 1 /\ n <= Len(ws)
           /\ n < Len(ws) => Tail(ws)[n] = ws[n + 1]
           /\ \E rest \in [0..(n - 1) -> Label] :
                 /\ Walk(p, ms, Tail(ws), n - 1, rest)
                 /\ rest[0] = lab[1] /\ rest[n - 1] = lab[n]
<1>1. n \in 0..Len(ws) /\ n <= Len(ws) /\ lab \in [0..n -> Label]
  BY DEF Walk
<1>2. ws # <<>> /\ 1 \in 1..n /\ 0 \in 0..n /\ 1 \in 0..n /\ n - 1 \in Nat
  <2>1. ws = <<>> => Len(ws) = 0
    OBVIOUS
  <2>2. QED
    BY <1>1, <2>1
<1>3. Len(Tail(ws)) = Len(ws) - 1 /\ \A i \in 1..(Len(ws) - 1) : Tail(ws)[i] = ws[i + 1]
  BY <1>2
<1>4. /\ CanTake(lab[0], ws[1]) /\ lab[1] = After(lab[0], ws[1])
      /\ lab[0] \in Label /\ lab[1] \in Label /\ Sound(p, ms, lab[0]) /\ Sound(p, ms, lab[1])
  <2>1. CanTake(lab[1 - 1], ws[1]) /\ lab[1] = After(lab[1 - 1], ws[1])
    BY <1>2 DEF Walk
  <2>2. QED
    BY <1>1, <1>2, <2>1 DEF Walk
<1> DEFINE rest == [i \in 0..(n - 1) |-> lab[i + 1]]
<1>5. rest \in [0..(n - 1) -> Label] /\ rest[0] = lab[1] /\ rest[n - 1] = lab[n]
  <2>1. \A i \in 0..(n - 1) : i + 1 \in 0..n
    BY <1>2
  <2>2. 0 \in 0..(n - 1) /\ n - 1 \in 0..(n - 1) /\ (n - 1) + 1 = n /\ 0 + 1 = 1
    BY <1>2
  <2>3. QED
    BY <1>1, <2>1, <2>2
<1>6. ASSUME NEW i \in 1..(n - 1)
      PROVE  CanTake(rest[i - 1], Tail(ws)[i]) /\ rest[i] = After(rest[i - 1], Tail(ws)[i])
  <2>1. i + 1 \in 1..n /\ i - 1 \in 0..(n - 1) /\ i \in 0..(n - 1) /\ (i - 1) + 1 = i
        /\ (i + 1) - 1 = i /\ i \in 1..(Len(ws) - 1)
    BY <1>1, <1>2
  <2>2. CanTake(lab[(i + 1) - 1], ws[i + 1]) /\ lab[i + 1] = After(lab[(i + 1) - 1], ws[i + 1])
    BY <2>1 DEF Walk
  <2>3. rest[i - 1] = lab[i] /\ rest[i] = lab[i + 1] /\ Tail(ws)[i] = ws[i + 1]
    BY <1>3, <2>1
  <2> HIDE DEF rest
  <2>4. QED
    BY <2>1, <2>2, <2>3
<1>7. ASSUME NEW i \in 0..(n - 1)
      PROVE  Sound(p, ms, rest[i])
  <2>1. i + 1 \in 0..n
    BY <1>2
  <2>2. QED
    BY <2>1 DEF Walk
<1> HIDE DEF rest
<1>8. n - 1 \in 0..Len(Tail(ws))
  BY <1>1, <1>2, <1>3
<1>9. Walk(p, ms, Tail(ws), n - 1, rest)
  BY <1>5, <1>6, <1>7, <1>8 DEF Walk
<1>10. n < Len(ws) => Tail(ws)[n] = ws[n + 1]
  BY <1>1, <1>3
<1>11. QED
  BY <1>1, <1>2, <1>3, <1>4, <1>5, <1>9, <1>10

\* Some units of the first item, a payload, are gone.
Shorter(us, ws, k) ==
    /\ ws[1].op = "payload" /\ k < ws[1].len /\ Len(us) = Len(ws)
    /\ us[1].op = "payload" /\ us[1].len = ws[1].len - k
    /\ \A i \in 2..Len(ws) : us[i] = ws[i]

LEMMA WalkShrinks ==
    ASSUME NEW p, NEW ms, NEW ws \in Seq(Item), NEW n \in Nat, NEW lab, Walk(p, ms, ws, n, lab), n > 0,
           NEW k \in Nat, NEW us \in Seq(Item), Shorter(us, ws, k)
    PROVE  \E less \in [0..n -> Label] :
              /\ Walk(p, ms, us, n, less) /\ less[n] = lab[n]
              /\ less[0].rem = lab[0].rem - k /\ less[0].fin = lab[0].fin /\ less[0].of = lab[0].of
              /\ less[0].units = lab[0].units /\ less[0].done = lab[0].done
              /\ less[0].rem > 0
<1>0. /\ ws[1].op = "payload" /\ k < ws[1].len /\ Len(us) = Len(ws)
      /\ us[1].op = "payload" /\ us[1].len = ws[1].len - k
      /\ \A i \in 2..Len(ws) : us[i] = ws[i]
  BY DEF Shorter
<1> USE <1>0
<1>1. n \in 0..Len(ws) /\ n <= Len(ws) /\ lab \in [0..n -> Label]
  BY DEF Walk
<1>2. /\ ws # <<>> /\ CanTake(lab[0], ws[1]) /\ lab[1] = After(lab[0], ws[1])
      /\ lab[0] \in Label /\ Sound(p, ms, lab[0])
  BY WalkDrops
<1>3. ws[1] \in Item /\ us[1] \in Item /\ ws[1].len \in Nat
  <2>1. Len(ws) > 0 /\ 1 \in 1..Len(ws) /\ 1 \in 1..Len(us)
    BY <1>1, <1>2
  <2>2. ws[1] \in Item /\ us[1] \in Item
    BY <2>1
  <2>3. QED
    BY <2>2 DEF Item
<1>4. ws[1].len = lab[0].rem /\ lab[0].rem \in Nat
  BY <1>2, <1>3, Taking, LabelTypes
<1> DEFINE y == [lab[0] EXCEPT !.rem = @ - k]
<1>5. lab[0].rem - k \in Nat /\ lab[0].rem - k > 0
  BY <1>3, <1>4
<1>6. /\ y \in Label /\ y.rem = lab[0].rem - k /\ y.fin = lab[0].fin /\ y.of = lab[0].of
      /\ y.units = lab[0].units /\ y.done = lab[0].done
  BY <1>2, <1>5 DEF Label
<1> HIDE DEF y
<1>7. CanTake(y, us[1])
  BY <1>4, <1>5, <1>6 DEF CanTake
<1>8. After(y, us[1]) = After(lab[0], ws[1])
  <2>1. PICK a \in Label : a = After(y, us[1]) /\ a.rem = 0 /\ a.fin = y.fin /\ a.of = y.of
                           /\ a.units = y.units /\ a.done = y.done + Over(y.fin, 0)
    BY <1>3, <1>6, AfterPayload
  <2>2. PICK b \in Label : b = After(lab[0], ws[1]) /\ b.rem = 0 /\ b.fin = lab[0].fin
                           /\ b.of = lab[0].of /\ b.units = lab[0].units
                           /\ b.done = lab[0].done + Over(lab[0].fin, 0)
    BY <1>2, <1>3, AfterPayload
  <2>3. a.rem = b.rem /\ a.fin = b.fin /\ a.of = b.of /\ a.units = b.units /\ a.done = b.done
    BY <1>6, <2>1, <2>2
  <2>4. a = b
    BY <2>3 DEF Label
  <2>5. QED
    BY <2>1, <2>2, <2>4
<1>9. Sound(p, ms, y)
  BY <1>2, <1>4, <1>5, <1>6 DEF Sound
<1> DEFINE less == [i \in 0..n |-> IF i = 0 THEN y ELSE lab[i]]
<1>10. less \in [0..n -> Label] /\ less[0] = y /\ \A i \in 1..n : less[i] = lab[i]
  BY <1>1, <1>6
<1> HIDE DEF less
<1>11. ASSUME NEW i \in 1..n
       PROVE  CanTake(less[i - 1], us[i]) /\ less[i] = After(less[i - 1], us[i])
  <2>1. CASE i = 1
    BY <1>2, <1>7, <1>8, <1>10, <2>1
  <2>2. CASE i # 1
    <3>1. i - 1 \in 1..n /\ i \in 2..Len(ws)
      BY <1>1, <2>2
    <3>2. us[i] = ws[i] /\ less[i - 1] = lab[i - 1] /\ less[i] = lab[i]
      BY <1>10, <3>1
    <3>3. CanTake(lab[i - 1], ws[i]) /\ lab[i] = After(lab[i - 1], ws[i])
      BY DEF Walk
    <3>4. QED
      BY <3>2, <3>3
  <2>3. QED
    BY <2>1, <2>2
<1>12. ASSUME NEW i \in 0..n
       PROVE  Sound(p, ms, less[i])
  <2>1. CASE i = 0
    BY <1>9, <1>10, <2>1
  <2>2. CASE i \in 1..n
    BY <1>10, <2>2 DEF Walk
  <2>3. QED
    BY <2>1, <2>2
<1>13. Walk(p, ms, us, n, less)
  BY <1>1, <1>10, <1>11, <1>12 DEF Walk
<1>14. less[n] = lab[n]
  BY <1>10
<1>15. QED
  BY <1>5, <1>6, <1>10, <1>13, <1>14

\* The next of the frames that are left.
LEMMA NextFrame ==
    ASSUME NEW left \in Seq(Nat), left # <<>>, NEW n \in Nat, AddUp(left, n)
    PROVE  /\ Head(left) \in Nat /\ Head(left) <= n /\ AddUp(Tail(left), n - Head(left))
           /\ Len(left) = 1 => n = Head(left)
<1>1. PICK r \in [0..Len(left) -> Nat] : /\ r[0] = n /\ r[Len(left)] = 0
                                         /\ \A i \in 1..Len(left) : r[i - 1] = left[i] + r[i]
  BY DEF AddUp
<1>2. Len(left) \in Nat /\ Len(left) > 0 /\ Head(left) = left[1] /\ left[1] \in Nat
      /\ Len(Tail(left)) = Len(left) - 1
      /\ \A i \in 1..(Len(left) - 1) : Tail(left)[i] = left[i + 1]
  OBVIOUS
<1>3. r[0] = left[1] + r[1] /\ r[1] \in Nat
  <2>1. 1 \in 1..Len(left) /\ 1 \in 0..Len(left)
    BY <1>2
  <2>2. r[1 - 1] = left[1] + r[1]
    BY <1>1, <2>1
  <2>3. QED
    BY <2>1, <2>2
<1> DEFINE q == [i \in 0..Len(Tail(left)) |-> r[i + 1]]
<1>4. q \in [0..Len(Tail(left)) -> Nat] /\ q[0] = r[1] /\ q[Len(Tail(left))] = r[Len(left)]
  <2>1. \A i \in 0..Len(Tail(left)) : i + 1 \in 0..Len(left)
    BY <1>2
  <2>2. 0 \in 0..Len(Tail(left)) /\ Len(Tail(left)) \in 0..Len(Tail(left))
        /\ Len(Tail(left)) + 1 = Len(left) /\ 0 + 1 = 1
    BY <1>2
  <2>3. QED
    BY <2>1, <2>2
<1>5. ASSUME NEW i \in 1..Len(Tail(left))
      PROVE  q[i - 1] = Tail(left)[i] + q[i]
  <2>1. i + 1 \in 1..Len(left) /\ i - 1 \in 0..Len(Tail(left)) /\ i \in 0..Len(Tail(left))
        /\ (i - 1) + 1 = i /\ (i + 1) - 1 = i /\ i \in 1..(Len(left) - 1)
    BY <1>2
  <2>2. r[(i + 1) - 1] = left[i + 1] + r[i + 1]
    BY <1>1, <2>1
  <2>3. q[i - 1] = r[i] /\ q[i] = r[i + 1] /\ Tail(left)[i] = left[i + 1]
    BY <1>2, <2>1
  <2> HIDE DEF q
  <2>4. QED
    BY <2>1, <2>2, <2>3
<1> HIDE DEF q
<1>6. q[0] = n - Head(left)
  BY <1>1, <1>2, <1>3, <1>4
<1>7. AddUp(Tail(left), n - Head(left))
  BY <1>1, <1>4, <1>5, <1>6 DEF AddUp
<1>8. Head(left) <= n
  BY <1>1, <1>2, <1>3
<1>9. Len(left) = 1 => n = Head(left)
  BY <1>1, <1>2, <1>3
<1>10. QED
  BY <1>2, <1>7, <1>8, <1>9

\* The frame of this header goes on with the message of the label.
Fits(p, l, x) ==
    /\ x.op = "cont" => x.msg = l.of
    /\ x.msg \in Said(p) /\ After(l, x).units <= Size[x.msg]
    /\ x.fin => After(l, x).units = Size[x.msg]
    /\ InOneFrame(p) => x.fin

\* An empty last frame is the end of its message.
Closes(ms, l, x) == x.fin /\ x.len = 0 => l.done < Len(ms) /\ ms[l.done + 1] = x.msg

\* Past a header that fits.
LEMMA HeaderWalks ==
    ASSUME NEW p, NEW ms \in Seq(Messages), NEW ws \in Seq(Item), NEW n, NEW lab,
           NEW n2, Later(n2, n, ws), NEW x \in Item, NEW l \in Label,
           x.op \in {"data", "cont"}, x.msg \in Messages,
           Walk(p, ms, ws, n, lab), x = ws[n2], l = lab[n],
           l.rem = 0, ~OutOfPlace(l, x), Fits(p, l, x),
           Closes(ms, l, x)
    PROVE  \E far : Walk(p, ms, ws, n2, far) /\ far[0] = lab[0] /\ far[n2] = After(l, x)
<1>1. CanTake(l, x)
  BY LabelTypes DEF CanTake, OutOfPlace, Fits
<1>2. PICK y \in Label : /\ y = After(l, x) /\ y.rem = x.len /\ y.fin = x.fin /\ y.of = x.msg
                         /\ y.done = l.done + Over(x.fin, x.len)
  BY AfterHeader
<1>3. l.done <= Len(ms) /\ l.done \in Nat
  <2>1. n \in 0..n
    BY DEF Later
  <2>2. Sound(p, ms, l)
    BY <2>1 DEF Walk
  <2>3. QED
    BY <2>2, LabelTypes DEF Sound
<1>4. x.msg # None
  BY ConnAssumption
<1>5. Sound(p, ms, y)
  <2>1. y.of \in Said(p) /\ y.units <= Size[y.of] /\ (InOneFrame(p) => y.fin)
        /\ (y.fin => y.units = Size[y.of])
    BY <1>2 DEF Fits
  <2>2. y.done <= Len(ms)
    <3>1. x.fin /\ x.len = 0 => l.done + 1 <= Len(ms)
      BY <1>3 DEF Closes
    <3>2. QED
      BY <1>2, <1>3, <3>1 DEF Over
  <2>3. y.fin /\ y.rem = 0 => y.done > 0 /\ ms[y.done] = y.of
    <3>1. y.fin /\ y.rem = 0 => y.done = l.done + 1 /\ ms[l.done + 1] = x.msg
      BY <1>2 DEF Over, Closes
    <3>2. l.done + 1 > 0
      BY <1>3
    <3>3. QED
      BY <1>2, <3>1, <3>2
  <2>4. QED
    BY <1>2, <1>4, <2>1, <2>2, <2>3 DEF Sound
<1>6. QED
  BY <1>1, <1>2, <1>5, WalkOn

Joined(us, ws, items) == us = ws \o items
Grown(ms2, ms, fin, m) == ms2 = IF fin THEN Append(ms, m) ELSE ms
IsHeader(x, op, fin, m, k) == x = Header(op, fin, m, k)

\* A reader that has read all has this frame before it.
FrameComes(p, ms, ws, n, lab, op, fin, m, k, x, l, ms2, us) ==
    /\ IsHeader(x, op, fin, m, k) /\ Walk(p, ms, ws, n, lab) /\ Whole(n, ws) /\ l = lab[n]
    /\ l.rem = 0 /\ l.done = Len(ms) /\ ~OutOfPlace(l, x) /\ Fits(p, l, x)
    /\ Grown(ms2, ms, fin, m) /\ Joined(us, ws, WholeFrame(op, fin, m, k))
    /\ ms \in Seq(Messages) /\ ws \in Seq(Item) /\ ms2 \in Seq(Messages) /\ us \in Seq(Item)
    /\ l \in Label /\ x \in Item /\ op \in {"data", "cont"} /\ fin \in BOOLEAN
    /\ m \in Messages /\ k \in Nat

\* Past a whole frame that fits.
LEMMA FrameWalks ==
    ASSUME NEW p, NEW ms, NEW ws, NEW n, NEW lab, NEW op, NEW fin, NEW m, NEW k, NEW x, NEW l,
           NEW ms2, NEW us, FrameComes(p, ms, ws, n, lab, op, fin, m, k, x, l, ms2, us)
    PROVE  \E n2, far :
              /\ Whole(n2, us) /\ Walk(p, ms2, us, n2, far) /\ far[0] = lab[0]
              /\ far[n2].rem = 0 /\ far[n2].fin = fin /\ far[n2].of = m
              /\ far[n2].units = After(l, x).units /\ far[n2].done = Len(ms2)
<1>0. /\ IsHeader(x, op, fin, m, k) /\ Walk(p, ms, ws, n, lab) /\ Whole(n, ws) /\ l = lab[n]
      /\ l.rem = 0 /\ l.done = Len(ms) /\ ~OutOfPlace(l, x) /\ Fits(p, l, x)
      /\ Grown(ms2, ms, fin, m) /\ Joined(us, ws, WholeFrame(op, fin, m, k))
      /\ ms \in Seq(Messages) /\ ws \in Seq(Item) /\ ms2 \in Seq(Messages) /\ us \in Seq(Item)
      /\ l \in Label /\ x \in Item /\ op \in {"data", "cont"} /\ fin \in BOOLEAN
      /\ m \in Messages /\ k \in Nat
  BY DEF FrameComes
<1> USE <1>0
<1>1. x.op = op /\ x.fin = fin /\ x.msg = m /\ x.len = k
  BY DEF Header, IsHeader
<1>2. Len(ms2) = Len(ms) + Over(fin, 0) /\ (fin => ms2[Len(ms) + 1] = m) /\ Len(ms) \in Nat
  BY DEF Over, Grown
<1>3. PICK ps \in Seq(Item) : ps = Payload(m, k)
  <2>1. op \in Ops /\ m \in Messages \cup {None}
    BY DEF Ops
  <2>2. QED
    BY <2>1, FrameTypes
<1>4. PICK items \in Seq(Item) : items = <<x>> \o ps /\ Len(items) = 1 + Len(ps) /\ items[1] = x
  BY <1>3, Prepended
<1>5. us = ws \o items
  BY <1>3, <1>4 DEF WholeFrame, Joined, IsHeader
<1>6. PICK e \in Nat : e = Len(ws) /\ Len(us) = e + (1 + Len(ps)) /\ us[e + 1] = x
  <2>1. PICK e \in Nat : e = Len(ws)
    OBVIOUS
  <2>2. Len(us) = e + Len(items) /\ us[e + 1] = items[1]
    <3>1. Len(items) \in Nat /\ Len(items) > 0
      BY <1>4
    <3>2. QED
      BY <1>5, <2>1, <3>1
  <2>3. QED
    BY <1>4, <2>1, <2>2
<1>7. PICK n1 : Later(n1, n, us) /\ n1 = e + 1 /\ x = us[n1]
  <2>1. e + 1 \in 1..Len(us) /\ n = e
    BY <1>6 DEF Whole
  <2>2. QED
    BY <1>6, <2>1 DEF Later
<1>8. Walk(p, ms2, us, n, lab)
  <2>1. Walk(p, ms2, ws, n, lab)
    BY WalkGrows DEF Grown
  <2>2. QED
    BY <1>5, <2>1, WalkStays
<1>9. Closes(ms2, l, x)
  BY <1>1, <1>2 DEF Over, Closes
<1>10. PICK far : Walk(p, ms2, us, n1, far) /\ far[0] = lab[0] /\ far[n1] = After(l, x)
  <2>1. x.op \in {"data", "cont"} /\ x.msg \in Messages
    BY <1>1
  <2>2. /\ ms2 \in Seq(Messages) /\ us \in Seq(Item) /\ x \in Item /\ l \in Label
        /\ l = lab[n] /\ l.rem = 0 /\ ~OutOfPlace(l, x) /\ Fits(p, l, x)
    OBVIOUS
  <2> HIDE <1>0
  <2>3. Later(n1, n, us) /\ x = us[n1]
    BY <1>7
  <2>4. QED
    BY <1>8, <1>9, <2>1, <2>2, <2>3, HeaderWalks
<1>11. PICK y \in Label : /\ y = After(l, x) /\ y.rem = k /\ y.fin = fin /\ y.of = m
                          /\ y.done = Len(ms) + Over(fin, k)
  BY <1>1, AfterHeader
<1>12. CASE k = 0
  <2>1. ps = <<>>
    BY <1>3, <1>12 DEF Payload
  <2>2. Whole(n1, us)
    BY <1>6, <1>7, <2>1 DEF Whole
  <2>3. far[n1].units = After(l, x).units /\ far[n1].rem = 0 /\ far[n1].fin = fin /\ far[n1].of = m
        /\ far[n1].done = Len(ms2)
    BY <1>2, <1>10, <1>11, <1>12
  <2>4. QED
    BY <1>10, <2>2, <2>3
<1>13. CASE k # 0
  <2>1. PICK z : z = [op |-> "payload", fin |-> FALSE, msg |-> m, len |-> k]
    OBVIOUS
  <2>2. z \in Item /\ z.op = "payload" /\ z.len = k
    BY <2>1 DEF Item, Ops
  <2>3. ps = <<z>>
    BY <1>3, <1>13, <2>1 DEF Payload
  <2>4. PICK n2 : Later(n2, n1, us) /\ z = us[n2] /\ Whole(n2, us)
    <3>1. us = ws \o <<x, z>>
      BY <1>4, <1>5, <2>2, <2>3
    <3>2. Len(us) = e + 2 /\ us[e + 2] = z
      BY <1>6, <2>2, <3>1
    <3>3. PICK n2 : n2 = n1 + 1
      OBVIOUS
    <3>4. n1 \in Nat /\ n2 \in Nat /\ n2 = e + 2 /\ n2 \in 1..Len(us) /\ n2 = Len(us)
      BY <1>7, <3>2, <3>3
    <3>5. z = us[n2]
      BY <3>2, <3>4
    <3>6. QED
      BY <3>3, <3>4, <3>5 DEF Later, Whole
  <2>5. CanTake(y, z)
    BY <1>11, <1>13, <2>2 DEF CanTake
  <2>6. PICK b \in Label : /\ b = After(y, z) /\ b.rem = 0 /\ b.fin = fin /\ b.of = m
                           /\ b.units = y.units /\ b.done = y.done + Over(fin, 0)
    BY <1>11, <2>2, AfterPayload
  <2>7. b.done = Len(ms2)
    <3>1. Over(fin, k) = 0 /\ Over(fin, 0) \in Nat
      BY <1>13 DEF Over
    <3>2. QED
      BY <1>2, <1>11, <2>6, <3>1
  <2>8. Sound(p, ms2, b)
    <3>1. b.of # None
      BY <2>6, ConnAssumption
    <3>2. b.of \in Said(p) /\ b.units <= Size[b.of] /\ (InOneFrame(p) => b.fin)
          /\ (b.fin => b.units = Size[b.of])
      BY <1>1, <1>11, <2>6 DEF Fits
    <3>3. b.fin => b.done > 0 /\ ms2[b.done] = b.of
      BY <1>2, <2>6, <2>7 DEF Over
    <3>4. QED
      BY <2>7, <3>1, <3>2, <3>3 DEF Sound
  <2>9. PICK more : Walk(p, ms2, us, n2, more) /\ more[0] = far[0] /\ more[n2] = b
    <3>1. y = far[n1]
      BY <1>10, <1>11
    <3>2. Walk(p, ms2, us, n1, far) /\ b = After(y, z) /\ Later(n2, n1, us) /\ z = us[n2]
      BY <1>10, <2>4, <2>6
    <3>3. QED
      BY <2>5, <2>8, <3>1, <3>2, WalkOn
  <2>10. more[n2].units = After(l, x).units /\ more[0] = lab[0]
    BY <1>10, <1>11, <2>6, <2>9
  <2>11. QED
    BY <2>4, <2>6, <2>7, <2>9, <2>10
<1>14. QED
  BY <1>12, <1>13

\* Past a header that fits, of a frame that was cut off after it.
LEMMA StumpWalks ==
    ASSUME NEW p, NEW ms \in Seq(Messages), NEW ws \in Seq(Item), NEW n, NEW lab,
           NEW x \in Item, x.op \in {"data", "cont"}, x.msg \in Messages, x.len > 0,
           Walk(p, ms, ws, n, lab), Whole(n, ws), NEW l \in Label, l = lab[n],
           l.rem = 0, ~OutOfPlace(l, x), Fits(p, l, x),
           NEW us \in Seq(Item), Joined(us, ws, <<x>>)
    PROVE  \E n2, far : /\ Whole(n2, us) /\ Walk(p, ms, us, n2, far) /\ far[0] = lab[0]
                        /\ far[n2].rem > 0
<1>1. PICK items \in Seq(Item) : items = <<x>>
  BY Prepended
<1>2. Walk(p, ms, us, n, lab)
  <2>1. us = ws \o items
    BY <1>1 DEF Joined
  <2>2. QED
    BY <2>1, WalkStays
<1>3. PICK n2 : Later(n2, n, us) /\ x = us[n2] /\ Whole(n2, us)
  <2>1. PICK e \in Nat : e = Len(ws)
    OBVIOUS
  <2>2. Len(us) = e + 1 /\ us[e + 1] = x /\ e + 1 \in 1..Len(us) /\ n = e
    BY <2>1 DEF Whole, Joined
  <2>3. QED
    BY <2>1, <2>2 DEF Later, Whole
<1>4. PICK far : Walk(p, ms, us, n2, far) /\ far[0] = lab[0] /\ far[n2] = After(l, x)
  <2>1. ~(x.fin /\ x.len = 0)
    OBVIOUS
  <2>2. QED
    BY <1>2, <1>3, <2>1, HeaderWalks DEF Closes
<1>5. After(l, x).rem = x.len
  BY AfterHeader
<1>6. QED
  BY <1>3, <1>4, <1>5

-----------------------------------------------------------------------------
(* What is on the wire when an end writes.                                   *)

\* The writers in a message were in it before, and are where they were.
KeepsOpen(p) == \A v \in Writers : Open(p, v)' => /\ Open(p, v) /\ Mine(v)' = Mine(v)
                                                  /\ writer'[v].left = writer[v].left
LosesNone(p) == \A v \in Writers : Open(p, v) => Open(p, v)'

Worse(p) == past'[p].fault # "no" /\ (past[p].fault = "torn" => past'[p].fault = "torn")
Faults(p) == Worse(p) \/ (past'[p].fault = past[p].fault /\ LosesNone(p))

LEMMA SaidSame ==
    ASSUME program' = program
    PROVE  /\ \A p : Said(p)' = Said(p) /\ InOneFrame(p)' = InOneFrame(p)
           /\ \A s : Undisturbed(s)' = Undisturbed(s)
BY DEF Said, InOneFrame, Undisturbed, Says

LEMMA WalkPrimed ==
    ASSUME program' = program, NEW p, NEW ms, ms = wrote'[p], NEW us, us = wire'[p], NEW n, NEW lab,
           Walk(p, ms, us, n, lab)
    PROVE  Walk(p, wrote[p], wire[p], n, lab)'
<1>1. /\ n \in 0..Len(wire'[p]) /\ lab \in [0..n -> Label]
      /\ \A i \in 1..n : CanTake(lab[i - 1], wire'[p][i]) /\ lab[i] = After(lab[i - 1], wire'[p][i])
      /\ \A i \in 0..n : Sound(p, wrote'[p], lab[i])
  BY DEF Walk
<1>2. \A l : Sound(p, wrote'[p], l) => Sound(p, wrote[p], l)'
  BY SaidSame DEF Sound
<1>3. QED
  BY <1>1, <1>2 DEF Walk

LEMMA WritersKeep ==
    ASSUME TypeInv, program' = program, NEW w \in Writers, NEW at, NEW call, NEW left, NEW first,
           Turns(w, at, call, left, first), at # "flush" \/ first, NEW p
    PROVE  /\ KeepsOpen(p)
           /\ writer[w].at # "flush" \/ writer[w].first => LosesNone(p)
<1>1. ~Open(p, w)'
  BY DEF Turns, Open
<1>2. ASSUME NEW v \in Writers, v # w
      PROVE  (Open(p, v)' <=> Open(p, v)) /\ Mine(v)' = Mine(v) /\ writer'[v].left = writer[v].left
  BY <1>2 DEF Turns, Open, Mine
<1>3. writer[w].at # "flush" \/ writer[w].first => ~Open(p, w)
  BY DEF Open
<1>4. QED
  BY <1>1, <1>2, <1>3 DEF KeepsOpen, LosesNone

LEMMA WritersSame ==
    ASSUME program' = program, writer' = writer, NEW p
    PROVE  KeepsOpen(p) /\ LosesNone(p)
BY DEF KeepsOpen, LosesNone, Open, Mine

LEMMA EndKept ==
    ASSUME program' = program, NEW p, KeepsOpen(p), Faults(p), wrote'[p] = wrote[p], NEW l, AtWriters(p, l)
    PROVE  AtWriters(p, l)'
<1>1. past'[p].fault # "torn" => l.rem = 0
  BY DEF AtWriters, Faults, Worse
<1>2. ASSUME l.rem = 0
      PROVE  /\ l.done = Len(wrote'[p])
             /\ \A v \in Writers : Open(p, v)' =>
                   /\ ~l.fin /\ l.of = Mine(v)'.msg /\ l.units <= Size[l.of]
                   /\ AddUp(writer'[v].left, Size[l.of] - l.units)
  BY <1>2 DEF AtWriters, KeepsOpen
<1>3. past'[p].fault = "no" /\ ~l.fin => \E v \in Writers : Open(p, v)'
  BY DEF AtWriters, Faults, Worse, LosesNone
<1>4. QED
  BY <1>1, <1>2, <1>3 DEF AtWriters, AddUp

LEMMA SentSame ==
    ASSUME program' = program, NEW p, KeepsOpen(p), Faults(p),
           wire'[p] = wire[p], wrote'[p] = wrote[p], NEW n, NEW lab, Sent(p, n, lab)
    PROVE  Sent(p, n, lab)'
<1>1. Walk(p, wrote[p], wire[p], n, lab)'
  BY WalkPrimed DEF Sent
<1>2. CASE n = Len(wire[p])
  <2>1. AtWriters(p, lab[n])'
    BY <1>2, EndKept DEF Sent, Outcome
  <2>2. QED
    BY <1>1, <1>2, <2>1 DEF Sent, Outcome
<1>3. CASE n # Len(wire[p])
  <2>1. /\ Blocks(lab[n], wire[p][n + 1]) /\ past[p].fault # "no"
        /\ past[p].fault # "torn" => lab[n].rem = 0 /\ OutOfPlace(lab[n], wire[p][n + 1])
    BY <1>3 DEF Sent, Outcome
  <2>2. past'[p].fault # "no" /\ (past'[p].fault # "torn" => past[p].fault # "torn")
    BY <2>1 DEF Faults, Worse
  <2>3. Outcome(p, n, lab)'
    BY <1>3, <2>1, <2>2 DEF Outcome, Blocks, OutOfPlace
  <2>4. QED
    BY <1>1, <2>3 DEF Sent
<1>4. QED
  BY <1>2, <1>3

\* More is written on a wire that nobody reads to its end.
LEMMA StillBlocked ==
    ASSUME program' = program, NEW p, Worse(p) \/ past'[p].fault = past[p].fault, wire[p] \in Seq(Item), wrote[p] \in Seq(Messages),
           NEW items \in Seq(Item), wire'[p] = wire[p] \o items,
           wrote'[p] = wrote[p] \/ \E m \in Messages : wrote'[p] = Append(wrote[p], m),
           NEW n, NEW lab, Sent(p, n, lab),
           n # Len(wire[p]) \/ (/\ items # <<>> /\ Blocks(lab[n], items[1]) /\ past'[p].fault # "no"
                                /\ past'[p].fault # "torn" =>
                                      lab[n].rem = 0 /\ OutOfPlace(lab[n], items[1]))
    PROVE  Sent(p, n, lab)'
<1>1. PICK ms, ws, us, ms2 : ms = wrote[p] /\ ws = wire[p] /\ us = wire'[p] /\ ms2 = wrote'[p]
  OBVIOUS
<1>2. ms \in Seq(Messages) /\ ws \in Seq(Item) /\ us = ws \o items /\ Walk(p, ms, ws, n, lab)
      /\ (ms2 = ms \/ \E m \in Messages : ms2 = Append(ms, m))
  BY <1>1 DEF Sent
<1>3. Walk(p, ms2, ws, n, lab)
  BY <1>2, WalkGrows
<1>4. Walk(p, ms2, us, n, lab)
  BY <1>2, <1>3, WalkStays
<1>5. Walk(p, wrote[p], wire[p], n, lab)'
  BY <1>1, <1>4, WalkPrimed
<1>6. n \in 0..Len(ws) /\ Len(us) = Len(ws) + Len(items) /\ \A i \in 1..Len(ws) : us[i] = ws[i]
  BY <1>2 DEF Walk
<1>7. ASSUME n # Len(ws)
      PROVE  us[n + 1] = ws[n + 1] /\ n # Len(us) /\ past'[p].fault # "no" /\ Blocks(lab[n], us[n + 1])
             /\ (past'[p].fault # "torn" => lab[n].rem = 0 /\ OutOfPlace(lab[n], us[n + 1]))
  <2>1. n + 1 \in 1..Len(ws) /\ n # Len(us)
    BY <1>6, <1>7
  <2>2. /\ Blocks(lab[n], ws[n + 1]) /\ past[p].fault # "no"
        /\ past[p].fault # "torn" => lab[n].rem = 0 /\ OutOfPlace(lab[n], ws[n + 1])
    BY <1>1, <1>7 DEF Sent, Outcome
  <2>3. us[n + 1] = ws[n + 1]
    BY <1>6, <2>1
  <2>4. QED
    BY <2>1, <2>2, <2>3 DEF Worse
<1>8. ASSUME n = Len(ws)
      PROVE  n # Len(us) /\ past'[p].fault # "no" /\ Blocks(lab[n], us[n + 1])
             /\ (past'[p].fault # "torn" => lab[n].rem = 0 /\ OutOfPlace(lab[n], us[n + 1]))
  <2>1. /\ items # <<>> /\ Blocks(lab[n], items[1]) /\ past'[p].fault # "no"
        /\ past'[p].fault # "torn" => lab[n].rem = 0 /\ OutOfPlace(lab[n], items[1])
    BY <1>1, <1>8
  <2>2. us[n + 1] = items[1] /\ n # Len(us)
    <3>1. Len(items) \in Nat /\ Len(items) > 0
      BY <2>1
    <3>2. QED
      BY <1>2, <1>8, <3>1
  <2>3. QED
    BY <2>1, <2>2
<1>9. n # Len(us) /\ past'[p].fault # "no" /\ Blocks(lab[n], us[n + 1])
      /\ (past'[p].fault # "torn" => lab[n].rem = 0 /\ OutOfPlace(lab[n], us[n + 1]))
  BY <1>7, <1>8
<1>10. Outcome(p, n, lab)'
  BY <1>1, <1>9 DEF Outcome, Blocks, OutOfPlace
<1>11. QED
  BY <1>5, <1>10 DEF Sent

\* What is written is read on from the end.
LEMMA ReadOn ==
    ASSUME program' = program, NEW p, NEW us, us = wire'[p], NEW ms, ms = wrote'[p], NEW n, NEW far,
           Walk(p, ms, us, n, far), Whole(n, us), AtWriters(p, far[n])'
    PROVE  Sent(p, n, far)'
<1>1. Walk(p, wrote[p], wire[p], n, far)'
  BY WalkPrimed
<1>2. Outcome(p, n, far)'
  BY DEF Whole, Outcome
<1>3. QED
  BY <1>1, <1>2 DEF Sent

LEMMA WritersElsewhere ==
    ASSUME program' = program, NEW w \in Writers, NEW at, NEW call, NEW left, NEW first,
           Turns(w, at, call, left, first), NEW p, Owner[w] # p
    PROVE  KeepsOpen(p) /\ LosesNone(p)
<1>1. ASSUME NEW v \in Writers, v # w
      PROVE  (Open(p, v)' <=> Open(p, v)) /\ Mine(v)' = Mine(v) /\ writer'[v].left = writer[v].left
  BY <1>1 DEF Turns, Open, Mine
<1>2. ~Open(p, w) /\ ~Open(p, w)'
  BY DEF Open
<1>3. QED
  BY <1>1, <1>2 DEF KeepsOpen, LosesNone

\* The last label of a walk.
LEMMA LastLabel ==
    ASSUME NEW p, NEW n, NEW lab, Sent(p, n, lab)
    PROVE  /\ Walk(p, wrote[p], wire[p], n, lab) /\ lab[n] \in Label /\ Sound(p, wrote[p], lab[n])
           /\ n = Len(wire[p]) => AtWriters(p, lab[n])
<1>1. Walk(p, wrote[p], wire[p], n, lab)
  BY DEF Sent
<1>2. n \in 0..n
  BY <1>1 DEF Walk
<1>3. lab[n] \in Label /\ Sound(p, wrote[p], lab[n])
  BY <1>1, <1>2 DEF Walk
<1>4. QED
  BY <1>1, <1>3 DEF Sent, Outcome

\* A frame of a message is written, where it fits unless a Write failed.
FrameWritten(p, op, fin, m, k, x) ==
    /\ op \in {"data", "cont"} /\ fin \in BOOLEAN /\ m \in Messages /\ k \in Nat /\ x \in Item
    /\ IsHeader(x, op, fin, m, k) /\ Joined(wire'[p], wire[p], WholeFrame(op, fin, m, k))
    /\ Grown(wrote'[p], wrote[p], fin, m) /\ past'[p].fault = past[p].fault
    /\ \A l \in Label : AtWriters(p, l) /\ l.rem = 0 =>
          IF OutOfPlace(l, x) THEN past[p].fault # "no"
          ELSE /\ Fits(p, l, x)
               /\ \A y \in Label : /\ y.rem = 0 /\ y.fin = fin /\ y.of = m
                                   /\ y.units = After(l, x).units /\ y.done = Len(wrote'[p])
                                   => AtWriters(p, y)'

LEMMA FrameSent ==
    ASSUME TypeInv, program' = program, NEW p \in Sides, NEW op, NEW fin, NEW m, NEW k, NEW x,
           FrameWritten(p, op, fin, m, k, x), NEW n, NEW lab, Sent(p, n, lab)
    PROVE  \E n2, far : Sent(p, n2, far)' /\ far[0] = lab[0]
<1>0. /\ op \in {"data", "cont"} /\ fin \in BOOLEAN /\ m \in Messages /\ k \in Nat /\ x \in Item
      /\ IsHeader(x, op, fin, m, k) /\ Joined(wire'[p], wire[p], WholeFrame(op, fin, m, k))
      /\ Grown(wrote'[p], wrote[p], fin, m) /\ past'[p].fault = past[p].fault
      /\ \A l \in Label : AtWriters(p, l) /\ l.rem = 0 =>
            IF OutOfPlace(l, x) THEN past[p].fault # "no"
            ELSE /\ Fits(p, l, x)
                 /\ \A y \in Label : /\ y.rem = 0 /\ y.fin = fin /\ y.of = m
                                     /\ y.units = After(l, x).units /\ y.done = Len(wrote'[p])
                                     => AtWriters(p, y)'
  BY DEF FrameWritten
<1> USE <1>0
<1>1. PICK ms, ws : ms = wrote[p] /\ ws = wire[p] /\ ms \in Seq(Messages) /\ ws \in Seq(Item)
  BY Types DEF TypeInv
<1>2. PICK items \in Seq(Item) : items = WholeFrame(op, fin, m, k) /\ items # <<>> /\ items[1] = x
  BY FrameTypes DEF Ops, IsHeader
<1>3. x.op = op /\ x.fin = fin /\ x.msg = m /\ x.len = k
  BY DEF IsHeader, Header
<1>4. PICK us \in Seq(Item) : us = wire'[p] /\ us = ws \o items
  <2>1. ws \in Seq(Item) /\ items \in Seq(Item)
    BY <1>1, <1>2
  <2>2. ws \o items \in Seq(Item)
    BY <2>1
  <2>3. wire'[p] = ws \o items
    BY <1>1, <1>2 DEF Joined
  <2>4. QED
    BY <2>2, <2>3
<1>5. PICK ms2 \in Seq(Messages) : ms2 = wrote'[p] /\ Grown(ms2, ms, fin, m)
  <2>1. ms \in Seq(Messages)
    BY <1>1
  <2>2. Append(ms, m) \in Seq(Messages)
    BY <2>1
  <2>3. PICK ms2 : ms2 = wrote'[p] /\ Grown(ms2, ms, fin, m)
    BY <1>1
  <2>4. ms2 \in Seq(Messages)
    BY <2>1, <2>2, <2>3 DEF Grown
  <2>5. QED
    BY <2>3, <2>4
<1>6. PICK l \in Label : l = lab[n]
  BY LastLabel
<1>7. ASSUME n # Len(ws) \/ (/\ Blocks(l, x) /\ past[p].fault # "no"
                             /\ past[p].fault # "torn" => l.rem = 0 /\ OutOfPlace(l, x))
      PROVE  Sent(p, n, lab)'
  <2>1. n # Len(wire[p]) \/ (/\ items # <<>> /\ Blocks(lab[n], items[1]) /\ past'[p].fault # "no"
                             /\ past'[p].fault # "torn" =>
                                   lab[n].rem = 0 /\ OutOfPlace(lab[n], items[1]))
    BY <1>1, <1>2, <1>6, <1>7
  <2>2. wrote'[p] = wrote[p] \/ \E m2 \in Messages : wrote'[p] = Append(wrote[p], m2)
    BY DEF Grown
  <2>3. wire[p] \in Seq(Item) /\ wrote[p] \in Seq(Messages) /\ wire'[p] = wire[p] \o items
    BY <1>1, <1>4
  <2>4. QED
    BY <2>1, <2>2, <2>3, StillBlocked
<1>8. CASE n # Len(ws)
  BY <1>7, <1>8
<1>9. CASE n = Len(ws)
  <2>1. AtWriters(p, l)
    BY <1>1, <1>6, <1>9, LastLabel
  <2>2. CASE l.rem # 0
    <3>1. past[p].fault = "torn" /\ l.rem > 0
      BY <2>1, <2>2, LabelTypes DEF AtWriters
    <3>2. Blocks(l, x)
      BY <1>3, <3>1 DEF Blocks
    <3>3. QED
      BY <1>7, <3>1, <3>2
  <2>3. CASE l.rem = 0 /\ OutOfPlace(l, x)
    <3>1. past[p].fault # "no"
      BY <2>1, <2>3
    <3>2. Blocks(l, x)
      BY <1>3, <2>3 DEF Blocks
    <3>3. QED
      BY <1>7, <2>3, <3>1, <3>2
  <2>4. CASE l.rem = 0 /\ ~OutOfPlace(l, x)
    <3>1. Fits(p, l, x)
      BY <2>1, <2>4
    <3>2. l.done = Len(ms)
      BY <1>1, <2>1, <2>4 DEF AtWriters
    <3>3. Walk(p, ms, ws, n, lab) /\ Whole(n, ws)
      BY <1>1, <1>9, LastLabel DEF Whole
    <3>4. Joined(us, ws, WholeFrame(op, fin, m, k))
      BY <1>2, <1>4 DEF Joined
    <3>5. PICK n2, far : /\ Whole(n2, us) /\ Walk(p, ms2, us, n2, far) /\ far[0] = lab[0]
                         /\ far[n2].rem = 0 /\ far[n2].fin = fin /\ far[n2].of = m
                         /\ far[n2].units = After(l, x).units /\ far[n2].done = Len(ms2)
      <4>1. ms \in Seq(Messages) /\ ws \in Seq(Item)
        BY <1>1
      <4>2. us \in Seq(Item) /\ ms2 \in Seq(Messages)
        BY <1>4, <1>5
      <4>3. l.rem = 0 /\ ~OutOfPlace(l, x)
        BY <2>4
      <4>4. l = lab[n] /\ l \in Label /\ Grown(ms2, ms, fin, m)
        BY <1>5, <1>6
      <4>5. FrameComes(p, ms, ws, n, lab, op, fin, m, k, x, l, ms2, us)
        BY <3>1, <3>2, <3>3, <3>4, <4>1, <4>2, <4>3, <4>4 DEF FrameComes
      <4>6. QED
        BY <4>5, FrameWalks
    <3>6. far[n2] \in Label
      BY <3>5 DEF Walk, Whole
    <3>7. AtWriters(p, far[n2])'
      BY <1>5, <2>1, <2>4, <3>5, <3>6
    <3>8. Sent(p, n2, far)'
      BY <1>4, <1>5, <3>5, <3>7, ReadOn
    <3>9. QED
      BY <3>5, <3>8
  <2>5. QED
    BY <2>2, <2>3, <2>4
<1>10. QED
  BY <1>8, <1>9

\* A control frame is written: it may be anywhere between frames.
LEMMA ControlSent ==
    ASSUME TypeInv, program' = program, NEW p \in Sides, NEW op \in Control,
           Joined(wire'[p], wire[p], ControlFrame(op)), wrote'[p] = wrote[p],
           past'[p].fault = past[p].fault, KeepsOpen(p), LosesNone(p),
           NEW n, NEW lab, Sent(p, n, lab)
    PROVE  \E n2, far : Sent(p, n2, far)' /\ far[0] = lab[0]
<1>1. PICK ms, ws : ms = wrote[p] /\ ws = wire[p] /\ ms \in Seq(Messages) /\ ws \in Seq(Item)
  BY Types DEF TypeInv
<1>2. PICK items \in Seq(Item) : items = ControlFrame(op) /\ items # <<>> /\ Len(items) = 1
  BY ControlItem
<1>3. PICK x \in Item : x = items[1] /\ x.op = op
  BY <1>2, ControlItem
<1>4. PICK us \in Seq(Item) : us = wire'[p] /\ us = ws \o items
  <2>1. ws \in Seq(Item) /\ items \in Seq(Item)
    BY <1>1, <1>2
  <2>2. ws \o items \in Seq(Item)
    BY <2>1
  <2>3. wire'[p] = ws \o items
    BY <1>1, <1>2 DEF Joined
  <2>4. QED
    BY <2>2, <2>3
<1>5. ms = wrote'[p]
  BY <1>1
<1>6. PICK l \in Label : l = lab[n] /\ Sound(p, ms, l) /\ Walk(p, ms, ws, n, lab)
  BY <1>1, LastLabel
<1>7. ASSUME n # Len(ws) \/ (Blocks(l, x) /\ past[p].fault = "torn")
      PROVE  Sent(p, n, lab)'
  <2>1. n # Len(wire[p]) \/ (/\ items # <<>> /\ Blocks(lab[n], items[1]) /\ past'[p].fault # "no"
                             /\ past'[p].fault # "torn" =>
                                   lab[n].rem = 0 /\ OutOfPlace(lab[n], items[1]))
    BY <1>1, <1>2, <1>3, <1>6, <1>7
  <2>2. wire[p] \in Seq(Item) /\ wrote[p] \in Seq(Messages) /\ wire'[p] = wire[p] \o items
    BY <1>1, <1>4
  <2>3. QED
    BY <2>1, <2>2, StillBlocked
<1>8. CASE n # Len(ws)
  BY <1>7, <1>8
<1>9. CASE n = Len(ws)
  <2>1. AtWriters(p, l)
    BY <1>1, <1>6, <1>9, LastLabel
  <2>2. CASE l.rem # 0
    <3>1. past[p].fault = "torn" /\ l.rem > 0
      BY <2>1, <2>2, LabelTypes DEF AtWriters
    <3>2. Blocks(l, x)
      BY <1>3, <3>1 DEF Blocks, Control
    <3>3. QED
      BY <1>7, <3>1, <3>2
  <2>3. CASE l.rem = 0
    <3>1. CanTake(l, x)
      BY <1>3, <2>3 DEF CanTake
    <3>2. l = After(l, x)
      BY <1>3, AfterControl
    <3>3. Walk(p, ms, us, n, lab)
      <4>1. ws \in Seq(Item) /\ items \in Seq(Item) /\ us = ws \o items /\ Walk(p, ms, ws, n, lab)
        BY <1>1, <1>2, <1>4, <1>6
      <4>2. QED
        BY <4>1, WalkStays
    <3>4. PICK n2 : Later(n2, n, us) /\ x = us[n2] /\ Whole(n2, us)
      <4>1. PICK e \in Nat : e = Len(ws)
        BY <1>1
      <4>2. Len(us) = e + 1 /\ us[e + 1] = x /\ e + 1 \in 1..Len(us) /\ n = e
        <5>1. ws \in Seq(Item) /\ items \in Seq(Item) /\ us = ws \o items
              /\ Len(items) = 1 /\ items[1] = x /\ n = Len(ws) /\ e = Len(ws)
          BY <1>1, <1>2, <1>3, <1>4, <1>9, <4>1
        <5>2. Len(us) = e + 1 /\ us[e + 1] = x
          <6>1. Len(ws \o items) = Len(ws) + Len(items) /\ (ws \o items)[Len(ws) + 1] = items[1]
            <7>1. Len(items) > 0
              BY <5>1
            <7>2. QED
              BY <5>1, <7>1, Lengthens
          <6>2. QED
            BY <5>1, <6>1
        <5>3. QED
          BY <5>1, <5>2
      <4>3. QED
        BY <4>1, <4>2 DEF Later, Whole
    <3>5. PICK far : Walk(p, ms, us, n2, far) /\ far[0] = lab[0] /\ far[n2] = l
      BY <1>6, <3>1, <3>2, <3>3, <3>4, WalkOn
    <3>6. AtWriters(p, far[n2])'
      BY <2>1, <3>5, EndKept DEF Faults
    <3>7. Sent(p, n2, far)'
      BY <1>4, <1>5, <3>4, <3>5, <3>6, ReadOn
    <3>8. QED
      BY <3>5, <3>7
  <2>4. QED
    BY <2>2, <2>3
<1>10. QED
  BY <1>8, <1>9

\* A Write fails.
LEMMA FailSent ==
    ASSUME TypeInv, program' = program, NEW p \in Sides, NEW items \in Seq(Item), items # <<>>,
           Fails(p, items), UNCHANGED wrote, KeepsOpen(p), NEW x \in Item, x = items[1],
           \/ x.op \in Control /\ x.len = 0
           \/ /\ x.op \in {"data", "cont"} /\ x.msg \in Messages
              /\ \A l \in Label : AtWriters(p, l) /\ l.rem = 0 /\ ~OutOfPlace(l, x) => Fits(p, l, x),
           NEW n, NEW lab, Sent(p, n, lab)
    PROVE  \E n2, far : Sent(p, n2, far)' /\ far[0] = lab[0]
<1>1. PICK ms, ws : ms = wrote[p] /\ ws = wire[p] /\ ms \in Seq(Messages) /\ ws \in Seq(Item)
  BY Types DEF TypeInv
<1>2. /\ wire \in [Sides -> Seq(Item)]
      /\ \/ wire' = wire /\ past'[p].fault = IF past[p].fault = "torn" THEN "torn" ELSE "failed"
         \/ wire' = [wire EXCEPT ![p] = Append(@, Stump(x))] /\ past'[p].fault = "torn"
  BY Types, FailsTypes DEF TypeInv
<1>3. Worse(p)
  BY <1>2 DEF Worse
<1>4. CASE wire' = wire
  BY <1>3, <1>4, SentSame DEF Faults
<1>5. CASE wire' = [wire EXCEPT ![p] = Append(@, Stump(x))] /\ past'[p].fault = "torn"
  <2>1. PICK y \in Item : y = Stump(x) /\ (x.len > 0 => y = x) /\ (x.len = 0 => y.op = "torn")
    BY StumpTypes
  <2>2. PICK z \in Seq(Item) : z = <<y>> /\ z # <<>> /\ z[1] = y
    BY Prepended
  <2>3. PICK us \in Seq(Item) : us = wire'[p] /\ us = ws \o z
    <3>1. ws \in Seq(Item) /\ wire[p] = ws /\ wire \in [Sides -> Seq(Item)]
      BY <1>1, <1>2
    <3>2. y = Stump(x) /\ z \in Seq(Item) /\ z = <<y>>
      BY <2>1, <2>2
    <3>3. Append(ws, y) = ws \o z /\ ws \o z \in Seq(Item)
      BY <3>1, <3>2
    <3>4. wire'[p] = Append(ws, Stump(x))
      BY <1>5, <3>1
    <3>5. QED
      BY <3>2, <3>3, <3>4
  <2>4. PICK l \in Label : l = lab[n]
    BY LastLabel
  <2>5. ASSUME n # Len(ws) \/ Blocks(l, y)
        PROVE  Sent(p, n, lab)'
    <3>1. n # Len(wire[p]) \/ (/\ z # <<>> /\ Blocks(lab[n], z[1]) /\ past'[p].fault # "no"
                               /\ past'[p].fault # "torn" =>
                                     lab[n].rem = 0 /\ OutOfPlace(lab[n], z[1]))
      BY <1>1, <1>5, <2>2, <2>4, <2>5
    <3>2. wire[p] \in Seq(Item) /\ wrote[p] \in Seq(Messages) /\ wire'[p] = wire[p] \o z
          /\ wrote'[p] = wrote[p]
      BY <1>1, <2>3
    <3>3. QED
      BY <1>3, <3>1, <3>2, StillBlocked
  <2>6. CASE n # Len(ws)
    BY <2>5, <2>6
  <2>7. CASE n = Len(ws) /\ Blocks(l, y)
    BY <2>5, <2>7
  <2>8. CASE n = Len(ws) /\ ~Blocks(l, y)
    <3>1. y.op # "torn" /\ x.len \in Nat
      BY <2>8 DEF Blocks, Item
    <3>2. y = x /\ x.len > 0 /\ x.op \in {"data", "cont"} /\ x.msg \in Messages
      BY <2>1, <3>1
    <3>3. l.rem = 0 /\ ~OutOfPlace(l, x)
      BY <2>8, <3>2, LabelTypes DEF Blocks
    <3>4. AtWriters(p, l)
      BY <1>1, <2>4, <2>8, LastLabel
    <3>5. Fits(p, l, x)
      BY <3>2, <3>3, <3>4 DEF Control
    <3>6. Walk(p, ms, ws, n, lab) /\ Whole(n, ws) /\ Joined(us, ws, <<x>>)
      BY <1>1, <2>2, <2>3, <2>8, <3>2, LastLabel DEF Whole, Joined
    <3>7. PICK n2, far : /\ Whole(n2, us) /\ Walk(p, ms, us, n2, far) /\ far[0] = lab[0]
                         /\ far[n2].rem > 0
      <4>1. ms \in Seq(Messages) /\ ws \in Seq(Item) /\ us \in Seq(Item) /\ l = lab[n] /\ l \in Label
        BY <1>1, <2>3, <2>4
      <4>2. x.len > 0 /\ x.op \in {"data", "cont"} /\ x.msg \in Messages
        BY <3>2
      <4>3. QED
        BY <3>3, <3>5, <3>6, <4>1, <4>2, StumpWalks
    <3>8. AtWriters(p, far[n2])'
      BY <1>5, <3>7 DEF AtWriters
    <3>9. Sent(p, n2, far)'
      BY <1>1, <2>3, <3>7, <3>8, ReadOn
    <3>10. QED
      BY <3>7, <3>9
  <2>9. QED
    BY <2>6, <2>7, <2>8
<1>6. QED
  BY <1>2, <1>4, <1>5

\* The goroutine that writes a message in frames is the only one that writes messages.
LEMMA OnlyOneOpen ==
    ASSUME TypeInv, Orderly, NEW v \in Writers, NEW w \in Writers, Open(Owner[w], v),
           writer[w].call <= Len(program.calls[w]), Mine(w).do \in Data
    PROVE  v = w
<1>1. writer[v].at = "flush" /\ Owner[v] = Owner[w]
  BY DEF Open
<1>2. writer[v].call \in DOMAIN program.calls[v] /\ Mine(v).do = "NextWriter"
  BY <1>1, WriterPlaces DEF WriterFits
<1>3. Says(v, {"NextWriter"})
  BY <1>2 DEF Says, Mine
<1>4. writer[w].call \in DOMAIN program.calls[w]
  BY WriterPlaces
<1>5. Says(w, Data)
  BY <1>4 DEF Says, Mine
<1>6. QED
  BY <1>1, <1>3, <1>5 DEF Orderly

\* A message is written in one frame, by the call or by the pool.
LEMMA WholeMessageSent ==
    ASSUME TypeInv, program' = program, NEW p \in Sides, NEW m \in Messages, m \in Said(p),
           Puts(p, WholeFrame("data", TRUE, m, Size[m]), m), KeepsOpen(p),
           past[p].fault = "no" => \A v \in Writers : ~Open(p, v),
           NEW n, NEW lab, Sent(p, n, lab)
    PROVE  \E n2, far : Sent(p, n2, far)' /\ far[0] = lab[0]
<1>1. Size[m] \in Nat /\ m # None /\ m \in Messages \cup {None} /\ "data" \in Ops
  BY ConnAssumption DEF Ops
<1>2. PICK x \in Item : IsHeader(x, "data", TRUE, m, Size[m])
  BY <1>1, FrameTypes DEF IsHeader
<1>3. x.op = "data" /\ x.fin = TRUE /\ x.msg = m /\ x.len = Size[m]
  BY <1>2 DEF IsHeader, Header
<1>4. /\ wire' = [wire EXCEPT ![p] = @ \o WholeFrame("data", TRUE, m, Size[m])]
      /\ wrote' = [wrote EXCEPT ![p] = Append(@, m)] /\ past'[p].fault = past[p].fault
  <2>1. WholeFrame("data", TRUE, m, Size[m]) \in Seq(Item) /\ WholeFrame("data", TRUE, m, Size[m]) # <<>>
    BY <1>1, FrameTypes
  <2>2. QED
    BY <1>1, <2>1, PutsTypes DEF TypeInv
<1>5. wire \in [Sides -> Seq(Item)] /\ wrote \in [Sides -> Seq(Messages)]
  BY Types DEF TypeInv
<1>6. Joined(wire'[p], wire[p], WholeFrame("data", TRUE, m, Size[m]))
  BY <1>4, <1>5 DEF Joined
<1>7. Grown(wrote'[p], wrote[p], TRUE, m)
  BY <1>4, <1>5 DEF Grown
<1>8. ASSUME NEW l \in Label, AtWriters(p, l), l.rem = 0
      PROVE  IF OutOfPlace(l, x) THEN past[p].fault # "no"
             ELSE /\ Fits(p, l, x)
                  /\ \A y \in Label : /\ y.rem = 0 /\ y.fin = TRUE /\ y.of = m
                                      /\ y.units = After(l, x).units /\ y.done = Len(wrote'[p])
                                      => AtWriters(p, y)'
  <2>1. CASE OutOfPlace(l, x)
    <3>1. ~l.fin
      BY <1>3, <2>1 DEF OutOfPlace
    <3>2. past[p].fault # "no"
      BY <1>8, <3>1 DEF AtWriters
    <3>3. QED
      BY <2>1, <3>2
  <2>2. CASE ~OutOfPlace(l, x)
    <3>1. l.fin
      BY <1>3, <2>2, LabelTypes DEF OutOfPlace
    <3>2. \A v \in Writers : ~Open(p, v)'
      BY <1>8, <3>1 DEF AtWriters, KeepsOpen
    <3>3. After(l, x).units = Size[m]
      BY <1>3, AfterHeader
    <3>4. Fits(p, l, x)
      BY <1>1, <1>3, <3>3 DEF Fits
    <3>5. \A y \in Label : /\ y.rem = 0 /\ y.fin = TRUE /\ y.of = m
                           /\ y.units = After(l, x).units /\ y.done = Len(wrote'[p])
                           => AtWriters(p, y)'
      BY <3>2 DEF AtWriters
    <3>6. QED
      BY <2>2, <3>4, <3>5
  <2>3. QED
    BY <2>1, <2>2
<1>9. QED
  <2>1. FrameWritten(p, "data", TRUE, m, Size[m], x)
    BY <1>1, <1>2, <1>4, <1>6, <1>7, <1>8 DEF FrameWritten
  <2>2. QED
    BY <2>1, FrameSent

\* The frame a writer of frames is about to write.
LEMMA FlushFits ==
    ASSUME TypeInv, Orderly, NEW w \in Writers, writer[w].at = "flush",
           writer[w].call <= Len(program.calls[w]), NEW x \in Item,
           IsHeader(x, FrameType(w), Final(w), Mine(w).msg, Head(writer[w].left)),
           NEW l \in Label, AtWriters(Owner[w], l), l.rem = 0
    PROVE  IF OutOfPlace(l, x) THEN past[Owner[w]].fault # "no"
           ELSE /\ Fits(Owner[w], l, x)
                /\ After(l, x).units <= Size[Mine(w).msg]
                /\ AddUp(Tail(writer[w].left), Size[Mine(w).msg] - After(l, x).units)
<1>1. PICK m \in Messages : m = Mine(w).msg /\ Size[m] \in Nat /\ m \in Said(Owner[w])
      /\ Mine(w).do = "NextWriter" /\ "NextWriter" \in Data
  BY FlushedIs, WriterPlaces DEF Data
<1>2. PICK left \in Seq(Nat) : left = writer[w].left /\ left # <<>> /\ Head(left) \in Nat
  BY FlushedIs
<1>3. PICK k \in Nat : k = Head(left)
  BY <1>2
<1>4. x.op = FrameType(w) /\ x.fin = (Len(left) = 1) /\ x.msg = m /\ x.len = k
  BY <1>1, <1>2, <1>3 DEF IsHeader, Header, Final
<1>5. Owner[w] \in Sides /\ writer[w].first \in BOOLEAN
  BY WriterPlaces
<1>6. ~InOneFrame(Owner[w])
  <2>1. writer[w].call \in DOMAIN program.calls[w]
    BY WriterPlaces
  <2>2. Says(w, {"NextWriter"})
    BY <1>1, <2>1 DEF Says, Mine
  <2>3. QED
    BY <2>2 DEF InOneFrame
<1>7. CASE writer[w].first
  <2>1. x.op = "data"
    BY <1>4, <1>7 DEF FrameType
  <2>2. \A v \in Writers : ~Open(Owner[w], v)
    <3> SUFFICES ASSUME NEW v \in Writers, Open(Owner[w], v)
                 PROVE  FALSE
      OBVIOUS
    <3>1. v = w
      BY <1>1, OnlyOneOpen
    <3>2. QED
      BY <1>7, <3>1 DEF Open
  <2>3. OutOfPlace(l, x) => past[Owner[w]].fault # "no"
    BY <2>1, <2>2 DEF OutOfPlace, AtWriters
  <2>4. left = Flushes(Owner[w], Size[m])
    BY <1>1, <1>2, <1>7, WriterPlaces DEF WriterFits
  <2>5. AddUp(left, Size[m])
    BY <1>1, <1>5, <2>4, FlushesAddUp
  <2>6. k <= Size[m] /\ AddUp(Tail(left), Size[m] - k) /\ (Len(left) = 1 => Size[m] = k)
    BY <1>1, <1>2, <1>3, <2>5, NextFrame
  <2>7. After(l, x).units = k
    BY <1>4, <2>1, AfterHeader
  <2>8. Fits(Owner[w], l, x)
    BY <1>1, <1>4, <1>6, <2>1, <2>6, <2>7 DEF Fits
  <2>9. QED
    BY <1>1, <1>2, <2>3, <2>6, <2>7, <2>8
<1>8. CASE ~writer[w].first
  <2>1. x.op = "cont"
    BY <1>4, <1>8 DEF FrameType
  <2>2. Open(Owner[w], w)
    BY <1>8 DEF Open
  <2>3. ~l.fin /\ l.of = m /\ l.units <= Size[m] /\ AddUp(left, Size[m] - l.units)
    BY <1>1, <1>2, <2>2 DEF AtWriters
  <2>4. ~OutOfPlace(l, x)
    BY <2>1, <2>3 DEF OutOfPlace
  <2>5. PICK u \in Nat : u = Size[m] - l.units
    BY <1>1, <2>3, LabelTypes
  <2>6. AddUp(left, u)
    BY <2>3, <2>5
  <2>7. k <= u /\ AddUp(Tail(left), u - k) /\ (Len(left) = 1 => u = k)
    BY <1>2, <1>3, <2>6, NextFrame
  <2>8. After(l, x).units = l.units + k /\ l.units \in Nat
    BY <1>4, <2>1, AfterHeader, LabelTypes
  <2>9. PICK z \in Nat : z = After(l, x).units
    BY <1>4, <2>1, AfterHeader, LabelTypes
  <2>10. z <= Size[m] /\ Size[m] - z = u - k /\ (Len(left) = 1 => z = Size[m])
    BY <1>1, <2>5, <2>7, <2>8, <2>9
  <2>11. Fits(Owner[w], l, x)
    BY <1>1, <1>4, <1>6, <2>1, <2>3, <2>9, <2>10 DEF Fits
  <2>12. AddUp(Tail(left), Size[m] - z)
    BY <2>7, <2>10
  <2>13. QED
    BY <1>1, <1>2, <2>4, <2>9, <2>10, <2>11, <2>12
<1>9. QED
  BY <1>5, <1>7, <1>8

\* A frame of a message in several is written.
WritesFrame(w, p) ==
    /\ writer[w].at = "flush" /\ writer[w].call <= Len(program.calls[w]) /\ p = Owner[w]
    /\ Puts(Owner[w], Flushed(w), IF Final(w) THEN Mine(w).msg ELSE None)
    /\ Turns(w, IF Final(w) THEN "end" ELSE "flush", writer[w].call, Tail(writer[w].left), FALSE)

LEMMA FlushSent ==
    ASSUME TypeInv, program' = program, Orderly, NEW w \in Writers, NEW p, WritesFrame(w, p),
           NEW n, NEW lab, Sent(p, n, lab)
    PROVE  \E n2, far : Sent(p, n2, far)' /\ far[0] = lab[0]
<1>0. /\ writer[w].at = "flush" /\ writer[w].call <= Len(program.calls[w]) /\ p = Owner[w]
      /\ Puts(Owner[w], Flushed(w), IF Final(w) THEN Mine(w).msg ELSE None)
      /\ Turns(w, IF Final(w) THEN "end" ELSE "flush", writer[w].call, Tail(writer[w].left), FALSE)
  BY DEF WritesFrame
<1> USE <1>0
<1>1. p \in Sides
  BY WriterPlaces
<1>2. PICK m \in Messages : m = Mine(w).msg /\ Mine(w).do = "NextWriter" /\ m # None /\ Mine(w).do \in Data
  BY FlushedIs, ConnAssumption DEF Data
<1>3. PICK op \in {"data", "cont"} : op = FrameType(w)
  BY FlushedIs
<1>4. PICK fin \in BOOLEAN : fin = Final(w)
  BY DEF Final
<1>5. PICK k \in Nat : k = Head(writer[w].left)
  BY FlushedIs
<1>6. PICK x \in Item : IsHeader(x, op, fin, m, k)
  BY <1>2, <1>3, <1>4, <1>5, FlushedIs DEF IsHeader
<1>7. Flushed(w) = WholeFrame(op, fin, m, k) /\ Flushed(w) \in Seq(Item) /\ Flushed(w) # <<>>
  BY <1>2, <1>3, <1>4, <1>5, FlushedIs
<1>8. /\ wire' = [wire EXCEPT ![p] = @ \o Flushed(w)]
      /\ wrote' = IF fin THEN [wrote EXCEPT ![p] = Append(@, m)] ELSE wrote
      /\ past'[p].fault = past[p].fault
  <2>1. PICK last \in Messages \cup {None} : last = IF fin THEN m ELSE None
    OBVIOUS
  <2>2. Puts(p, Flushed(w), last)
    BY <1>2, <1>4, <2>1
  <2>3. /\ wire' = [wire EXCEPT ![p] = @ \o Flushed(w)]
        /\ wrote' = IF last = None THEN wrote ELSE [wrote EXCEPT ![p] = Append(@, last)]
        /\ past'[p].fault = past[p].fault
    BY <1>1, <1>7, <2>2, PutsTypes DEF TypeInv
  <2>4. QED
    BY <1>2, <2>1, <2>3
<1>9. wire \in [Sides -> Seq(Item)] /\ wrote \in [Sides -> Seq(Messages)]
  BY Types DEF TypeInv
<1>10. Joined(wire'[p], wire[p], WholeFrame(op, fin, m, k))
  BY <1>1, <1>7, <1>8, <1>9 DEF Joined
<1>11. Grown(wrote'[p], wrote[p], fin, m)
  BY <1>1, <1>8, <1>9 DEF Grown
<1>12. ASSUME NEW v \in Writers, Open(p, v)'
       PROVE  v = w
  <2>1. CASE v # w
    <3>1. Open(p, v)
      BY <1>12, <2>1 DEF Turns, Open
    <3>2. Open(Owner[w], v)
      BY <3>1
    <3>3. QED
      BY <1>2, <3>2, OnlyOneOpen
  <2>2. QED
    BY <2>1
<1>13. Open(p, w)' <=> ~fin
  BY <1>4 DEF Turns, Open
<1>14. Mine(w)' = Mine(w) /\ writer'[w].left = Tail(writer[w].left)
  BY DEF Turns, Mine
<1>15. ASSUME NEW l \in Label, AtWriters(p, l), l.rem = 0
       PROVE  IF OutOfPlace(l, x) THEN past[p].fault # "no"
              ELSE /\ Fits(p, l, x)
                   /\ \A y \in Label : /\ y.rem = 0 /\ y.fin = fin /\ y.of = m
                                       /\ y.units = After(l, x).units /\ y.done = Len(wrote'[p])
                                       => AtWriters(p, y)'
  <2>1. IF OutOfPlace(l, x) THEN past[p].fault # "no"
        ELSE /\ Fits(p, l, x) /\ After(l, x).units <= Size[m]
             /\ AddUp(Tail(writer[w].left), Size[m] - After(l, x).units)
    <3>1. IsHeader(x, FrameType(w), Final(w), Mine(w).msg, Head(writer[w].left)) /\ AtWriters(Owner[w], l)
      BY <1>2, <1>3, <1>4, <1>5, <1>6, <1>15
    <3>2. QED
      BY <1>2, <1>15, <3>1, FlushFits
  <2>2. ASSUME ~OutOfPlace(l, x), NEW y \in Label, y.rem = 0, y.fin = fin, y.of = m,
               y.units = After(l, x).units, y.done = Len(wrote'[p])
        PROVE  AtWriters(p, y)'
    <3>1. \A v \in Writers : Open(p, v)' =>
             /\ ~y.fin /\ y.of = Mine(v)'.msg /\ y.units <= Size[y.of]
             /\ AddUp(writer'[v].left, Size[y.of] - y.units)
      BY <1>2, <1>12, <1>13, <1>14, <2>1, <2>2
    <3>2. ~y.fin => \E v \in Writers : Open(p, v)'
      BY <1>13, <2>2
    <3>3. QED
      BY <2>2, <3>1, <3>2 DEF AtWriters, AddUp
  <2>3. QED
    BY <2>1, <2>2
<1>16. QED
  <2>1. FrameWritten(p, op, fin, m, k, x)
    BY <1>1, <1>6, <1>8, <1>10, <1>11, <1>15 DEF FrameWritten
  <2>2. QED
    BY <1>1, <2>1, FrameSent

-----------------------------------------------------------------------------
(* Every step of a writer and of the pool.                                   *)

\* What comes of the wire of an end that a reader has read so far.
GoesOn(p, n, lab) == \E n2, far : Sent(p, n2, far)' /\ far[0] = lab[0]

LEMMA WholeFits ==
    ASSUME NEW p, NEW m \in Messages, m \in Said(p), NEW l \in Label, NEW x \in Item,
           IsHeader(x, "data", TRUE, m, Size[m])
    PROVE  Fits(p, l, x) /\ x.op = "data" /\ x.msg = m
<1>1. x.op = "data" /\ x.fin = TRUE /\ x.msg = m /\ x.len = Size[m]
  BY DEF IsHeader, Header
<1>2. After(l, x).units = Size[m] /\ Size[m] \in Nat
  BY <1>1, AfterHeader, ConnAssumption
<1>3. QED
  BY <1>1, <1>2 DEF Fits

\* A write of a whole message fails.
LEMMA WholeMessageFails ==
    ASSUME TypeInv, program' = program, NEW p \in Sides, NEW m \in Messages, m \in Said(p),
           Fails(p, WholeFrame("data", TRUE, m, Size[m])), UNCHANGED wrote, KeepsOpen(p),
           NEW n, NEW lab, Sent(p, n, lab)
    PROVE  GoesOn(p, n, lab)
<1>1. Size[m] \in Nat /\ m \in Messages \cup {None} /\ "data" \in Ops
  BY ConnAssumption DEF Ops
<1>2. PICK items \in Seq(Item) : items = WholeFrame("data", TRUE, m, Size[m]) /\ items # <<>>
                                 /\ items[1] = Header("data", TRUE, m, Size[m]) /\ items[1] \in Item
  <2>1. /\ Header("data", TRUE, m, Size[m]) \in Item
        /\ WholeFrame("data", TRUE, m, Size[m]) \in Seq(Item)
        /\ WholeFrame("data", TRUE, m, Size[m]) # <<>>
        /\ WholeFrame("data", TRUE, m, Size[m])[1] = Header("data", TRUE, m, Size[m])
    BY <1>1, FrameTypes
  <2>2. QED
    BY <2>1
<1>3. PICK x \in Item : x = items[1]
  BY <1>2
<1>4. IsHeader(x, "data", TRUE, m, Size[m])
  BY <1>2, <1>3 DEF IsHeader
<1>5. x.op \in {"data", "cont"} /\ x.msg \in Messages
      /\ \A l \in Label : AtWriters(p, l) /\ l.rem = 0 /\ ~OutOfPlace(l, x) => Fits(p, l, x)
  <2>1. \A l \in Label : Fits(p, l, x) /\ x.op = "data" /\ x.msg = m
    BY <1>4, WholeFits
  <2>2. x.op = "data" /\ x.msg = m
    BY <1>4 DEF IsHeader, Header
  <2>3. QED
    BY <2>1, <2>2
<1>6. Fails(p, items)
  BY <1>2
<1>7. QED
  BY <1>2, <1>3, <1>5, <1>6, FailSent DEF GoesOn

LEMMA ControlItemFails ==
    ASSUME TypeInv, program' = program, NEW p \in Sides, NEW op \in Control,
           Fails(p, ControlFrame(op)), UNCHANGED wrote, KeepsOpen(p),
           NEW n, NEW lab, Sent(p, n, lab)
    PROVE  GoesOn(p, n, lab)
<1>1. PICK items \in Seq(Item) : items = ControlFrame(op) /\ items # <<>>
  BY ControlItem
<1>2. PICK x \in Item : x = items[1] /\ x.op \in Control /\ x.len = 0
  BY <1>1, ControlItem
<1>3. Fails(p, items)
  BY <1>1
<1>4. QED
  BY <1>1, <1>2, <1>3, FailSent DEF GoesOn

LEMMA ControlItemSent ==
    ASSUME TypeInv, program' = program, NEW p \in Sides, NEW op \in Control,
           Puts(p, ControlFrame(op), None), KeepsOpen(p), LosesNone(p),
           NEW n, NEW lab, Sent(p, n, lab)
    PROVE  GoesOn(p, n, lab)
<1>1. ControlFrame(op) \in Seq(Item) /\ ControlFrame(op) # <<>>
  BY ControlItem
<1>2. /\ wire' = [wire EXCEPT ![p] = @ \o ControlFrame(op)]
      /\ wrote' = wrote /\ past'[p].fault = past[p].fault
  BY <1>1, PutsTypes DEF TypeInv
<1>3. wire \in [Sides -> Seq(Item)]
  BY Types DEF TypeInv
<1>4. Joined(wire'[p], wire[p], ControlFrame(op))
  BY <1>2, <1>3 DEF Joined
<1>5. QED
  BY <1>2, <1>4, ControlSent DEF GoesOn

LEMMA FlushFailsSent ==
    ASSUME TypeInv, program' = program, Orderly, NEW w \in Writers, writer[w].at = "flush",
           writer[w].call <= Len(program.calls[w]), NEW p \in Sides, p = Owner[w],
           Fails(Owner[w], Flushed(w)), UNCHANGED wrote, KeepsOpen(p),
           NEW n, NEW lab, Sent(p, n, lab)
    PROVE  GoesOn(p, n, lab)
<1>1. PICK items \in Seq(Item) : items = Flushed(w) /\ items # <<>>
  BY FlushedIs
<1>2. PICK x \in Item : x = items[1]
                        /\ IsHeader(x, FrameType(w), Final(w), Mine(w).msg, Head(writer[w].left))
  BY <1>1, FlushedIs DEF IsHeader
<1>3. x.op \in {"data", "cont"} /\ x.msg \in Messages
  BY <1>2, FlushedIs DEF IsHeader, Header
<1>4. ASSUME NEW l \in Label, AtWriters(p, l), l.rem = 0, ~OutOfPlace(l, x)
      PROVE  Fits(p, l, x)
  BY <1>2, <1>4, FlushFits
<1>5. Fails(p, items)
  BY <1>1
<1>6. QED
  BY <1>1, <1>2, <1>3, <1>4, <1>5, FailSent DEF GoesOn

\* Of another end's wire.
LEMMA OtherWire ==
    ASSUME TypeInv, NEW p \in Sides, NEW q \in Sides, q # p,
           NEW items \in Seq(Item), items # <<>>, NEW m \in Messages \cup {None},
           Puts(q, items, m) \/ (Fails(q, items) /\ UNCHANGED wrote)
    PROVE  wire'[p] = wire[p] /\ wrote'[p] = wrote[p] /\ past'[p].fault = past[p].fault
<1>1. TypeOK /\ wire \in [Sides -> Seq(Item)] /\ wrote \in [Sides -> Seq(Messages)]
  BY Types DEF TypeInv
<1>2. CASE Puts(q, items, m)
  BY <1>1, <1>2, PutsTypes
<1>3. CASE Fails(q, items) /\ UNCHANGED wrote
  BY <1>1, <1>3, FailsTypes
<1>4. QED
  BY <1>2, <1>3

LEMMA WriterElsewhere ==
    ASSUME TypeInv, NEW w \in Writers, NEW p \in Sides, Owner[w] # p,
           Write(w) \/ WriteFails(w) \/ WriteControl(w) \/ ControlFails(w) \/ Flush(w) \/ FlushFails(w),
           NEW n, NEW lab, Sent(p, n, lab)
    PROVE  GoesOn(p, n, lab)
<1>1. Owner[w] \in Sides
  BY WriterPlaces
<1>2. ASSUME NEW items \in Seq(Item), items # <<>>, NEW m \in Messages \cup {None},
             Puts(Owner[w], items, m) \/ (Fails(Owner[w], items) /\ UNCHANGED wrote),
             NEW at, NEW call, NEW left, NEW first, Turns(w, at, call, left, first), program' = program
      PROVE  GoesOn(p, n, lab)
  <2>1. wire'[p] = wire[p] /\ wrote'[p] = wrote[p] /\ past'[p].fault = past[p].fault
    BY <1>1, <1>2, OtherWire
  <2>2. KeepsOpen(p) /\ LosesNone(p)
    BY <1>2, WritersElsewhere
  <2>3. Sent(p, n, lab)'
    BY <1>2, <2>1, <2>2, SentSame DEF Faults
  <2>4. QED
    BY <2>3 DEF GoesOn
<1>3. ASSUME NEW m \in Messages
      PROVE  WholeFrame("data", TRUE, m, Size[m]) \in Seq(Item) /\ WholeFrame("data", TRUE, m, Size[m]) # <<>>
             /\ m \in Messages \cup {None}
  <2>1. Size[m] \in Nat /\ m \in Messages \cup {None} /\ "data" \in Ops
    BY ConnAssumption DEF Ops
  <2>2. QED
    BY <2>1, FrameTypes
<1>4. CASE Write(w)
  <2>1. program' = program /\ Mine(w).msg \in Messages /\ Leaves(w)
        /\ Puts(Owner[w], WholeFrame("data", TRUE, Mine(w).msg, Size[Mine(w).msg]), Mine(w).msg)
    BY <1>4, WriteDoes DEF Reads
  <2>2. QED
    BY <1>2, <1>3, <2>1 DEF Leaves
<1>5. CASE WriteFails(w)
  <2>1. program' = program /\ Mine(w).msg \in Messages /\ (Leaves(w) \/ MovesOn(w, "submit"))
        /\ Fails(Owner[w], WholeFrame("data", TRUE, Mine(w).msg, Size[Mine(w).msg])) /\ UNCHANGED wrote
    BY <1>5, WriteFailsDoes DEF Reads
  <2>2. QED
    BY <1>2, <1>3, <2>1 DEF Leaves, MovesOn
<1>6. CASE WriteControl(w)
  <2>1. program' = program /\ Mine(w).do \in Control /\ (Leaves(w) \/ MovesOn(w, "settle"))
        /\ Puts(Owner[w], ControlFrame(Mine(w).do), None)
    BY <1>6, WriteControlDoes DEF Reads
  <2>2. ControlFrame(Mine(w).do) \in Seq(Item) /\ ControlFrame(Mine(w).do) # <<>>
    BY <2>1, ControlItem
  <2>3. QED
    BY <1>2, <2>1, <2>2 DEF Leaves, MovesOn
<1>7. CASE ControlFails(w)
  <2>1. program' = program /\ Mine(w).do \in Control /\ MovesOn(w, "settle")
        /\ Fails(Owner[w], ControlFrame(Mine(w).do)) /\ UNCHANGED wrote
    BY <1>7, ControlFailsDoes DEF Reads
  <2>2. ControlFrame(Mine(w).do) \in Seq(Item) /\ ControlFrame(Mine(w).do) # <<>>
    BY <2>1, ControlItem
  <2>3. QED
    BY <1>2, <2>1, <2>2 DEF MovesOn
<1>8. CASE Flush(w)
  <2>1. PICK x \in Item : x = Flushed(w)[1]
    BY <1>8, FlushDoes, FlushedIs
  <2>2. <<x>> \in Seq(Item) /\ <<x>> # <<>> /\ Flushed(w) \in Seq(Item) /\ Flushed(w) # <<>>
    <3>1. Flushed(w) \in Seq(Item) /\ Flushed(w) # <<>>
      BY <1>8, FlushDoes, FlushedIs
    <3>2. <<x>> \in Seq(Item) /\ <<x>> # <<>>
      OBVIOUS
    <3>3. QED
      BY <3>1, <3>2
  <2>3. PICK last \in Messages \cup {None} : last = IF Final(w) THEN Mine(w).msg ELSE None
    <3>1. Mine(w).msg \in Messages
      BY <1>8, FlushDoes, FlushedIs
    <3>2. QED
      BY <3>1
  <2>4. program' = program /\ \/ Puts(Owner[w], <<x>>, None) /\ MovesOn(w, "extra")
                              \/ /\ Puts(Owner[w], Flushed(w), last)
                                 /\ Turns(w, IF Final(w) THEN "end" ELSE "flush", writer[w].call,
                                          Tail(writer[w].left), FALSE)
    BY <1>8, <2>1, <2>3, FlushDoes DEF Reads
  <2>5. QED
    BY <1>2, <2>2, <2>4 DEF MovesOn
<1>9. CASE FlushFails(w)
  <2>1. program' = program /\ MovesOn(w, "end") /\ Fails(Owner[w], Flushed(w)) /\ UNCHANGED wrote
    BY <1>9, FlushFailsDoes DEF Reads
  <2>2. Flushed(w) \in Seq(Item) /\ Flushed(w) # <<>>
    BY <1>9, FlushFailsDoes, FlushedIs
  <2>3. QED
    BY <1>2, <2>1, <2>2 DEF MovesOn
<1>10. QED
  BY <1>4, <1>5, <1>6, <1>7, <1>8, <1>9

\* An end that is not in the middle of a message of several frames.
LEMMA KeepsByTurn ==
    ASSUME TypeInv, program' = program, NEW w \in Writers, NEW at, NEW call, NEW left, NEW first,
           Turns(w, at, call, left, first), at # "flush" \/ first, NEW p
    PROVE  KeepsOpen(p) /\ (writer[w].at # "flush" => LosesNone(p))
BY WritersKeep

LEMMA WriterSent ==
    ASSUME TypeInv, Orderly, NEW w \in Writers, WriterOK(w), CallStep(w) \/ CallBegins(w),
           NEW p \in Sides, NEW n, NEW lab, Sent(p, n, lab)
    PROVE  GoesOn(p, n, lab)
<1>1. Owner[w] \in Sides /\ writer[w].first \in BOOLEAN /\ WriterFits(w)
  BY WriterPlaces
<1>2. CASE Quiet(w)
  <2>1. program' = program /\ UNCHANGED <<wire, wrote, past>> /\ writer[w].at # "flush"
    BY <1>2, QuietDoes DEF Reads
  <2>2. KeepsOpen(p) /\ LosesNone(p)
    <3>1. \E at, call, left, first : Turns(w, at, call, left, first) /\ (at # "flush" \/ first)
      <4>1. \/ Leaves(w) \/ MovesOn(w, "write") \/ MovesOn(w, "enqueue") \/ MovesOn(w, "wait")
            \/ /\ writer[w].at = "idle"
               /\ Turns(w, "flush", writer[w].call, Flushes(Owner[w], Size[Mine(w).msg]), writer[w].first)
        BY <1>2, QuietDoes
      <4>2. writer[w].at = "idle" => writer[w].first
        BY <1>1 DEF WriterFits
      <4>3. CASE Leaves(w)
        BY <4>3 DEF Leaves
      <4>4. CASE MovesOn(w, "write") \/ MovesOn(w, "enqueue") \/ MovesOn(w, "wait")
        BY <4>4 DEF MovesOn
      <4>5. QED
        BY <4>1, <4>2, <4>3, <4>4
    <3>2. QED
      BY <2>1, <3>1, KeepsByTurn
  <2>3. Sent(p, n, lab)'
    BY <2>1, <2>2, SentSame DEF Faults
  <2>4. QED
    BY <2>3 DEF GoesOn
<1>3. CASE Owner[w] # p /\ ~Quiet(w)
  <2>1. ~FlushExtra(w)
    BY DEF FlushExtra, At, WriterOK
  <2>2. Write(w) \/ WriteFails(w) \/ WriteControl(w) \/ ControlFails(w) \/ Flush(w) \/ FlushFails(w)
    BY <1>3, <2>1 DEF CallStep, CallBegins, Quiet
  <2>3. QED
    BY <1>3, <2>2, WriterElsewhere
<1>4. CASE Owner[w] = p /\ Write(w)
  <2>1. PICK m \in Messages : m = Mine(w).msg
    BY <1>4, WriteDoes
  <2>2. /\ program' = program /\ writer[w].at = "write" /\ writer[w].call <= Len(program.calls[w])
        /\ Mine(w).do \in Data /\ Puts(p, WholeFrame("data", TRUE, m, Size[m]), m) /\ Leaves(w)
    BY <1>4, <2>1, WriteDoes DEF Reads
  <2>3. m \in Said(p)
    BY <1>4, <2>1, <2>2, WriterPlaces
  <2>4. KeepsOpen(p)
    BY <2>2, KeepsByTurn DEF Leaves
  <2>5. \A v \in Writers : ~Open(p, v)
    <3> SUFFICES ASSUME NEW v \in Writers, Open(p, v)
                 PROVE  FALSE
      OBVIOUS
    <3>1. v = w
      BY <1>4, <2>2, OnlyOneOpen
    <3>2. QED
      BY <2>2, <3>1 DEF Open
  <2>6. QED
    BY <2>2, <2>3, <2>4, <2>5, WholeMessageSent DEF GoesOn
<1>5. CASE Owner[w] = p /\ WriteFails(w)
  <2>1. PICK m \in Messages : m = Mine(w).msg
    BY <1>5, WriteFailsDoes
  <2>2. /\ program' = program /\ writer[w].at = "write" /\ writer[w].call <= Len(program.calls[w])
        /\ Mine(w).do \in Data /\ Fails(p, WholeFrame("data", TRUE, m, Size[m])) /\ UNCHANGED wrote
        /\ (Leaves(w) \/ MovesOn(w, "submit"))
    BY <1>5, <2>1, WriteFailsDoes DEF Reads
  <2>3. m \in Said(p)
    BY <1>5, <2>1, <2>2, WriterPlaces
  <2>4. KeepsOpen(p)
    BY <2>2, KeepsByTurn DEF Leaves, MovesOn
  <2>5. QED
    BY <2>2, <2>3, <2>4, WholeMessageFails
<1>6. CASE Owner[w] = p /\ WriteControl(w)
  <2>1. PICK op \in Control : op = Mine(w).do
    BY <1>6, WriteControlDoes
  <2>2. /\ program' = program /\ writer[w].at = "idle" /\ Puts(p, ControlFrame(op), None)
        /\ (Leaves(w) \/ MovesOn(w, "settle"))
    BY <1>6, <2>1, WriteControlDoes DEF Reads
  <2>3. KeepsOpen(p) /\ LosesNone(p)
    BY <2>2, KeepsByTurn DEF Leaves, MovesOn
  <2>4. QED
    BY <2>2, <2>3, ControlItemSent
<1>7. CASE Owner[w] = p /\ ControlFails(w)
  <2>1. PICK op \in Control : op = Mine(w).do
    BY <1>7, ControlFailsDoes
  <2>2. /\ program' = program /\ UNCHANGED wrote /\ Fails(p, ControlFrame(op)) /\ MovesOn(w, "settle")
    BY <1>7, <2>1, ControlFailsDoes DEF Reads
  <2>3. KeepsOpen(p)
    BY <2>2, KeepsByTurn DEF MovesOn
  <2>4. QED
    BY <2>2, <2>3, ControlItemFails
<1>8. CASE Owner[w] = p /\ Flush(w)
  <2>1. /\ program' = program /\ writer[w].at = "flush" /\ writer[w].call <= Len(program.calls[w])
        /\ Mine(w).do = "NextWriter"
    BY <1>8, FlushDoes, FlushedIs DEF Reads
  <2>2. ~InTwoWrites(w)
    <3>1. writer[w].call \in DOMAIN program.calls[w]
      BY <2>1, WriterPlaces
    <3>2. QED
      BY <2>1, <3>1 DEF InTwoWrites, Orderly, Mine
  <2>3. /\ Puts(Owner[w], Flushed(w), IF Final(w) THEN Mine(w).msg ELSE None)
        /\ Turns(w, IF Final(w) THEN "end" ELSE "flush", writer[w].call, Tail(writer[w].left), FALSE)
    BY <1>8, <2>2, FlushDoes
  <2>4. p = Owner[w]
    BY <1>8
  <2>5. WritesFrame(w, p)
    BY <2>1, <2>3, <2>4 DEF WritesFrame
  <2>6. QED
    BY <2>1, <2>5, FlushSent DEF GoesOn
<1>9. CASE Owner[w] = p /\ FlushFails(w)
  <2>1. /\ program' = program /\ writer[w].at = "flush" /\ writer[w].call <= Len(program.calls[w])
        /\ MovesOn(w, "end") /\ Fails(Owner[w], Flushed(w)) /\ UNCHANGED wrote
    BY <1>9, FlushFailsDoes DEF Reads
  <2>2. KeepsOpen(p)
    BY <2>1, KeepsByTurn DEF MovesOn
  <2>3. p = Owner[w]
    BY <1>9
  <2>4. QED
    BY <2>1, <2>2, <2>3, FlushFailsSent
<1>10. ~FlushExtra(w)
  BY DEF FlushExtra, At, WriterOK
<1>11. QED
  BY <1>2, <1>3, <1>4, <1>5, <1>6, <1>7, <1>8, <1>9, <1>10 DEF CallStep, CallBegins, Quiet

\* An answer of the pool moves nobody who is in a message.
LEMMA AnswerKeeps ==
    ASSUME TypeInv, program' = program, AnswerDone, NEW p
    PROVE  KeepsOpen(p) /\ LosesNone(p)
<1>1. CASE UNCHANGED writer
  BY <1>1, WritersSame
<1>2. ASSUME NEW w \in Writers, writer[w].at = "wait",
             Turns(w, "idle", writer[w].call + 1, writer[w].left, writer[w].first)
      PROVE  KeepsOpen(p) /\ LosesNone(p)
  BY <1>2, KeepsByTurn
<1>3. QED
  BY <1>1, <1>2 DEF AnswerDone

LEMMA PoolSent ==
    ASSUME TypeInv, PoolOK, PoolQuiet \/ \E k \in Workers : WorkerWrites(k) \/ WorkerFails(k),
           NEW p \in Sides, NEW n, NEW lab, Sent(p, n, lab)
    PROVE  GoesOn(p, n, lab)
<1>1. CASE PoolQuiet
  <2>1. program' = program /\ UNCHANGED <<wire, writer, wrote, past>>
    BY <1>1, PoolQuietDoes DEF Reads
  <2>2. KeepsOpen(p) /\ LosesNone(p)
    BY <2>1, WritersSame
  <2>3. Sent(p, n, lab)'
    BY <2>1, <2>2, SentSame DEF Faults
  <2>4. QED
    BY <2>3 DEF GoesOn
<1>2. ASSUME NEW t \in Task, program' = program, AnswerDone, Tried(t),
             \/ Puts(Owner[t.by], WholeFrame("data", TRUE, t.msg, Size[t.msg]), t.msg)
             \/ Fails(Owner[t.by], WholeFrame("data", TRUE, t.msg, Size[t.msg])) /\ UNCHANGED wrote
      PROVE  GoesOn(p, n, lab)
  <2>1. PICK q \in Sides, m \in Messages : q = Owner[t.by] /\ m = t.msg
    BY ConnAssumption DEF Task
  <2>2. \/ Puts(q, WholeFrame("data", TRUE, m, Size[m]), m)
        \/ Fails(q, WholeFrame("data", TRUE, m, Size[m])) /\ UNCHANGED wrote
    BY <1>2, <2>1
  <2>3. past[q].fault # "no" /\ m \in Said(q)
    BY <1>2, <2>1 DEF Tried
  <2>4. KeepsOpen(p) /\ LosesNone(p)
    BY <1>2, AnswerKeeps
  <2>5. CASE q # p
    <3>1. Size[m] \in Nat /\ m \in Messages \cup {None} /\ "data" \in Ops
      BY ConnAssumption DEF Ops
    <3>2. WholeFrame("data", TRUE, m, Size[m]) \in Seq(Item) /\ WholeFrame("data", TRUE, m, Size[m]) # <<>>
      BY <3>1, FrameTypes
    <3>3. wire'[p] = wire[p] /\ wrote'[p] = wrote[p] /\ past'[p].fault = past[p].fault
      BY <2>2, <2>5, <3>1, <3>2, OtherWire
    <3>4. Sent(p, n, lab)'
      BY <1>2, <2>4, <3>3, SentSame DEF Faults
    <3>5. QED
      BY <3>4 DEF GoesOn
  <2>6. CASE q = p /\ Puts(q, WholeFrame("data", TRUE, m, Size[m]), m)
    <3>1. m \in Said(p) /\ Puts(p, WholeFrame("data", TRUE, m, Size[m]), m) /\ past[p].fault # "no"
      BY <2>3, <2>6
    <3>2. QED
      BY <1>2, <2>4, <3>1, WholeMessageSent DEF GoesOn
  <2>7. CASE q = p /\ Fails(q, WholeFrame("data", TRUE, m, Size[m])) /\ UNCHANGED wrote
    <3>1. m \in Said(p) /\ Fails(p, WholeFrame("data", TRUE, m, Size[m])) /\ UNCHANGED wrote
      BY <2>3, <2>7
    <3>2. QED
      BY <1>2, <2>4, <3>1, WholeMessageFails
  <2>8. QED
    BY <2>2, <2>5, <2>6, <2>7
<1>3. ASSUME NEW k \in Workers, WorkerWrites(k) \/ WorkerFails(k)
      PROVE  GoesOn(p, n, lab)
  <2>1. PICK t \in Task : t = worker[k].task /\ worker[k].at = "work"
    BY <1>3, WorkerWritesDoes, WorkerFailsDoes
  <2>2. /\ program' = program /\ AnswerDone
        /\ \/ Puts(Owner[t.by], WholeFrame("data", TRUE, t.msg, Size[t.msg]), t.msg)
           \/ Fails(Owner[t.by], WholeFrame("data", TRUE, t.msg, Size[t.msg])) /\ UNCHANGED wrote
    BY <1>3, <2>1, WorkerWritesDoes, WorkerFailsDoes DEF Reads
  <2>3. Tried(t)
    BY <2>1 DEF PoolOK
  <2>4. QED
    BY <1>2, <2>2, <2>3
<1>4. QED
  BY <1>1, <1>3

\* What a reader writes: the replies of its handlers.
LEMMA ReplySent ==
    ASSUME TypeInv, NEW s \in Sides, Reply(s) \/ ReplyFails(s) \/ ReplySettled(s),
           NEW p \in Sides, NEW n, NEW lab, Sent(p, n, lab)
    PROVE  GoesOn(p, n, lab)
<1>1. program' = program /\ writer' = writer
  BY ReplyDoes, ReplyFailsDoes, ReplySettledDoes DEF Stays
<1>2. KeepsOpen(p) /\ LosesNone(p)
  BY <1>1, WritersSame
<1>3. CASE ReplySettled(s)
  <2>1. wire' = wire /\ wrote' = wrote /\ past' = past
    BY <1>3, ReplySettledDoes
  <2>2. Sent(p, n, lab)'
    BY <1>1, <1>2, <2>1, SentSame DEF Faults
  <2>3. QED
    BY <2>2 DEF GoesOn
<1>4. ASSUME NEW op \in Control,
             Puts(s, ControlFrame(op), None) \/ (Fails(s, ControlFrame(op)) /\ UNCHANGED wrote)
      PROVE  GoesOn(p, n, lab)
  <2>1. CASE p = s
    BY <1>1, <1>2, <1>4, <2>1, ControlItemSent, ControlItemFails
  <2>2. CASE p # s
    <3>1. ControlFrame(op) \in Seq(Item) /\ ControlFrame(op) # <<>> /\ None \in Messages \cup {None}
      BY ControlItem
    <3>2. wire'[p] = wire[p] /\ wrote'[p] = wrote[p] /\ past'[p].fault = past[p].fault
      BY <1>4, <2>2, <3>1, OtherWire
    <3>3. Sent(p, n, lab)'
      BY <1>1, <1>2, <3>2, SentSame DEF Faults
    <3>4. QED
      BY <3>3 DEF GoesOn
  <2>3. QED
    BY <2>1, <2>2
<1>5. CASE Reply(s) \/ ReplyFails(s)
  <2>1. PICK op \in Control : op = reader[s].op
    BY <1>5, ReplyDoes, ReplyFailsDoes
  <2>2. Puts(s, ControlFrame(op), None) \/ (Fails(s, ControlFrame(op)) /\ UNCHANGED wrote)
    BY <1>5, <2>1, ReplyDoes, ReplyFailsDoes
  <2>3. QED
    BY <1>4, <2>2
<1>6. QED
  BY <1>3, <1>5

-----------------------------------------------------------------------------
(* What a reader understands, where it reads nothing.                        *)

LEMMA HypothesesSame ==
    ASSUME program' = program, NEW s
    PROVE  /\ InOneFrame(s)' = InOneFrame(s) /\ Undisturbed(s)' = Undisturbed(s)
           /\ CountsOneMessage(s)' = CountsOneMessage(s)
           /\ ReadsToTheEnd(s)' = ReadsToTheEnd(s) /\ FitsOneRead(s)' = FitsOneRead(s)
BY DEF InOneFrame, Undisturbed, Says, CountsOneMessage, ReadsToTheEnd, FitsOneRead, Said, Peer

\* A reader that goes on to a place of the same kind.
SamePlace(s) ==
    /\ Live(s)' => Live(s)
    /\ InMessage(s)' => InMessage(s)
    /\ BetweenMessages(s)' => BetweenMessages(s)
    /\ Is(s, "advance")' => Is(s, "advance")
    /\ reader'[s].msg = reader[s].msg /\ reader'[s].got = reader[s].got

LEMMA AtReaderFollows ==
    ASSUME program' = program, NEW s, SamePlace(s), frame'[s] = frame[s], delivered'[s] = delivered[s],
           NEW l, AtReader(s, l)
    PROVE  AtReader(s, l)'
BY HypothesesSame DEF AtReader, SamePlace

LEMMA PlaceKept ==
    ASSUME NEW s, reader'[s] = reader[s]
    PROVE  SamePlace(s)
BY DEF SamePlace, Live, InMessage, BetweenMessages, Is

\* The wire goes on, and the reader is where it was.
LEMMA UnderstoodOn ==
    ASSUME program' = program, NEW p \in Sides, NEW s, s = Peer(p), SamePlace(s),
           frame'[s] = frame[s], delivered'[s] = delivered[s],
           \A n, lab : Sent(p, n, lab) => GoesOn(p, n, lab), Understood(p)
    PROVE  Understood(p)'
<1> SUFFICES ASSUME Live(s)'
             PROVE  \E n, lab : Sent(p, n, lab)' /\ AtReader(s, lab[0])'
  BY DEF Understood, Peer
<1>1. Live(s)
  BY DEF SamePlace
<1>2. PICK n, lab : Sent(p, n, lab) /\ AtReader(s, lab[0])
  BY <1>1 DEF Understood
<1>3. PICK n2, far : Sent(p, n2, far)' /\ far[0] = lab[0]
  BY <1>2 DEF GoesOn
<1>4. PICK l : l = lab[0]
  OBVIOUS
<1>5. AtReader(s, l)'
  BY <1>2, <1>4, AtReaderFollows
<1>6. AtReader(s, far[0])'
  BY <1>3, <1>4, <1>5 DEF AtReader
<1>7. QED
  BY <1>3, <1>6

LEMMA WriterReads ==
    ASSUME TypeInv, NEW w \in Writers, CallStep(w) \/ CallBegins(w)
    PROVE  Reads
<1>1. CASE Quiet(w)
  BY <1>1, QuietDoes
<1>2. CASE Write(w) \/ WriteFails(w) \/ WriteControl(w) \/ ControlFails(w)
  BY <1>2, WriteDoes, WriteFailsDoes, WriteControlDoes, ControlFailsDoes
<1>3. CASE Flush(w) \/ FlushFails(w) \/ FlushExtra(w)
  BY <1>3, FlushDoes, FlushFailsDoes, FlushExtraDoes
<1>4. QED
  BY <1>1, <1>2, <1>3 DEF CallStep, CallBegins, Quiet

LEMMA WriterUnderstood ==
    ASSUME TypeInv, Orderly, NEW w \in Writers, WriterOK(w), CallStep(w) \/ CallBegins(w),
           NEW p \in Sides, Understood(p)
    PROVE  Understood(p)'
<1>1. program' = program /\ frame' = frame /\ reader' = reader /\ delivered' = delivered
  BY WriterReads DEF Reads
<1>2. PICK s : s = Peer(p)
  OBVIOUS
<1>3. SamePlace(s) /\ frame'[s] = frame[s] /\ delivered'[s] = delivered[s]
  BY <1>1, PlaceKept
<1>4. \A n, lab : Sent(p, n, lab) => GoesOn(p, n, lab)
  BY WriterSent
<1>5. QED
  BY <1>1, <1>2, <1>3, <1>4, UnderstoodOn

LEMMA PoolReads ==
    ASSUME TypeInv, PoolQuiet \/ \E k \in Workers : WorkerWrites(k) \/ WorkerFails(k)
    PROVE  Reads
BY PoolQuietDoes, WorkerWritesDoes, WorkerFailsDoes

LEMMA PoolUnderstood ==
    ASSUME TypeInv, PoolOK, PoolQuiet \/ \E k \in Workers : WorkerWrites(k) \/ WorkerFails(k),
           NEW p \in Sides, Understood(p)
    PROVE  Understood(p)'
<1>1. program' = program /\ frame' = frame /\ reader' = reader /\ delivered' = delivered
  BY PoolReads DEF Reads
<1>2. PICK s : s = Peer(p)
  OBVIOUS
<1>3. SamePlace(s) /\ frame'[s] = frame[s] /\ delivered'[s] = delivered[s]
  BY <1>1, PlaceKept
<1>4. \A n, lab : Sent(p, n, lab) => GoesOn(p, n, lab)
  BY PoolSent
<1>5. QED
  BY <1>1, <1>2, <1>3, <1>4, UnderstoodOn

LEMMA ReplyPlace ==
    ASSUME TypeInv, NEW s \in Sides, Reply(s) \/ ReplyFails(s) \/ ReplySettled(s)
    PROVE  SamePlace(s)
<1>1. reader[s].at \in {"reply", "settle"} /\ (Steps(s, "settle") \/ Resumed(s))
  BY ReplyDoes, ReplyFailsDoes, ReplySettledDoes
<1>2. "advance" \notin Ends /\ "loop" \notin Ends
  BY DEF Ends
<1>3. CASE Steps(s, "settle")
  BY <1>1, <1>3 DEF Steps, Moves, SamePlace, Live, InMessage, BetweenMessages, Is
<1>4. CASE reader[s].after \in Ends /\ Ended(s, reader[s].after)
  BY <1>1, <1>2, <1>4 DEF Ended, Steps, Moves, SamePlace, Live, InMessage, BetweenMessages, Is
<1>5. CASE reader[s].after \in {"advance", "loop"} /\ Steps(s, reader[s].after)
  BY <1>1, <1>2, <1>5 DEF Steps, Moves, SamePlace, Live, InMessage, BetweenMessages, Is
<1>6. QED
  BY <1>1, <1>3, <1>4, <1>5 DEF Resumed

LEMMA ReplyUnderstood ==
    ASSUME TypeInv, NEW s \in Sides, Reply(s) \/ ReplyFails(s) \/ ReplySettled(s),
           NEW p \in Sides, Understood(p)
    PROVE  Understood(p)'
<1>1. program' = program /\ frame' = frame /\ delivered' = delivered
  BY ReplyDoes, ReplyFailsDoes, ReplySettledDoes DEF Stays
<1>2. PICK q \in Sides : q = Peer(p)
  BY Peers
<1>3. SamePlace(q)
  <2>1. CASE q = s
    BY <2>1, ReplyPlace
  <2>2. CASE q # s
    <3>1. Steps(s, "settle") \/ Resumed(s)
      BY ReplyDoes, ReplyFailsDoes, ReplySettledDoes
    <3>2. reader'[q] = reader[q]
      BY <2>2, <3>1 DEF Steps, Moves, Resumed, Ended
    <3>3. QED
      BY <3>2, PlaceKept
  <2>3. QED
    BY <2>1, <2>2
<1>4. \A n, lab : Sent(p, n, lab) => GoesOn(p, n, lab)
  BY ReplySent
<1>5. frame'[q] = frame[q] /\ delivered'[q] = delivered[q]
  BY <1>1
<1>6. QED
  BY <1>1, <1>2, <1>3, <1>4, <1>5, UnderstoodOn

-----------------------------------------------------------------------------
(* What a reader understands, where it reads.                                *)

\* The head of the wire is read, which is not where the walk ends.
LEMMA TakenSent ==
    ASSUME TypeInv, NEW s \in Sides, NEW p, p = Peer(s), Taken(s), Stays, UNCHANGED <<wrote, past>>,
           NEW n, NEW lab, Sent(p, n, lab), ~Blocks(lab[0], In(s)[1])
    PROVE  /\ lab[0] \in Label /\ Sound(p, wrote[p], lab[0]) /\ CanTake(lab[0], In(s)[1])
           /\ \E n2, far : /\ Sent(p, n2, far)' /\ far[0] = After(lab[0], In(s)[1])
                           /\ far[0] \in Label /\ Sound(p, wrote[p], far[0])
<1>1. PICK ms \in Seq(Messages), ws \in Seq(Item) : ms = wrote[p] /\ ws = wire[p] /\ ws = In(s)
  BY Types, Peers DEF TypeInv, In
<1>2. program' = program /\ wrote' = wrote /\ past' = past /\ KeepsOpen(p) /\ LosesNone(p)
  BY WritersSame DEF Stays
<1>3. ws # <<>> /\ wire'[p] = Tail(ws)
  BY <1>1 DEF Taken
<1>4. Walk(p, ms, ws, n, lab) /\ n \in Nat
  <2>1. Walk(p, ms, ws, n, lab)
    BY <1>1 DEF Sent
  <2>2. n \in 0..Len(ws)
    BY <2>1 DEF Walk
  <2>3. QED
    BY <2>1, <2>2
<1>5. n > 0
  <2>1. CASE n = 0
    <3>1. Len(ws) # 0
      BY <1>3
    <3>2. Blocks(lab[0], ws[1])
      BY <1>1, <2>1, <3>1 DEF Sent, Outcome
    <3>3. QED
      BY <1>1, <3>2
  <2>2. QED
    BY <1>4, <2>1
<1>6. /\ CanTake(lab[0], ws[1]) /\ lab[1] = After(lab[0], ws[1])
      /\ lab[0] \in Label /\ lab[1] \in Label /\ Sound(p, ms, lab[0]) /\ Sound(p, ms, lab[1])
      /\ Len(Tail(ws)) = Len(ws) - 1 /\ n <= Len(ws)
      /\ n < Len(ws) => Tail(ws)[n] = ws[n + 1]
  BY <1>4, <1>5, WalkDrops
<1>7. PICK rest \in [0..(n - 1) -> Label] : /\ Walk(p, ms, Tail(ws), n - 1, rest)
                                            /\ rest[0] = lab[1] /\ rest[n - 1] = lab[n]
  BY <1>4, <1>5, WalkDrops
<1>8. PICK us \in Seq(Item), m \in Nat : us = Tail(ws) /\ m = n - 1 /\ us = wire'[p] /\ m + 1 = n
  <2>1. Tail(ws) \in Seq(Item)
    BY <1>3
  <2>2. n - 1 \in Nat /\ (n - 1) + 1 = n
    BY <1>4, <1>5
  <2>3. QED
    BY <1>3, <2>1, <2>2
<1>9. Walk(p, wrote[p], wire[p], m, rest)'
  <2>1. Walk(p, ms, us, m, rest)
    BY <1>7, <1>8
  <2>2. ms = wrote'[p]
    BY <1>1, <1>2
  <2>3. us = wire'[p]
    BY <1>8
  <2>4. QED
    BY <1>2, <2>1, <2>2, <2>3, WalkPrimed
<1>10. Outcome(p, m, rest)'
  <2>1. CASE n = Len(ws)
    <3>1. AtWriters(p, lab[n])
      BY <1>1, <2>1 DEF Sent, Outcome
    <3>2. PICK l : l = lab[n]
      OBVIOUS
    <3>3. AtWriters(p, l)'
      BY <1>2, <3>1, <3>2, EndKept DEF Faults
    <3>4. rest[m] = l /\ m = Len(us)
      BY <1>4, <1>6, <1>7, <1>8, <2>1, <3>2
    <3>5. AtWriters(p, rest[m])'
      BY <3>3, <3>4 DEF AtWriters
    <3>6. QED
      BY <1>8, <3>4, <3>5 DEF Outcome
  <2>2. CASE n # Len(ws)
    <3>1. /\ Blocks(lab[n], ws[n + 1]) /\ past[p].fault # "no"
          /\ past[p].fault # "torn" => lab[n].rem = 0 /\ OutOfPlace(lab[n], ws[n + 1])
      BY <1>1, <2>2 DEF Sent, Outcome
    <3>2. n < Len(ws) /\ Len(ws) \in Nat
      BY <1>4, <1>6, <2>2
    <3>3. us[m + 1] = ws[n + 1] /\ m # Len(us) /\ rest[m] = lab[n]
      BY <1>4, <1>6, <1>7, <1>8, <3>2
    <3>4. QED
      BY <1>2, <1>8, <3>1, <3>3 DEF Outcome, Blocks, OutOfPlace
  <2>3. QED
    BY <2>1, <2>2
<1>11. Sent(p, m, rest)'
  BY <1>9, <1>10 DEF Sent
<1>12. rest[0] = After(lab[0], ws[1]) /\ rest[0] \in Label /\ Sound(p, ms, rest[0])
  BY <1>6, <1>7
<1>13. QED
  BY <1>1, <1>6, <1>11, <1>12

\* Some of the payload at the head of the wire is read.
LEMMA ShortenedSent ==
    ASSUME TypeInv, NEW s \in Sides, NEW p, p = Peer(s), Stays, UNCHANGED <<wrote, past>>,
           NEW k \in Nat, Shortened(s, k), In(s)[1] \in Item, In(s)[1].op = "payload", k < In(s)[1].len,
           NEW n, NEW lab, Sent(p, n, lab)
    PROVE  /\ lab[0] \in Label /\ Sound(p, wrote[p], lab[0]) /\ CanTake(lab[0], In(s)[1])
           /\ \E n2, far : /\ Sent(p, n2, far)' /\ far[0] \in Label
                           /\ far[0].rem = lab[0].rem - k /\ far[0].fin = lab[0].fin
                           /\ far[0].of = lab[0].of /\ far[0].units = lab[0].units
                           /\ far[0].done = lab[0].done /\ far[0].rem > 0
<1>1. PICK ms \in Seq(Messages), ws \in Seq(Item) : ms = wrote[p] /\ ws = wire[p] /\ ws = In(s)
  BY Types, Peers DEF TypeInv, In
<1>2. program' = program /\ wrote' = wrote /\ past' = past /\ KeepsOpen(p) /\ LosesNone(p)
  BY WritersSame DEF Stays
<1>3. p \in Sides /\ wire' \in [Sides -> Seq(Item)]
  BY Peers DEF Shortened
<1>4. PICK us \in Seq(Item) : us = wire'[p]
  BY <1>3
<1>5. /\ ws # <<>> /\ Len(us) = Len(ws) /\ \A i \in 2..Len(ws) : us[i] = ws[i]
      /\ us[1].op = "payload" /\ us[1].len = ws[1].len - k
      /\ ws[1].op = "payload" /\ k < ws[1].len
  BY <1>1, <1>4 DEF Shortened
<1>6. Walk(p, ms, ws, n, lab) /\ n \in Nat
  <2>1. Walk(p, ms, ws, n, lab)
    BY <1>1 DEF Sent
  <2>2. n \in 0..Len(ws)
    BY <2>1 DEF Walk
  <2>3. QED
    BY <2>1, <2>2
<1>7. n > 0
  <2>1. CASE n = 0
    <3>1. Len(ws) # 0
      BY <1>5
    <3>2. Blocks(lab[0], ws[1])
      BY <1>1, <2>1, <3>1 DEF Sent, Outcome
    <3>3. QED
      BY <1>5, <3>2 DEF Blocks
  <2>2. QED
    BY <1>6, <2>1
<1>8. lab[0] \in Label /\ Sound(p, ms, lab[0]) /\ CanTake(lab[0], ws[1]) /\ n <= Len(ws)
  BY <1>6, <1>7, WalkDrops
<1>9. PICK less \in [0..n -> Label] :
              /\ Walk(p, ms, us, n, less) /\ less[n] = lab[n]
              /\ less[0].rem = lab[0].rem - k /\ less[0].fin = lab[0].fin /\ less[0].of = lab[0].of
              /\ less[0].units = lab[0].units /\ less[0].done = lab[0].done
              /\ less[0].rem > 0
  <2>1. Shorter(us, ws, k)
    BY <1>5 DEF Shorter
  <2>2. QED
    BY <1>6, <1>7, <2>1, WalkShrinks
<1>10. Walk(p, wrote[p], wire[p], n, less)'
  <2>1. ms = wrote'[p]
    BY <1>1, <1>2
  <2>2. Walk(p, ms, us, n, less)
    BY <1>9
  <2>3. QED
    BY <1>2, <1>4, <2>1, <2>2, WalkPrimed
<1>11. Outcome(p, n, less)'
  <2>1. CASE n = Len(ws)
    <3>1. AtWriters(p, lab[n])
      BY <1>1, <2>1 DEF Sent, Outcome
    <3>2. PICK l : l = lab[n]
      OBVIOUS
    <3>3. AtWriters(p, l)'
      BY <1>2, <3>1, <3>2, EndKept DEF Faults
    <3>4. less[n] = l /\ n = Len(us)
      BY <1>5, <1>9, <2>1, <3>2
    <3>5. AtWriters(p, less[n])'
      BY <3>3, <3>4 DEF AtWriters
    <3>6. QED
      BY <1>4, <3>4, <3>5 DEF Outcome
  <2>2. CASE n # Len(ws)
    <3>1. /\ Blocks(lab[n], ws[n + 1]) /\ past[p].fault # "no"
          /\ past[p].fault # "torn" => lab[n].rem = 0 /\ OutOfPlace(lab[n], ws[n + 1])
      BY <1>1, <2>2 DEF Sent, Outcome
    <3>2. n + 1 \in 2..Len(ws)
      BY <1>6, <1>7, <1>8, <2>2
    <3>3. us[n + 1] = ws[n + 1] /\ n # Len(us)
      BY <1>5, <2>2, <3>2
    <3>4. QED
      BY <1>2, <1>4, <1>9, <3>1, <3>3 DEF Outcome, Blocks, OutOfPlace
  <2>3. QED
    BY <2>1, <2>2
<1>12. Sent(p, n, less)'
  BY <1>10, <1>11 DEF Sent
<1>13. less[0] \in Label
  BY <1>6, <1>9
<1>14. QED
  BY <1>1, <1>8, <1>9, <1>12, <1>13

\* Nothing is read.
LEMMA NothingTaken ==
    ASSUME TypeInv, program' = program, UNCHANGED <<wire, writer, wrote, past>>,
           NEW p, NEW n, NEW lab, Sent(p, n, lab)
    PROVE  GoesOn(p, n, lab)
<1>1. KeepsOpen(p) /\ LosesNone(p)
  BY WritersSame
<1>2. Sent(p, n, lab)'
  BY <1>1, SentSame DEF Faults
<1>3. QED
  BY <1>2 DEF GoesOn

\* The steps of a reader that write nothing.
Reading(s) == NextReader(s) \/ Skip(s) \/ TakeData(s) \/ Refuse(s) \/ TakeControl(s) \/ Read(s)
              \/ TakePiece(s) \/ EndOfMessage(s) \/ Garbled(s) \/ EndOfFile(s)

\* They leave the other direction alone.
LEMMA ReadingElsewhere ==
    ASSUME TypeInv, NEW s \in Sides, Reading(s), Understood(s)
    PROVE  Understood(s)'
<1>1. PICK q \in Sides : q = Peer(s) /\ q # s
  BY Peers
<1>2. /\ program' = program /\ writer' = writer /\ wrote' = wrote /\ past' = past
      /\ wire'[s] = wire[s] /\ reader'[q] = reader[q] /\ frame'[q] = frame[q]
      /\ delivered'[q] = delivered[q]
  <2>1. CASE NextReader(s)
    BY <1>1, <2>1, NextReaderDoes DEF Stays, Steps, Moves, Framed
  <2>2. CASE Skip(s)
    BY <1>1, <2>2, SkipDoes DEF Stays, Framed, Taken, Shortened
  <2>3. CASE TakeData(s)
    <3>1. PICK h : h = In(s)[1]
      OBVIOUS
    <3>2. /\ Stays /\ wrote' = wrote /\ past' = past /\ delivered' = delivered /\ Taken(s)
          /\ Framed(s, h.len, h.fin, frame[s].length + h.len)
      BY <2>3, <3>1, TakeDataDoes
    <3>3. reader'[q] = reader[q]
      BY <1>1, <2>3, TakeDataDoes DEF Moves
    <3>4. QED
      BY <1>1, <3>2, <3>3 DEF Stays, Framed, Taken
  <2>4. CASE Refuse(s) \/ TakeControl(s)
    BY <1>1, <2>4, RefuseDoes, TakeControlDoes DEF Stays, Taken, Moves
  <2>5. CASE Read(s)
    BY <1>1, <2>5, ReadDoes DEF Stays, Steps, Moves, Gains
  <2>6. CASE TakePiece(s)
    <3>1. Stays /\ wrote' = wrote /\ past' = past
      BY <2>6, TakePieceDoes
    <3>2. PICK n \in Nat :
                 /\ Framed(s, frame[s].rem - n, frame[s].final, frame[s].length)
                 /\ n = In(s)[1].len => Taken(s)
                 /\ n # In(s)[1].len => Shortened(s, n)
                 /\ IF program.reads[s] = "ReadMessage"
                    THEN Gains(s, reader[s].msg, n) /\ Steps(s, "next")
                    ELSE /\ UNCHANGED delivered
                         /\ Moves(s, "Read", reader[s].msg, reader[s].got + n,
                                  reader[s].op, reader[s].after)
      BY <2>6, TakePieceDoes
    <3>3. frame'[q] = frame[q] /\ wire'[s] = wire[s]
      BY <1>1, <3>2 DEF Framed, Taken, Shortened
    <3>4. reader'[q] = reader[q] /\ delivered'[q] = delivered[q]
      BY <1>1, <3>2 DEF Gains, Steps, Moves
    <3>5. QED
      BY <3>1, <3>3, <3>4 DEF Stays
  <2>7. CASE EndOfMessage(s)
    BY <1>1, <2>7, EndOfMessageDoes DEF Stays, Steps, Moves, Gains
  <2>8. CASE Garbled(s) \/ EndOfFile(s)
    BY <1>1, <2>8, GarbledDoes, EndOfFileDoes DEF Stays, Steps, Moves, Ended
  <2>9. QED
    BY <2>1, <2>2, <2>3, <2>4, <2>5, <2>6, <2>7, <2>8 DEF Reading
<1>3. KeepsOpen(s) /\ LosesNone(s) /\ SamePlace(q)
  BY <1>2, WritersSame, PlaceKept
<1>4. ASSUME NEW n, NEW lab, Sent(s, n, lab)
      PROVE  GoesOn(s, n, lab)
  <2>1. Sent(s, n, lab)'
    BY <1>2, <1>3, <1>4, SentSame DEF Faults
  <2>2. QED
    BY <2>1 DEF GoesOn
<1>5. QED
  BY <1>1, <1>2, <1>3, <1>4, UnderstoodOn

\* Where a reader understands the wire.
LEMMA Understands ==
    ASSUME NEW s \in Sides, NEW p, p = Peer(s), Understood(p), Live(s)
    PROVE  \E n, lab : Sent(p, n, lab) /\ AtReader(s, lab[0])
<1>1. Peer(p) = s
  BY Peers
<1>2. QED
  BY <1>1 DEF Understood

LEMMA UnderstoodNow ==
    ASSUME NEW s \in Sides, NEW p, p = Peer(s),
           Live(s)' => \E n, lab : Sent(p, n, lab)' /\ AtReader(s, lab[0])'
    PROVE  Understood(p)'
<1>1. Peer(p) = s
  BY Peers
<1>2. QED
  BY <1>1 DEF Understood, Peer

LEMMA FirstLabel ==
    ASSUME NEW p, NEW n, NEW lab, Sent(p, n, lab)
    PROVE  lab[0] \in Label /\ Sound(p, wrote[p], lab[0])
<1>1. Walk(p, wrote[p], wire[p], n, lab)
  BY DEF Sent
<1>2. n \in Nat /\ lab \in [0..n -> Label]
  BY <1>1 DEF Walk
<1>3. 0 \in 0..n
  BY <1>2
<1>4. QED
  BY <1>1, <1>2, <1>3 DEF Walk

LEMMA NextReaderUnderstood ==
    ASSUME TypeInv, NEW s \in Sides, NextReader(s), NEW p, p = Peer(s), Understood(p)
    PROVE  Understood(p)'
<1>1. /\ program' = program /\ UNCHANGED <<wire, writer, wrote, past, delivered>>
      /\ reader[s].at = "next" /\ reader'[s].at = "advance"
      /\ frame'[s].rem = frame[s].rem /\ frame'[s].final = frame[s].final /\ frame'[s].length = 0
  BY NextReaderDoes DEF Stays, Steps, Moves, Framed
<1>2. Live(s)
  BY <1>1 DEF Live
<1>3. PICK n, lab : Sent(p, n, lab) /\ AtReader(s, lab[0])
  BY <1>2, Understands
<1>4. PICK n2, far : Sent(p, n2, far)' /\ far[0] = lab[0]
  BY <1>1, <1>3, NothingTaken DEF GoesOn
<1>5. PICK l : l = lab[0] /\ AtReader(s, l)
  BY <1>3
<1>6. AtReader(s, l)'
  <2>1. ~InMessage(s)' /\ BetweenMessages(s)
    BY <1>1 DEF InMessage, BetweenMessages, Is
  <2>2. QED
    BY <1>1, <1>5, <2>1, HypothesesSame DEF AtReader
<1>7. AtReader(s, far[0])'
  BY <1>4, <1>5, <1>6 DEF AtReader
<1>8. QED
  BY <1>4, <1>7, UnderstoodNow

LEMMA SkipUnderstood ==
    ASSUME TypeInv, NEW s \in Sides, Skip(s), NEW p, p = Peer(s), Understood(p)
    PROVE  Understood(p)'
<1>1. /\ Stays /\ program' = program /\ UNCHANGED <<wrote, past, delivered, reader>>
      /\ reader[s].at = "advance" /\ frame[s].rem > 0 /\ In(s)[1] \in Item /\ In(s)[1].op = "payload"
  BY SkipDoes DEF Stays
<1>2. PICK k \in Nat :
         /\ k <= frame[s].rem /\ k <= In(s)[1].len
         /\ Framed(s, frame[s].rem - k, frame[s].final, frame[s].length)
         /\ k = In(s)[1].len => Taken(s)
         /\ k # In(s)[1].len => Shortened(s, k)
  BY SkipDoes
<1>3. Live(s)
  BY <1>1 DEF Live
<1>4. PICK n, lab : Sent(p, n, lab) /\ AtReader(s, lab[0])
  BY <1>3, Understands
<1>5. PICK l \in Label : l = lab[0] /\ AtReader(s, l)
  BY <1>4, FirstLabel
<1>6. frame[s].rem = l.rem /\ frame[s].final = l.fin /\ In(s)[1].len \in Nat
  BY <1>1, <1>5 DEF AtReader, Item
<1>7. ASSUME NEW y \in Label, y.rem = l.rem - k, y.fin = l.fin
      PROVE  AtReader(s, y)'
  <2>1. ~InMessage(s)' /\ BetweenMessages(s) /\ l.rem # 0
    BY <1>1, <1>6 DEF InMessage, BetweenMessages, Is
  <2>2. ~ReadsToTheEnd(s) /\ ~FitsOneRead(s)
    BY <1>5, <2>1 DEF AtReader
  <2>3. frame'[s].rem = y.rem /\ frame'[s].final = y.fin /\ frame'[s].length = frame[s].length
    BY <1>2, <1>6, <1>7 DEF Framed
  <2>4. CountsOneMessage(s) => l.fin /\ (Is(s, "advance") => frame[s].length = 0)
    BY <1>5, <2>1 DEF AtReader
  <2>5. Is(s, "advance")' = Is(s, "advance")
    BY <1>1 DEF Is
  <2>6. QED
    BY <1>1, <1>7, <2>1, <2>2, <2>3, <2>4, <2>5, HypothesesSame DEF AtReader
<1>8. CASE k = In(s)[1].len
  <2>1. ~Blocks(l, In(s)[1])
    BY <1>1 DEF Blocks
  <2>2. /\ CanTake(l, In(s)[1])
        /\ \E n2, far : Sent(p, n2, far)' /\ far[0] = After(l, In(s)[1])
    BY <1>1, <1>2, <1>4, <1>5, <1>8, <2>1, TakenSent
  <2>3. PICK n2, far : Sent(p, n2, far)' /\ far[0] = After(l, In(s)[1])
    BY <2>2
  <2>4. In(s)[1].len = l.rem
    BY <1>1, <2>2, Taking
  <2>5. PICK y \in Label : y = After(l, In(s)[1]) /\ y.rem = 0 /\ y.fin = l.fin
    BY <1>1, AfterPayload
  <2>6. y.rem = l.rem - k
    BY <1>6, <1>8, <2>4, <2>5
  <2>7. AtReader(s, y)'
    BY <1>7, <2>5, <2>6
  <2>8. AtReader(s, far[0])'
    BY <2>3, <2>5, <2>7
  <2>9. QED
    BY <2>3, <2>8, UnderstoodNow
<1>9. CASE k # In(s)[1].len
  <2>1. k < In(s)[1].len
    BY <1>2, <1>6, <1>9
  <2>2. PICK n2, far : Sent(p, n2, far)' /\ far[0] \in Label /\ far[0].rem = l.rem - k /\ far[0].fin = l.fin
    BY <1>1, <1>2, <1>4, <1>5, <1>9, <2>1, ShortenedSent
  <2>3. AtReader(s, far[0])'
    BY <1>7, <2>2
  <2>4. QED
    BY <2>2, <2>3, UnderstoodNow
<1>10. QED
  BY <1>8, <1>9

\* A header is read.
LEMMA HeaderTaken ==
    ASSUME TypeInv, NEW s \in Sides, NEW p, p = Peer(s), Understood(p), Live(s),
           Stays, UNCHANGED <<wrote, past>>, AtHeader(s), Taken(s),
           In(s)[1].op \in Control \/ ~Misplaced(s, In(s)[1])
    PROVE  \E l \in Label :
              /\ AtReader(s, l) /\ CanTake(l, In(s)[1]) /\ l.rem = 0 /\ frame[s].final = l.fin
              /\ \E n2, far : Sent(p, n2, far)' /\ far[0] = After(l, In(s)[1])
                              /\ Sound(p, wrote[p], far[0]) /\ far[0] \in Label
<1>1. PICK n, lab : Sent(p, n, lab) /\ AtReader(s, lab[0])
  BY Understands
<1>2. PICK l \in Label : l = lab[0] /\ AtReader(s, l)
  BY <1>1, FirstLabel
<1>3. PICK x \in Item : x = In(s)[1]
  BY AtHeaderIs
<1>4. x.op \in {"data", "cont"} \cup Control /\ frame[s].rem = 0
  BY <1>3, AtHeaderIs
<1>5. frame[s].rem = l.rem /\ frame[s].final = l.fin
  BY <1>2 DEF AtReader
<1>6. ~OutOfPlace(l, x)
  BY <1>3, <1>5 DEF OutOfPlace, Misplaced, Control
<1>7. ~Blocks(l, x)
  BY <1>4, <1>5, <1>6, LabelTypes DEF Blocks, Control
<1>8. /\ CanTake(l, x)
      /\ \E n2, far : Sent(p, n2, far)' /\ far[0] = After(l, x)
                              /\ Sound(p, wrote[p], far[0]) /\ far[0] \in Label
  <2>1. Sent(p, n, lab) /\ ~Blocks(lab[0], In(s)[1])
    BY <1>1, <1>2, <1>3, <1>7
  <2>2. QED
    BY <1>2, <1>3, <2>1, TakenSent
<1>9. QED
  BY <1>2, <1>3, <1>4, <1>5, <1>8

LEMMA TakeDataUnderstood ==
    ASSUME TypeInv, NEW s \in Sides, TakeData(s), NEW p, p = Peer(s), Understood(p)
    PROVE  Understood(p)'
<1>1. PICK x \in Item : x = In(s)[1]
  BY AtHeaderIs, TakeDataDoes
<1>2. PICK len \in Nat : len = frame[s].length + x.len /\ x.len \in Nat /\ x.fin \in BOOLEAN
  BY <1>1, ReaderPlaces DEF Item
<1>3. /\ Stays /\ program' = program /\ UNCHANGED <<delivered, wrote, past>> /\ AtHeader(s)
      /\ x.op \in {"data", "cont"} /\ ~Misplaced(s, x) /\ Taken(s)
      /\ Framed(s, x.len, x.fin, len)
      /\ TooLong(len) => Moves(s, "reply", x.msg, reader[s].got, "close", "limit")
      /\ ~TooLong(len) /\ x.op = "data" =>
            /\ Moves(s, IF program.reads[s] = "NextReader" THEN "next" ELSE "Read", x.msg, 0,
                     reader[s].op, reader[s].after)
      /\ ~TooLong(len) /\ x.op = "cont" => reader' = reader
  BY <1>1, <1>2, TakeDataDoes DEF Stays
<1>4. reader[s].at \in {"advance", "loop"} /\ (reader[s].at = "loop" => ~frame[s].final)
  BY <1>3, AtHeaderIs
<1>5. Live(s)
  BY <1>4 DEF Live
<1>6. PICK l \in Label :
         /\ AtReader(s, l) /\ CanTake(l, x) /\ l.rem = 0 /\ frame[s].final = l.fin
         /\ \E n2, far : Sent(p, n2, far)' /\ far[0] = After(l, x)
                         /\ Sound(p, wrote[p], far[0]) /\ far[0] \in Label
  <2>1. ~Misplaced(s, In(s)[1]) /\ UNCHANGED <<wrote, past>>
    BY <1>1, <1>3
  <2>2. QED
    BY <1>1, <1>3, <1>5, <2>1, HeaderTaken
<1>7. PICK n2, far : Sent(p, n2, far)' /\ far[0] = After(l, x) /\ Sound(p, wrote[p], far[0])
  BY <1>6
<1>8. PICK y \in Label : /\ y = After(l, x) /\ y.rem = x.len /\ y.fin = x.fin /\ y.of = x.msg
                         /\ y.units = IF x.op = "data" THEN x.len ELSE l.units + x.len
                         /\ y.done = l.done + Over(x.fin, x.len)
  BY <1>3, AfterHeader
<1>9. Sound(p, wrote[p], y) /\ y = far[0]
  BY <1>7, <1>8
<1>10. /\ frame'[s].rem = y.rem /\ frame'[s].final = y.fin /\ frame'[s].length = len
  BY <1>3, <1>8 DEF Framed
<1>11. InOneFrame(Peer(s)) => y.fin
  BY <1>9 DEF Sound
<1>12. CASE TooLong(len)
  <2>1. reader'[s].at = "reply" /\ reader'[s].after \in Ends
    BY <1>3, <1>12 DEF Moves, Ends
  <2>2. ~Live(s)'
    BY <2>1 DEF Live
  <2>3. QED
    BY <2>2, UnderstoodNow
<1>13. CASE ~TooLong(len) /\ x.op = "data"
  <2>1. l.fin
    BY <1>3, <1>6, <1>13, LabelTypes DEF Misplaced
  <2>2. reader[s].at = "advance"
    BY <1>4, <1>6, <2>1
  <2>3. BetweenMessages(s) /\ Is(s, "advance")
    BY <2>2 DEF BetweenMessages, Is
  <2>4. CASE program.reads[s] = "NextReader"
    <3>1. reader'[s].at = "next"
      BY <1>3, <1>13, <2>4 DEF Moves
    <3>2. ~InMessage(s)' /\ ~Is(s, "advance")'
      BY <3>1 DEF InMessage, Is
    <3>3. ~ReadsToTheEnd(s) /\ ~FitsOneRead(s)
      BY <2>4 DEF ReadsToTheEnd, FitsOneRead
    <3>4. CountsOneMessage(s) => y.fin
      BY <1>11, <3>3 DEF CountsOneMessage
    <3>5. AtReader(s, y)'
      BY <1>3, <1>10, <3>2, <3>3, <3>4, HypothesesSame DEF AtReader
    <3>6. QED
      BY <1>7, <1>9, <3>5, UnderstoodNow
  <2>5. CASE program.reads[s] # "NextReader"
    <3>1. reader'[s].at = "Read" /\ reader'[s].msg = x.msg /\ reader'[s].got = 0
      BY <1>3, <1>13, <2>5 DEF Moves
    <3>2. ~BetweenMessages(s)' /\ ~Is(s, "advance")'
      BY <3>1 DEF BetweenMessages, Is
    <3>3. CountsOneMessage(s) => frame'[s].length = y.units
      <4>1. CountsOneMessage(s) => frame[s].length = 0
        BY <1>6, <2>3 DEF AtReader
      <4>2. QED
        BY <1>2, <1>8, <1>10, <1>13, <4>1
    <3>4. ReadsToTheEnd(s) \/ FitsOneRead(s) =>
             /\ reader'[s].got + y.rem = y.units
             /\ Len(delivered'[s]) + Over(y.fin, y.rem) = y.done
      <4>1. ReadsToTheEnd(s) \/ FitsOneRead(s) => Len(delivered[s]) = l.done
        BY <1>6, <2>3 DEF AtReader
      <4>2. reader'[s].got + y.rem = y.units
        BY <1>2, <1>8, <1>13, <3>1
      <4>3. y.done = l.done + Over(y.fin, y.rem)
        BY <1>8
      <4>4. QED
        BY <1>3, <4>1, <4>2, <4>3
    <3>5. AtReader(s, y)'
      BY <1>3, <1>8, <1>10, <3>1, <3>2, <3>3, <3>4, HypothesesSame DEF AtReader
    <3>6. QED
      BY <1>7, <1>9, <3>5, UnderstoodNow
  <2>6. QED
    BY <2>4, <2>5
<1>14. CASE ~TooLong(len) /\ x.op = "cont"
  <2>1. ~l.fin /\ x.msg = l.of
    BY <1>3, <1>6, <1>14, LabelTypes, Taking DEF Misplaced
  <2>2. reader' = reader
    BY <1>3, <1>14
  <2>3. InMessage(s)' = InMessage(s) /\ BetweenMessages(s)' = BetweenMessages(s)
        /\ Is(s, "advance")' = Is(s, "advance")
    BY <2>2 DEF InMessage, BetweenMessages, Is
  <2>4. CountsOneMessage(s) => ~BetweenMessages(s) /\ ~Is(s, "advance")
    <3>1. CountsOneMessage(s) => ~BetweenMessages(s)
      BY <1>6, <2>1 DEF AtReader
    <3>2. QED
      BY <3>1 DEF BetweenMessages
  <2>5. ReadsToTheEnd(s) \/ FitsOneRead(s) => CountsOneMessage(s)
    BY DEF FitsOneRead, CountsOneMessage
  <2>6. InMessage(s) => reader[s].msg = y.of
    BY <1>6, <1>8, <2>1 DEF AtReader
  <2>7. CountsOneMessage(s) /\ InMessage(s) => frame'[s].length = y.units
    <3>1. CountsOneMessage(s) /\ InMessage(s) => frame[s].length = l.units
      BY <1>6 DEF AtReader
    <3>2. QED
      BY <1>2, <1>8, <1>10, <1>14, <3>1
  <2>8. (ReadsToTheEnd(s) \/ FitsOneRead(s)) /\ InMessage(s) =>
             /\ reader[s].got + y.rem = y.units
             /\ Len(delivered[s]) + Over(y.fin, y.rem) = y.done
    <3>1. (ReadsToTheEnd(s) \/ FitsOneRead(s)) /\ InMessage(s) =>
             reader[s].got + l.rem = l.units /\ Len(delivered[s]) + Over(l.fin, l.rem) = l.done
      BY <1>6 DEF AtReader
    <3>2. l.rem = 0 /\ Over(l.fin, l.rem) = 0 /\ reader[s].got \in Nat /\ Len(delivered[s]) \in Nat
          /\ l.units \in Nat
      <4>1. delivered[s] \in Seq(Deliveries)
        BY Types DEF TypeInv
      <4>2. QED
        BY <1>6, <2>1, <4>1, ReaderPlaces, LabelTypes DEF Over
    <3>3. y.units = l.units + y.rem /\ y.rem \in Nat /\ y.done = l.done + Over(y.fin, y.rem)
      BY <1>2, <1>8, <1>14
    <3>4. Over(y.fin, y.rem) \in Nat
      BY DEF Over
    <3>5. QED
      BY <3>1, <3>2, <3>3, <3>4
  <2>9. AtReader(s, y)'
    BY <1>3, <1>10, <2>2, <2>3, <2>4, <2>5, <2>6, <2>7, <2>8, HypothesesSame DEF AtReader
  <2>10. QED
    BY <1>7, <1>9, <2>9, UnderstoodNow
<1>15. QED
  BY <1>3, <1>12, <1>13, <1>14

LEMMA TakeControlUnderstood ==
    ASSUME TypeInv, NEW s \in Sides, TakeControl(s), NEW p, p = Peer(s), Understood(p)
    PROVE  Understood(p)'
<1>1. PICK x \in Item : x = In(s)[1]
  BY AtHeaderIs, TakeControlDoes
<1>2. /\ Stays /\ program' = program /\ UNCHANGED <<frame, delivered, wrote, past>> /\ AtHeader(s)
      /\ x.op \in Control /\ Taken(s)
      /\ \/ reader' = reader
         \/ Moves(s, "reply", reader[s].msg, reader[s].got, "pong", reader[s].at)
         \/ Moves(s, "reply", reader[s].msg, reader[s].got, "close", "close")
  BY <1>1, TakeControlDoes DEF Stays
<1>3. reader[s].at \in {"advance", "loop"}
  BY <1>2, AtHeaderIs
<1>4. Live(s)
  BY <1>3 DEF Live
<1>5. PICK l \in Label :
         /\ AtReader(s, l)
         /\ \E n2, far : Sent(p, n2, far)' /\ far[0] = After(l, x)
  <2>1. In(s)[1].op \in Control /\ UNCHANGED <<wrote, past>>
    BY <1>1, <1>2
  <2>2. QED
    BY <1>1, <1>2, <1>4, <2>1, HeaderTaken
<1>6. PICK n2, far : Sent(p, n2, far)' /\ far[0] = l
  BY <1>2, <1>5, AfterControl
<1>7. ASSUME SamePlace(s)
      PROVE  Understood(p)'
  <2>1. AtReader(s, l)'
    BY <1>2, <1>5, <1>7, AtReaderFollows
  <2>2. AtReader(s, far[0])'
    BY <1>6, <2>1
  <2>3. QED
    BY <1>6, <2>2, UnderstoodNow
<1>8. CASE reader' = reader
  BY <1>7, <1>8, PlaceKept
<1>9. CASE Moves(s, "reply", reader[s].msg, reader[s].got, "pong", reader[s].at)
  <2>1. SamePlace(s)
    BY <1>3, <1>9 DEF Moves, SamePlace, Live, InMessage, BetweenMessages, Is, Ends
  <2>2. QED
    BY <1>7, <2>1
<1>10. CASE Moves(s, "reply", reader[s].msg, reader[s].got, "close", "close")
  <2>1. ~Live(s)'
    BY <1>10 DEF Moves, Live, Ends
  <2>2. QED
    BY <2>1, UnderstoodNow
<1>11. QED
  BY <1>2, <1>8, <1>9, <1>10

\* Readers that give up.
LEMMA GivenUp ==
    ASSUME TypeInv, NEW s \in Sides, Refuse(s) \/ Garbled(s) \/ EndOfFile(s), NEW p, p = Peer(s)
    PROVE  Understood(p)'
<1>1. ~Live(s)'
  BY RefuseDoes, GarbledDoes, EndOfFileDoes DEF Moves, Steps, Ended, Live, Ends
<1>2. QED
  BY <1>1, UnderstoodNow

LEMMA ReadUnderstood ==
    ASSUME TypeInv, NEW s \in Sides, Read(s), ReaderOK(s), NEW p, p = Peer(s), Understood(p)
    PROVE  Understood(p)'
<1>1. /\ program' = program /\ UNCHANGED <<wire, writer, wrote, past, frame>> /\ reader[s].at = "Read"
      /\ \/ messageReader[s] /\ Steps(s, "loop") /\ UNCHANGED delivered
         \/ ~messageReader[s] /\ Steps(s, "next")
  BY ReadDoes DEF Stays
<1>2. Live(s) /\ InMessage(s)
  BY <1>1 DEF Live, InMessage
<1>3. PICK n, lab : Sent(p, n, lab) /\ AtReader(s, lab[0])
  BY <1>2, Understands
<1>4. PICK n2, far : Sent(p, n2, far)' /\ far[0] = lab[0]
  BY <1>1, <1>3, NothingTaken DEF GoesOn
<1>5. PICK l \in Label : l = lab[0] /\ AtReader(s, l) /\ Sound(p, wrote[p], l)
  BY <1>3, FirstLabel
<1>6. ASSUME AtReader(s, l)'
      PROVE  Understood(p)'
  <2>1. AtReader(s, far[0])'
    BY <1>4, <1>5, <1>6
  <2>2. QED
    BY <1>4, <2>1, UnderstoodNow
<1>7. CASE messageReader[s] /\ Steps(s, "loop") /\ UNCHANGED delivered
  <2>1. SamePlace(s)
    BY <1>1, <1>7 DEF Steps, Moves, SamePlace, Live, InMessage, BetweenMessages, Is
  <2>2. QED
    BY <1>1, <1>5, <1>6, <1>7, <2>1, AtReaderFollows
<1>8. CASE ~messageReader[s] /\ Steps(s, "next")
  <2>1. ~Undisturbed(s)
    BY <1>2, <1>8 DEF ReaderOK
  <2>2. ~ReadsToTheEnd(s) /\ ~FitsOneRead(s)
    BY <2>1 DEF ReadsToTheEnd, FitsOneRead
  <2>3. CountsOneMessage(s) => l.fin
    BY <1>5, <2>2 DEF CountsOneMessage, Sound
  <2>4. ~InMessage(s)' /\ ~Is(s, "advance")'
    BY <1>8 DEF Steps, Moves, InMessage, Is
  <2>5. AtReader(s, l)'
    BY <1>1, <1>5, <2>2, <2>3, <2>4, HypothesesSame DEF AtReader
  <2>6. QED
    BY <1>6, <2>5
<1>9. QED
  BY <1>1, <1>7, <1>8

LEMMA EndOfMessageUnderstood ==
    ASSUME TypeInv, NEW s \in Sides, EndOfMessage(s), NEW p, p = Peer(s), Understood(p)
    PROVE  Understood(p)'
<1>1. /\ program' = program /\ UNCHANGED <<wire, writer, wrote, past, frame>> /\ reader[s].at = "loop"
      /\ frame[s].rem = 0 /\ frame[s].final
      /\ Gains(s, reader[s].msg, reader[s].got) /\ Steps(s, "next")
  BY EndOfMessageDoes DEF Stays
<1>2. Live(s) /\ InMessage(s)
  BY <1>1 DEF Live, InMessage, Is
<1>3. PICK n, lab : Sent(p, n, lab) /\ AtReader(s, lab[0])
  BY <1>2, Understands
<1>4. PICK n2, far : Sent(p, n2, far)' /\ far[0] = lab[0]
  BY <1>1, <1>3, NothingTaken DEF GoesOn
<1>5. PICK l \in Label : l = lab[0] /\ AtReader(s, l)
  BY <1>3, FirstLabel
<1>6. l.rem = 0 /\ l.fin
  BY <1>1, <1>5 DEF AtReader
<1>7. ~InMessage(s)' /\ ~Is(s, "advance")'
  BY <1>1 DEF Steps, Moves, InMessage, Is
<1>8. ReadsToTheEnd(s) \/ FitsOneRead(s) => Len(delivered'[s]) = l.done
  <2>1. Len(delivered'[s]) = Len(delivered[s]) + 1
    <3>1. delivered[s] \in Seq(Deliveries)
      BY Types DEF TypeInv
    <3>2. QED
      BY <1>1, <3>1 DEF Gains
  <2>2. ReadsToTheEnd(s) \/ FitsOneRead(s) => Len(delivered[s]) + Over(l.fin, l.rem) = l.done
    BY <1>2, <1>5 DEF AtReader
  <2>3. QED
    BY <1>6, <2>1, <2>2 DEF Over
<1>9. AtReader(s, l)'
  BY <1>1, <1>5, <1>6, <1>7, <1>8, HypothesesSame DEF AtReader
<1>10. AtReader(s, far[0])'
  BY <1>4, <1>5, <1>9
<1>11. QED
  BY <1>4, <1>10, UnderstoodNow

\* After the bytes that Read found.
LEMMA PieceUnderstood ==
    ASSUME TypeInv, NEW s \in Sides, ReaderOK(s), program' = program, NEW k \in Nat, NEW len \in Nat,
           k <= len, reader[s].at = "loop", frame[s].rem > 0,
           NEW l \in Label, AtReader(s, l), Sound(Peer(s), wrote[Peer(s)], l), l.rem = len,
           program.reads[s] = "ReadMessage" /\ ~program.pieces =>
                       k = Lesser(Lesser(frame[s].rem, len), BufLen),
           Framed(s, frame[s].rem - k, frame[s].final, frame[s].length),
           IF program.reads[s] = "ReadMessage"
           THEN Gains(s, reader[s].msg, k) /\ Steps(s, "next")
           ELSE /\ UNCHANGED delivered
                /\ Moves(s, "Read", reader[s].msg, reader[s].got + k, reader[s].op, reader[s].after),
           NEW y \in Label, y.rem = l.rem - k, y.fin = l.fin, y.of = l.of, y.units = l.units,
           y.done = l.done + (IF k = len THEN Over(l.fin, 0) ELSE 0)
    PROVE  AtReader(s, y)'
<1>1. InMessage(s) /\ reader[s].msg = l.of /\ frame[s].rem = l.rem /\ frame[s].final = l.fin
  BY DEF InMessage, Is, AtReader
<1>2. frame'[s].rem = y.rem /\ frame'[s].final = y.fin /\ frame'[s].length = frame[s].length
  BY <1>1 DEF Framed
<1>3. CountsOneMessage(s) => frame[s].length = y.units
  BY <1>1 DEF AtReader
<1>4. ReadsToTheEnd(s) \/ FitsOneRead(s) =>
         reader[s].got + l.rem = l.units /\ Len(delivered[s]) = l.done
  <2>1. l.rem # 0 /\ Len(delivered[s]) \in Nat
    <3>1. delivered[s] \in Seq(Deliveries)
      BY Types DEF TypeInv
    <3>2. QED
      BY <1>1, <3>1
  <2>2. Over(l.fin, l.rem) = 0
    BY <2>1 DEF Over
  <2>3. ReadsToTheEnd(s) \/ FitsOneRead(s) =>
         reader[s].got + l.rem = l.units /\ Len(delivered[s]) + Over(l.fin, l.rem) = l.done
    BY <1>1 DEF AtReader
  <2>4. QED
    BY <2>1, <2>2, <2>3
<1>5. l.rem \in Nat /\ l.done \in Nat /\ y.rem \in Nat /\ reader[s].got \in Nat /\ l.units \in Nat
  BY LabelTypes, ReaderPlaces
<1>6. CASE program.reads[s] = "ReadMessage"
  <2>1. Gains(s, reader[s].msg, k) /\ reader'[s].at = "next"
    BY <1>6 DEF Steps, Moves
  <2>2. ~InMessage(s)' /\ ~Is(s, "advance")'
    BY <2>1 DEF InMessage, Is
  <2>3. ~ReadsToTheEnd(s)
    BY <1>6 DEF ReadsToTheEnd
  <2>4. CountsOneMessage(s) => y.fin
    BY <2>3 DEF CountsOneMessage, Sound
  <2>5. FitsOneRead(s) => y.rem = 0 /\ Len(delivered'[s]) = y.done
    <3> SUFFICES ASSUME FitsOneRead(s)
                 PROVE  y.rem = 0 /\ Len(delivered'[s]) = y.done
      OBVIOUS
    <3>1. l.of # None
      BY <1>1 DEF TypeInv, ReaderFits
    <3>2. l.of \in Said(Peer(s)) /\ l.units <= Size[l.of] /\ l.fin
      BY <3>1 DEF Sound, FitsOneRead
    <3>3. Size[l.of] <= BufLen /\ Size[l.of] \in Nat /\ BufLen \in Nat
      BY <3>2, ConnAssumption DEF FitsOneRead, Said
    <3>4. l.rem <= BufLen
      BY <1>4, <1>5, <3>2, <3>3
    <3>5. k = l.rem
      <4>1. k = Lesser(Lesser(l.rem, l.rem), BufLen)
        BY <1>1, <1>6 DEF FitsOneRead
      <4>2. QED
        BY <1>5, <3>3, <3>4, <4>1 DEF Lesser
    <3>6. y.rem = 0 /\ y.done = l.done + 1
      BY <1>5, <3>2, <3>5 DEF Over
    <3>7. Len(delivered'[s]) = Len(delivered[s]) + 1
      <4>1. delivered[s] \in Seq(Deliveries)
        BY Types DEF TypeInv
      <4>2. QED
        BY <2>1, <4>1 DEF Gains
    <3>8. QED
      BY <1>4, <3>6, <3>7
  <2>6. QED
    BY <1>2, <2>2, <2>3, <2>4, <2>5, HypothesesSame DEF AtReader
<1>7. CASE program.reads[s] # "ReadMessage"
  <2>1. /\ delivered' = delivered /\ reader'[s].at = "Read" /\ reader'[s].msg = reader[s].msg
        /\ reader'[s].got = reader[s].got + k
    BY <1>7 DEF Moves
  <2>2. ~BetweenMessages(s)' /\ ~Is(s, "advance")'
    BY <2>1 DEF BetweenMessages, Is
  <2>3. ReadsToTheEnd(s) \/ FitsOneRead(s) =>
           reader'[s].got + y.rem = y.units /\ Len(delivered'[s]) + Over(y.fin, y.rem) = y.done
    <3>1. Over(y.fin, y.rem) = IF k = len THEN Over(l.fin, 0) ELSE 0
      BY <1>5 DEF Over
    <3>2. Over(y.fin, y.rem) \in Nat
      BY DEF Over
    <3>3. ReadsToTheEnd(s) \/ FitsOneRead(s) => reader'[s].got + y.rem = y.units
      BY <1>4, <1>5, <2>1
    <3>4. QED
      BY <1>4, <2>1, <3>1, <3>2, <3>3
  <2>4. QED
    BY <1>1, <1>2, <1>3, <2>1, <2>2, <2>3, HypothesesSame DEF AtReader
<1>8. QED
  BY <1>6, <1>7

LEMMA TakePieceUnderstood ==
    ASSUME TypeInv, NEW s \in Sides, TakePiece(s), ReaderOK(s), NEW p, p = Peer(s), Understood(p)
    PROVE  Understood(p)'
<1>1. /\ Stays /\ program' = program /\ UNCHANGED <<wrote, past>>
      /\ reader[s].at = "loop" /\ frame[s].rem > 0 /\ In(s)[1] \in Item /\ In(s)[1].op = "payload"
  BY TakePieceDoes DEF Stays
<1>2. PICK k \in Nat :
                 /\ k <= frame[s].rem /\ k <= In(s)[1].len
                 /\ program.reads[s] = "ReadMessage" /\ ~program.pieces =>
                       k = Lesser(Lesser(frame[s].rem, In(s)[1].len), BufLen)
                 /\ Framed(s, frame[s].rem - k, frame[s].final, frame[s].length)
                 /\ k = In(s)[1].len => Taken(s)
                 /\ k # In(s)[1].len => Shortened(s, k)
                 /\ IF program.reads[s] = "ReadMessage"
                    THEN Gains(s, reader[s].msg, k) /\ Steps(s, "next")
                    ELSE /\ UNCHANGED delivered
                         /\ Moves(s, "Read", reader[s].msg, reader[s].got + k,
                                  reader[s].op, reader[s].after)
  BY TakePieceDoes
<1>3. PICK x \in Item : x = In(s)[1] /\ x.op = "payload" /\ x.len \in Nat
  BY <1>1 DEF Item
<1>4. Live(s)
  BY <1>1 DEF Live
<1>5. PICK n, lab : Sent(p, n, lab) /\ AtReader(s, lab[0])
  BY <1>4, Understands
<1>6. PICK l \in Label : l = lab[0] /\ AtReader(s, l) /\ Sound(p, wrote[p], l)
  BY <1>5, FirstLabel
<1>7. ASSUME NEW y \in Label, l.rem = x.len,
             y.rem = l.rem - k, y.fin = l.fin, y.of = l.of, y.units = l.units,
             y.done = l.done + (IF k = x.len THEN Over(l.fin, 0) ELSE 0)
      PROVE  AtReader(s, y)'
  BY <1>1, <1>2, <1>3, <1>6, <1>7, PieceUnderstood
<1>8. CASE k = x.len
  <2>1. ~Blocks(l, x)
    BY <1>3 DEF Blocks
  <2>2. /\ CanTake(l, x)
        /\ \E n2, far : Sent(p, n2, far)' /\ far[0] = After(l, x)
    <3>1. Sent(p, n, lab) /\ ~Blocks(lab[0], In(s)[1]) /\ Taken(s)
      BY <1>2, <1>3, <1>5, <1>6, <1>8, <2>1
    <3>2. QED
      BY <1>1, <1>3, <1>6, <3>1, TakenSent
  <2>3. PICK n2, far : Sent(p, n2, far)' /\ far[0] = After(l, x)
    BY <2>2
  <2>4. x.len = l.rem
    BY <1>3, <2>2, Taking
  <2>5. PICK y \in Label : /\ y = After(l, x) /\ y.rem = 0 /\ y.fin = l.fin /\ y.of = l.of
                           /\ y.units = l.units /\ y.done = l.done + Over(l.fin, 0)
    BY <1>3, AfterPayload
  <2>6. y.rem = l.rem - k /\ y.done = l.done + (IF k = x.len THEN Over(l.fin, 0) ELSE 0)
    BY <1>3, <1>8, <2>4, <2>5
  <2>7. AtReader(s, y)'
    BY <1>7, <2>4, <2>5, <2>6
  <2>8. AtReader(s, far[0])'
    BY <2>3, <2>5, <2>7
  <2>9. QED
    BY <2>3, <2>8, UnderstoodNow
<1>9. CASE k # x.len
  <2>1. k < x.len
    BY <1>2, <1>3, <1>9
  <2>2. /\ CanTake(l, x)
        /\ \E n2, far : /\ Sent(p, n2, far)' /\ far[0] \in Label /\ far[0].rem = l.rem - k
                        /\ far[0].fin = l.fin /\ far[0].of = l.of /\ far[0].units = l.units
                        /\ far[0].done = l.done
    <3>1. Sent(p, n, lab) /\ Shortened(s, k) /\ k < In(s)[1].len
      BY <1>2, <1>3, <1>5, <1>9, <2>1
    <3>2. QED
      BY <1>1, <1>3, <1>6, <3>1, ShortenedSent
  <2>3. PICK n2, far : /\ Sent(p, n2, far)' /\ far[0] \in Label /\ far[0].rem = l.rem - k
                       /\ far[0].fin = l.fin /\ far[0].of = l.of /\ far[0].units = l.units
                       /\ far[0].done = l.done
    BY <2>2
  <2>4. x.len = l.rem /\ l.done \in Nat
    BY <1>3, <2>2, Taking, LabelTypes
  <2>5. far[0].done = l.done + (IF k = x.len THEN Over(l.fin, 0) ELSE 0)
    BY <1>9, <2>3, <2>4
  <2>6. AtReader(s, far[0])'
    BY <1>7, <2>3, <2>4, <2>5
  <2>7. QED
    BY <2>3, <2>6, UnderstoodNow
<1>10. QED
  BY <1>8, <1>9

LEMMA ReadingUnderstood ==
    ASSUME TypeInv, NEW s \in Sides, Reading(s), ReaderOK(s), NEW p \in Sides, Understood(p)
    PROVE  Understood(p)'
<1>1. CASE p = s
  BY <1>1, ReadingElsewhere
<1>2. CASE p = Peer(s)
  BY <1>2, NextReaderUnderstood, SkipUnderstood, TakeDataUnderstood, TakeControlUnderstood,
     ReadUnderstood, TakePieceUnderstood, EndOfMessageUnderstood, GivenUp DEF Reading
<1>3. QED
  BY <1>1, <1>2, Peers

-----------------------------------------------------------------------------
(* What has failed stays so, and what was written stays written.             *)

Grows(p) == /\ past[p].fault # "no" => past'[p].fault # "no"
            /\ past[p].fault = "torn" => past'[p].fault = "torn"
            /\ wrote'[p] = wrote[p] \/ \E m \in Messages : wrote'[p] = Append(wrote[p], m)

HistoryGrows == UNCHANGED program /\ \A p \in Sides : Grows(p)

LEMMA GrowsSame ==
    ASSUME UNCHANGED <<wrote, past>>
    PROVE  \A p \in Sides : Grows(p)
BY DEF Grows

LEMMA GrowsPuts ==
    ASSUME TypeInv, NEW s \in Sides, NEW items \in Seq(Item), items # <<>>,
           NEW m \in Messages \cup {None}, Puts(s, items, m)
    PROVE  \A p \in Sides : Grows(p)
<1>1. TypeOK
  BY DEF TypeInv
<1>2. /\ wrote' = IF m = None THEN wrote ELSE [wrote EXCEPT ![s] = Append(@, m)]
      /\ \A p \in Sides : past'[p].fault = past[p].fault
  BY <1>1, PutsTypes
<1>3. wrote \in [Sides -> Seq(Messages)]
  BY <1>1, Types
<1>4. \A p \in Sides : wrote'[p] = wrote[p] \/ \E x \in Messages : wrote'[p] = Append(wrote[p], x)
  <2>1. CASE m = None
    BY <1>2, <2>1
  <2>2. CASE m # None
    BY <1>2, <1>3, <2>2
  <2>3. QED
    BY <2>1, <2>2
<1>5. QED
  BY <1>2, <1>4 DEF Grows

LEMMA GrowsFails ==
    ASSUME TypeInv, NEW s \in Sides, NEW items \in Seq(Item), items # <<>>, Fails(s, items),
           UNCHANGED wrote
    PROVE  (\A p \in Sides : Grows(p)) /\ past'[s].fault # "no"
<1>1. TypeOK
  BY DEF TypeInv
<1>2. /\ \A p \in Sides : p # s => past'[p] = past[p]
      /\ past'[s].fault \in {"failed", "torn"} /\ (past[s].fault = "torn" => past'[s].fault = "torn")
  BY <1>1, FailsTypes
<1>3. QED
  BY <1>2 DEF Grows

\* The network in the steps of a goroutine that writes, as its lemmas say it.
LEMMA WriterGrows ==
    ASSUME TypeInv, NEW w \in Writers, CallStep(w) \/ CallBegins(w)
    PROVE  \A p \in Sides : Grows(p)
<1>0. Owner[w] \in Sides
  BY ConnAssumption
<1>1. CASE Quiet(w)
  BY <1>1, QuietDoes, GrowsSame
<1>2. ASSUME NEW m \in Messages
      PROVE  /\ WholeFrame("data", TRUE, m, Size[m]) \in Seq(Item)
             /\ WholeFrame("data", TRUE, m, Size[m]) # <<>>
  <2>1. "data" \in Ops /\ Size[m] \in Nat
    BY ConnAssumption DEF Ops
  <2>2. QED
    BY <2>1, FrameTypes
<1>3. CASE Write(w)
  <2>1. PICK m \in Messages : Puts(Owner[w], WholeFrame("data", TRUE, m, Size[m]), m)
    BY <1>3, WriteDoes
  <2>2. QED
    BY <1>0, <1>2, <2>1, GrowsPuts
<1>4. CASE WriteFails(w)
  <2>1. PICK m \in Messages : Fails(Owner[w], WholeFrame("data", TRUE, m, Size[m])) /\ UNCHANGED wrote
    BY <1>4, WriteFailsDoes
  <2>2. QED
    BY <1>0, <1>2, <2>1, GrowsFails
<1>5. CASE WriteControl(w)
  BY <1>0, <1>5, WriteControlDoes, ControlItem, GrowsPuts
<1>6. CASE ControlFails(w)
  BY <1>0, <1>6, ControlFailsDoes, ControlItem, GrowsFails
<1>7. CASE Flush(w)
  <2>1. writer[w].at = "flush" /\ writer[w].call <= Len(program.calls[w])
    BY <1>7, FlushDoes
  <2>2. Flushed(w) \in Seq(Item) /\ Flushed(w) # <<>> /\ Flushed(w)[1] \in Item /\ Mine(w).msg \in Messages
    BY <2>1, FlushedIs
  <2>3. CASE InTwoWrites(w)
    <3>1. Puts(Owner[w], <<Flushed(w)[1]>>, None)
      BY <1>7, <2>3, FlushDoes
    <3>2. <<Flushed(w)[1]>> \in Seq(Item) /\ <<Flushed(w)[1]>> # <<>>
      BY <2>2
    <3>3. QED
      BY <1>0, <3>1, <3>2, GrowsPuts
  <2>4. CASE ~InTwoWrites(w)
    <3>1. PICK m \in Messages \cup {None} : Puts(Owner[w], Flushed(w), m)
      BY <1>7, <2>2, <2>4, FlushDoes
    <3>2. QED
      BY <1>0, <2>2, <3>1, GrowsPuts
  <2>5. QED
    BY <2>3, <2>4
<1>8. CASE FlushExtra(w)
  <2>1. writer[w].at = "extra" /\ writer[w].call <= Len(program.calls[w])
        /\ Puts(Owner[w], Tail(Flushed(w)), None)
    BY <1>8, FlushExtraDoes
  <2>2. Tail(Flushed(w)) # <<>> /\ Tail(Flushed(w)) \in Seq(Item)
    BY <2>1, ExtraHasPayload, FlushedIs
  <2>3. QED
    BY <1>0, <2>1, <2>2, GrowsPuts
<1>9. CASE FlushFails(w)
  <2>1. writer[w].at = "flush" /\ writer[w].call <= Len(program.calls[w])
        /\ Fails(Owner[w], Flushed(w)) /\ UNCHANGED wrote
    BY <1>9, FlushFailsDoes
  <2>2. Flushed(w) \in Seq(Item) /\ Flushed(w) # <<>>
    BY <2>1, FlushedIs
  <2>3. QED
    BY <1>0, <2>1, <2>2, GrowsFails
<1>10. QED
  BY <1>1, <1>3, <1>4, <1>5, <1>6, <1>7, <1>8, <1>9 DEF CallStep, CallBegins, Quiet

LEMMA PoolGrows ==
    ASSUME TypeInv, PoolQuiet \/ \E k \in Workers : WorkerWrites(k) \/ WorkerFails(k)
    PROVE  \A p \in Sides : Grows(p)
<1>1. CASE PoolQuiet
  BY <1>1, PoolQuietDoes, GrowsSame
<1>2. ASSUME NEW k \in Workers, WorkerWrites(k) \/ WorkerFails(k)
      PROVE  \A p \in Sides : Grows(p)
  <2>1. PICK t \in Task : t = worker[k].task
    BY <1>2, WorkerWritesDoes, WorkerFailsDoes
  <2>2. t.msg \in Messages /\ Owner[t.by] \in Sides /\ "data" \in Ops /\ Size[t.msg] \in Nat
    BY ConnAssumption DEF Task, Ops
  <2>3. /\ WholeFrame("data", TRUE, t.msg, Size[t.msg]) \in Seq(Item)
        /\ WholeFrame("data", TRUE, t.msg, Size[t.msg]) # <<>>
    BY <2>2, FrameTypes
  <2>4. CASE WorkerWrites(k)
    BY <2>1, <2>2, <2>3, <2>4, WorkerWritesDoes, GrowsPuts
  <2>5. CASE WorkerFails(k)
    BY <2>1, <2>2, <2>3, <2>5, WorkerFailsDoes, GrowsFails
  <2>6. QED
    BY <1>2, <2>4, <2>5
<1>3. QED
  BY <1>1, <1>2

LEMMA ReaderGrows ==
    ASSUME TypeInv, NEW s \in Sides, ReaderStep(s)
    PROVE  \A p \in Sides : Grows(p)
<1>1. CASE Reply(s)
  BY <1>1, ReplyDoes, ControlItem, GrowsPuts
<1>2. CASE ReplyFails(s)
  BY <1>2, ReplyFailsDoes, ControlItem, GrowsFails
<1>3. CASE Skip(s) \/ TakeData(s) \/ Refuse(s) \/ TakeControl(s) \/ TakePiece(s)
  <2>1. UNCHANGED <<wrote, past>>
    BY <1>3, SkipDoes, TakeDataDoes, RefuseDoes, TakeControlDoes, TakePieceDoes
  <2>2. QED
    BY <2>1, GrowsSame
<1>4. CASE NextReader(s) \/ Read(s) \/ EndOfMessage(s) \/ Garbled(s) \/ EndOfFile(s) \/ ReplySettled(s)
  <2>1. UNCHANGED <<wrote, past>>
    BY <1>4, NextReaderDoes, ReadDoes, EndOfMessageDoes, GarbledDoes, EndOfFileDoes, ReplySettledDoes
  <2>2. QED
    BY <2>1, GrowsSame
<1>5. QED
  BY <1>1, <1>2, <1>3, <1>4 DEF ReaderStep

LEMMA HistoryKept ==
    ASSUME TypeInv, [Next]_vars
    PROVE  HistoryGrows
<1>1. CASE UNCHANGED vars
  <2>1. UNCHANGED <<program, wrote, past>>
    BY <1>1 DEF vars
  <2>2. QED
    BY <2>1, GrowsSame DEF HistoryGrows
<1>2. CASE Next
  <2>1. ASSUME NEW s \in Sides, ReaderStep(s)
        PROVE  HistoryGrows
    <3>1. UNCHANGED program
      BY <2>1, NextReaderDoes, SkipDoes, TakeDataDoes, RefuseDoes, TakeControlDoes, ReplyDoes,
         ReplyFailsDoes, ReplySettledDoes, ReadDoes, TakePieceDoes, EndOfMessageDoes, GarbledDoes,
         EndOfFileDoes DEF ReaderStep, Stays
    <3>2. QED
      BY <2>1, <3>1, ReaderGrows DEF HistoryGrows
  <2>2. ASSUME NEW w \in Writers, CallStep(w) \/ CallBegins(w)
        PROVE  HistoryGrows
    BY <2>2, WriterReads, WriterGrows DEF HistoryGrows, Reads
  <2>3. ASSUME PoolQuiet \/ \E k \in Workers : WorkerWrites(k) \/ WorkerFails(k)
        PROVE  HistoryGrows
    BY <2>3, PoolReads, PoolGrows DEF HistoryGrows, Reads
  <2>4. QED
    BY <1>2, <2>1, <2>2, <2>3 DEF Next, WorkerStep, PoolQuiet
<1>3. QED
  BY <1>1, <1>2

-----------------------------------------------------------------------------
(* The writers and the pool.                                                 *)

\* A writer is not between two Writes of a frame, and a call that goes to the pool has failed.
KeepsFrames(w) ==
    /\ \A v \in Writers : v # w => writer'[v] = writer[v]
    /\ writer'[w].at # "extra"
    /\ writer'[w].at \in {"submit", "enqueue"} => past'[Owner[w]].fault # "no"

LEMMA WritersKeepFrames ==
    ASSUME TypeInv, Orderly, NEW w \in Writers, WriterOK(w), CallStep(w) \/ CallBegins(w)
    PROVE  KeepsFrames(w)
<1>0. Owner[w] \in Sides
  BY ConnAssumption
<1>1. CASE Quiet(w)
  <2>1. UNCHANGED past
    BY <1>1, QuietDoes
  <2>2. ASSUME NEW at, NEW call, NEW left, NEW first, Turns(w, at, call, left, first),
               at \in {"idle", "write", "flush", "wait"}
        PROVE  KeepsFrames(w)
    BY <2>2 DEF Turns, KeepsFrames
  <2>3. CASE writer[w].at = "submit" /\ MovesOn(w, "enqueue")
    BY <2>1, <2>3 DEF MovesOn, Turns, KeepsFrames, WriterOK
  <2>4. QED
    BY <1>1, <2>2, <2>3, QuietDoes DEF Leaves, MovesOn
<1>2. ASSUME NEW at, NEW call, NEW left, NEW first, Turns(w, at, call, left, first),
             at \in {"idle", "settle", "end", "flush"}
      PROVE  KeepsFrames(w)
  BY <1>2 DEF Turns, KeepsFrames
<1>3. CASE Write(w) \/ WriteControl(w) \/ ControlFails(w) \/ FlushExtra(w) \/ FlushFails(w)
  BY <1>2, <1>3, WriteDoes, WriteControlDoes, ControlFailsDoes, FlushExtraDoes, FlushFailsDoes
  DEF Leaves, MovesOn
<1>4. CASE WriteFails(w)
  <2>1. CASE Leaves(w)
    BY <1>2, <2>1 DEF Leaves
  <2>2. CASE MovesOn(w, "submit")
    <3>1. PICK m \in Messages : Fails(Owner[w], WholeFrame("data", TRUE, m, Size[m])) /\ UNCHANGED wrote
      BY <1>4, WriteFailsDoes
    <3>2. "data" \in Ops /\ Size[m] \in Nat
      BY ConnAssumption DEF Ops
    <3>3. /\ WholeFrame("data", TRUE, m, Size[m]) \in Seq(Item)
          /\ WholeFrame("data", TRUE, m, Size[m]) # <<>>
      BY <3>2, FrameTypes
    <3>4. past'[Owner[w]].fault # "no"
      BY <1>0, <3>1, <3>3, GrowsFails
    <3>5. QED
      BY <2>2, <3>4 DEF MovesOn, Turns, KeepsFrames
  <2>3. QED
    BY <1>4, <2>1, <2>2, WriteFailsDoes
<1>5. CASE Flush(w)
  <2>1. writer[w].at = "flush" /\ writer[w].call <= Len(program.calls[w])
    BY <1>5, FlushDoes
  <2>2. Mine(w).do = "NextWriter" /\ writer[w].call \in DOMAIN program.calls[w]
    BY <2>1, FlushedIs, WriterPlaces
  <2>3. ~InTwoWrites(w)
    BY <2>2 DEF InTwoWrites, Orderly, Mine
  <2>4. PICK at \in {"end", "flush"} : Turns(w, at, writer[w].call, Tail(writer[w].left), FALSE)
    BY <1>5, <2>3, FlushDoes
  <2>5. QED
    BY <1>2, <2>4
<1>6. QED
  BY <1>1, <1>3, <1>4, <1>5 DEF CallStep, CallBegins, Quiet

LEMMA WritersStay ==
    ASSUME NEW w \in Writers, KeepsFrames(w), \A v \in Writers : WriterOK(v), HistoryGrows
    PROVE  \A v \in Writers : WriterOK(v)'
<1> SUFFICES ASSUME NEW v \in Writers
             PROVE  WriterOK(v)'
  OBVIOUS
<1>0. Owner[v] \in Sides
  BY ConnAssumption
<1>1. CASE v = w
  BY <1>1 DEF KeepsFrames, WriterOK
<1>2. CASE v # w
  BY <1>0, <1>2 DEF KeepsFrames, WriterOK, HistoryGrows, Grows
<1>3. QED
  BY <1>1, <1>2

\* An answer of the pool leaves a writer idle.
LEMMA AnswerFits ==
    ASSUME AnswerDone, \A v \in Writers : WriterOK(v), HistoryGrows
    PROVE  \A v \in Writers : WriterOK(v)'
<1>1. CASE UNCHANGED writer
  <2> SUFFICES ASSUME NEW v \in Writers
               PROVE  WriterOK(v)'
    OBVIOUS
  <2>1. Owner[v] \in Sides
    BY ConnAssumption
  <2>2. QED
    BY <1>1, <2>1 DEF WriterOK, HistoryGrows, Grows
<1>2. ASSUME NEW w \in Writers, Turns(w, "idle", writer[w].call + 1, writer[w].left, writer[w].first)
      PROVE  \A v \in Writers : WriterOK(v)'
  <2>1. KeepsFrames(w)
    BY <1>2 DEF Turns, KeepsFrames
  <2>2. QED
    BY <2>1, WritersStay
<1>3. QED
  BY <1>1, <1>2 DEF AnswerDone

LEMMA WritersKept ==
    ASSUME TypeInv, Orderly, [Next]_vars, \A w \in Writers : WriterOK(w)
    PROVE  \A w \in Writers : WriterOK(w)'
<1>1. HistoryGrows
  BY HistoryKept
<1>2. CASE UNCHANGED writer
  BY <1>1, <1>2, AnswerFits DEF AnswerDone
<1>3. ASSUME NEW w \in Writers, CallStep(w) \/ CallBegins(w)
      PROVE  \A v \in Writers : WriterOK(v)'
  BY <1>1, <1>3, WritersKeepFrames, WritersStay
<1>4. ASSUME NEW k \in Workers, WorkerWrites(k) \/ WorkerFails(k)
      PROVE  \A v \in Writers : WriterOK(v)'
  BY <1>1, <1>4, WorkerWritesDoes, WorkerFailsDoes, AnswerFits
<1>5. CASE PoolQuiet
  BY <1>2, <1>5, PoolQuietDoes
<1>6. ASSUME NEW s \in Sides, ReaderStep(s)
      PROVE  UNCHANGED writer
  BY <1>6, NextReaderDoes, SkipDoes, TakeDataDoes, RefuseDoes, TakeControlDoes, ReplyDoes,
     ReplyFailsDoes, ReplySettledDoes, ReadDoes, TakePieceDoes, EndOfMessageDoes, GarbledDoes,
     EndOfFileDoes DEF ReaderStep, Stays
<1>7. QED
  BY <1>2, <1>3, <1>4, <1>5, <1>6 DEF Next, WorkerStep, PoolQuiet, vars

LEMMA TriedStays ==
    ASSUME HistoryGrows, NEW t \in Task, Tried(t)
    PROVE  Tried(t)'
<1>1. Owner[t.by] \in Sides
  BY ConnAssumption DEF Task
<1>2. QED
  BY <1>1 DEF HistoryGrows, Grows, Tried, Said

\* The queue and the workers hold only what they held, and a task that was tried.
LEMMA PoolStays ==
    ASSUME TypeInv, HistoryGrows, PoolOK, pool'.queue \in Seq(Task), Workings',
           \A i \in DOMAIN pool'.queue :
               (\E j \in DOMAIN pool.queue : pool'.queue[i] = pool.queue[j]) \/ Tried(pool'.queue[i]),
           \A k \in Workers : worker'[k].at = "work" =>
               worker'[k] = worker[k] \/ \E j \in DOMAIN pool.queue : worker'[k].task = pool.queue[j]
    PROVE  PoolOK'
<1>1. TypeOK /\ pool.queue \in Seq(Task)
  BY QueueTypes DEF TypeInv
<1>2. ASSUME NEW i \in DOMAIN pool'.queue
      PROVE  Tried(pool.queue[i])'
  <2>1. PICK t \in Task : t = pool'.queue[i]
    BY <1>2
  <2>2. Tried(t)
    BY <1>2, <2>1 DEF PoolOK
  <2>3. Tried(t)'
    BY <2>2, TriedStays
  <2>4. QED
    BY <2>1, <2>3 DEF Tried, Said
<1>3. ASSUME NEW k \in Workers, worker'[k].at = "work"
      PROVE  Tried(worker[k].task)'
  <2>1. worker'[k].task \in Task
    BY <1>3 DEF Workings, WorkersFit
  <2>2. PICK t \in Task : t = worker'[k].task
    BY <2>1
  <2>3. Tried(t)
    BY <1>3, <2>2 DEF PoolOK
  <2>4. Tried(t)'
    BY <2>3, TriedStays
  <2>5. QED
    BY <2>2, <2>4 DEF Tried, Said
<1>4. QED
  BY <1>2, <1>3 DEF PoolOK

LEMMA PoolKept ==
    ASSUME TypeInv, [Next]_vars, PoolOK, \A w \in Writers : WriterOK(w)
    PROVE  PoolOK'
<1>0. HistoryGrows /\ TypeOK /\ Workings' /\ pool'.queue \in Seq(Task)
  <2>1. TypeOK /\ TypeInv'
    BY TypesKept DEF TypeInv
  <2>2. Workings'
    BY WorkingsKept
  <2>3. (TypeOK => pool.queue \in Seq(Task))'
    BY QueueTypes, PTL
  <2>4. QED
    BY <2>1, <2>2, <2>3, HistoryKept DEF TypeInv
<1>1. ASSUME UNCHANGED <<pool, worker>>
      PROVE  PoolOK'
  BY <1>0, <1>1, PoolStays
<1>2. ASSUME NEW w \in Writers, Quiet(w)
      PROVE  PoolOK'
  <2>1. UNCHANGED worker
    BY <1>2, QuietDoes
  <2>2. CASE UNCHANGED pool
    BY <1>1, <2>1, <2>2
  <2>3. ASSUME writer[w].at = "enqueue",
               pool' = [pool EXCEPT !.queue = Append(@, [by |-> w, call |-> writer[w].call, msg |-> Mine(w).msg])]
        PROVE  PoolOK'
    <3>1. writer[w].call <= Len(program.calls[w]) /\ Mine(w).do = "WriteMessage"
      BY <2>3, WriterPlaces DEF WriterFits
    <3>2. Mine(w).msg \in Messages /\ Mine(w).msg \in Said(Owner[w]) /\ writer[w].call \in Nat
      BY <3>1, WriterPlaces DEF Data
    <3>3. past[Owner[w]].fault # "no"
      BY <2>3 DEF WriterOK
    <3>4. PICK t : t = [by |-> w, call |-> writer[w].call, msg |-> Mine(w).msg]
      OBVIOUS
    <3>5. t \in Task /\ Tried(t)
      BY <3>2, <3>3, <3>4 DEF Task, Tried
    <3>6. pool'.queue = Append(pool.queue, t) /\ pool.queue \in Seq(Task)
      BY <1>0, <2>3, <3>4, Types
    <3>7. \A i \in DOMAIN pool'.queue :
             (\E j \in DOMAIN pool.queue : pool'.queue[i] = pool.queue[j]) \/ pool'.queue[i] = t
      BY <3>5, <3>6
    <3>8. QED
      BY <1>0, <2>1, <3>5, <3>7, PoolStays
  <2>4. QED
    BY <1>2, <2>2, <2>3, QuietDoes
<1>3. ASSUME NEW w \in Writers, CallStep(w) \/ CallBegins(w)
      PROVE  PoolOK'
  <2>1. CASE ~Quiet(w)
    <3>1. UNCHANGED <<pool, worker>>
      BY <1>3, <2>1, WriteDoes, WriteFailsDoes, WriteControlDoes, ControlFailsDoes, FlushDoes,
         FlushExtraDoes, FlushFailsDoes DEF CallStep, CallBegins, Quiet, Piped
    <3>2. QED
      BY <1>1, <3>1
  <2>2. QED
    BY <1>2, <2>1
<1>4. ASSUME NEW k \in Workers, Works(k), pool'.queue = pool.queue
      PROVE  PoolOK'
  BY <1>0, <1>4, PoolStays DEF Works
<1>5. ASSUME NEW k \in Workers, WorkerWrites(k) \/ WorkerFails(k)
      PROVE  PoolOK'
  BY <1>4, <1>5, WorkerWritesDoes, WorkerFailsDoes
<1>6. CASE PoolQuiet
  <2>1. ASSUME pool'.queue = pool.queue, UNCHANGED worker
        PROVE  PoolOK'
    BY <1>0, <2>1, PoolStays
  <2>2. ASSUME NEW k \in Workers, pool.queue # <<>>, pool'.queue = Tail(pool.queue),
               \A j \in Workers : j # k => worker'[j] = worker[j],
               worker'[k].task = pool.queue[1]
        PROVE  PoolOK'
    <3>1. PICK q \in Seq(Task) : q = pool.queue /\ q # <<>>
      BY <1>0, <2>2, QueueTypes
    <3>2. 1 \in DOMAIN pool.queue
      BY <3>1
    <3>3. \A i \in DOMAIN pool'.queue : \E j \in DOMAIN pool.queue : pool'.queue[i] = pool.queue[j]
      <4>1. \A i \in DOMAIN Tail(q) : i + 1 \in DOMAIN q /\ Tail(q)[i] = q[i + 1]
        BY <3>1
      <4>2. QED
        BY <2>2, <3>1, <4>1
    <3>4. QED
      BY <1>0, <2>2, <3>2, <3>3, PoolStays
  <2>3. QED
    BY <1>4, <1>6, <2>1, <2>2, PoolQuietDoes
<1>7. ASSUME NEW s \in Sides, ReaderStep(s)
      PROVE  UNCHANGED <<pool, worker>>
  BY <1>7, NextReaderDoes, SkipDoes, TakeDataDoes, RefuseDoes, TakeControlDoes, ReplyDoes,
     ReplyFailsDoes, ReplySettledDoes, ReadDoes, TakePieceDoes, EndOfMessageDoes, GarbledDoes,
     EndOfFileDoes DEF ReaderStep, Stays
<1>8. CASE UNCHANGED vars
  BY <1>1, <1>8 DEF vars, pooling
<1>9. QED
  BY <1>1, <1>3, <1>5, <1>6, <1>7, <1>8 DEF Next, WorkerStep, PoolQuiet

-----------------------------------------------------------------------------
(* The reader.                                                               *)

\* A frame out of place was written after a Write that failed.
LEMMA RefusedFault ==
    ASSUME TypeInv, NEW s \in Sides, NEW p, p = Peer(s), Understood(p), Refuse(s)
    PROVE  past[p].fault # "no"
<1>1. /\ AtHeader(s) /\ Misplaced(s, In(s)[1]) /\ Live(s)
      /\ reader[s].at \in {"advance", "loop"}
  BY RefuseDoes DEF AtHeader, Live
<1>2. PICK n, lab : Sent(p, n, lab) /\ AtReader(s, lab[0])
  BY <1>1, Understands
<1>3. In(s) = wire[p] /\ wire[p] \in Seq(Item) /\ wire[p] # <<>> /\ frame[s].rem = 0
  BY <1>1, AtHeaderIs DEF In
<1>4. OutOfPlace(lab[0], wire[p][1]) /\ lab[0].rem = 0
  BY <1>1, <1>2, <1>3 DEF Misplaced, OutOfPlace, AtReader
<1>5. ~CanTake(lab[0], wire[p][1])
  BY <1>4 DEF OutOfPlace, CanTake, Control
<1>6. n \in 0..Len(wire[p]) /\ \A i \in 1..n : CanTake(lab[i - 1], wire[p][i])
  BY <1>2 DEF Sent, Walk
<1>7. n = 0
  <2>1. CASE n > 0
    <3>1. 1 \in 1..n /\ 1 - 1 = 0
      BY <1>6, <2>1
    <3>2. CanTake(lab[0], wire[p][1])
      BY <1>6, <3>1
    <3>3. QED
      BY <1>5, <3>2
  <2>2. QED
    BY <1>6, <2>1
<1>8. n # Len(wire[p]) /\ n + 1 = 1
  BY <1>3, <1>7
<1>9. QED
  BY <1>2, <1>8 DEF Sent, Outcome

\* What a reader takes for something else was cut off by a failed Write.
LEMMA GarbledFault ==
    ASSUME TypeInv, NEW s \in Sides, NEW p, p = Peer(s), Understood(p), Garbled(s)
    PROVE  past[p].fault = "torn"
<1>1. /\ Unexpected(s) /\ Live(s) /\ In(s) # <<>> /\ In(s)[1] \in Item /\ Head(In(s)) = In(s)[1]
  BY GarbledDoes DEF Live
<1>2. PICK n, lab : Sent(p, n, lab) /\ AtReader(s, lab[0])
  BY <1>1, Understands
<1>3. In(s) = wire[p]
  BY DEF In
<1>a. wire[p] \in Seq(Item) /\ frame[s].rem \in Nat
  BY Types, Peers, ReaderPlaces DEF TypeInv
<1>4. PICK x \in Item : x = wire[p][1]
  BY <1>1, <1>3
<1>5. /\ lab[0].rem = frame[s].rem
      /\ (x.op = "payload" /\ lab[0].rem = 0) \/ x.op = "torn" \/ (x.op \notin {"payload", "torn"} /\ lab[0].rem > 0)
  BY <1>1, <1>2, <1>3, <1>4, <1>a DEF Unexpected, AtReader
<1>6. ~CanTake(lab[0], x)
  BY <1>5, <1>a DEF CanTake, Control
<1>7. n \in 0..Len(wire[p]) /\ \A i \in 1..n : CanTake(lab[i - 1], wire[p][i])
  BY <1>2 DEF Sent, Walk
<1>8. n = 0
  <2>1. CASE n > 0
    <3>1. 1 \in 1..n /\ 1 - 1 = 0
      BY <1>7, <2>1
    <3>2. CanTake(lab[0], wire[p][1])
      BY <1>7, <3>1
    <3>3. QED
      BY <1>4, <1>6, <3>2
  <2>2. QED
    BY <1>7, <2>1
<1>9. n # Len(wire[p]) /\ n + 1 = 1
  BY <1>1, <1>3, <1>8, <1>a
<1>10. Blocks(lab[0], x) /\ (past[p].fault # "torn" => lab[0].rem = 0 /\ OutOfPlace(lab[0], x))
  BY <1>2, <1>4, <1>8, <1>9 DEF Sent, Outcome
<1>11. QED
  BY <1>5, <1>10, <1>a DEF Blocks, OutOfPlace

\* A reader that is left alone.
LEMMA ReaderOKSame ==
    ASSUME HistoryGrows, NEW s \in Sides, ReaderOK(s),
           reader'[s] = reader[s], readErr'[s] = readErr[s], delivered'[s] = delivered[s],
           Undisturbed(s) /\ messageReader[s] => messageReader'[s]
    PROVE  ReaderOK(s)'
<1>1. program' = program /\ (Undisturbed(s))' = Undisturbed(s)
  BY HypothesesSame DEF HistoryGrows
<1>2. Grows(Peer(s)) /\ Peer(s)' = Peer(s)
  BY Peers DEF HistoryGrows, Peer
<1>3. QED
  BY <1>1, <1>2 DEF ReaderOK, Reports, InMessage, Is, Grows, Peer

LEMMA WritersLetRead ==
    ASSUME TypeInv, [Next]_vars, NEW w \in Writers, CallStep(w) \/ CallBegins(w),
           NEW s \in Sides, ReaderOK(s)
    PROVE  ReaderOK(s)'
<1>1. readErr' = readErr /\ reader' = reader /\ delivered' = delivered
  BY WriterReads DEF Reads
<1>2. Undisturbed(s) /\ messageReader[s] => messageReader'[s]
  <2>1. ASSUME EndMessage(w) \/ Close(w), Owner[w] = s
        PROVE  ~Undisturbed(s)
    <3>1. writer[w].call <= Len(program.calls[w]) /\ Mine(w).do \in {"NextWriter", "Close"}
      <4>1. CASE EndMessage(w)
        <5>1. writer[w].at = "end" /\ writer[w].call <= Len(program.calls[w])
          BY <4>1 DEF EndMessage, At
        <5>2. QED
          BY <5>1, WriterPlaces DEF WriterFits
      <4>2. CASE Close(w)
        BY <4>2 DEF Close, Calls, At
      <4>3. QED
        BY <2>1, <4>1, <4>2
    <3>2. writer[w].call \in DOMAIN program.calls[w]
      BY <3>1, WriterPlaces
    <3>3. QED
      BY <2>1, <3>1, <3>2 DEF Undisturbed, Says, Mine
  <2>2. CASE EndMessage(w) \/ Close(w)
    <3>1. messageReader \in [Sides -> BOOLEAN] /\ messageReader' = [messageReader EXCEPT ![Owner[w]] = FALSE]
      BY <2>2, Types DEF TypeInv, EndMessage, Close
    <3>2. QED
      BY <2>1, <2>2, <3>1
  <2>3. CASE ~(EndMessage(w) \/ Close(w))
    <3>1. messageReader' = messageReader
      BY <2>3 DEF CallStep, CallBegins, Write, WriteFails, Settled, Flush, FlushExtra, FlushFails,
                  Submit, Enqueue, WaitEnds, Check, WriteControl, ControlFails, NextWriter, reading
    <3>2. QED
      BY <3>1
  <2>4. QED
    BY <2>2, <2>3
<1>3. HistoryGrows
  BY HistoryKept
<1>4. QED
  BY <1>1, <1>2, <1>3, ReaderOKSame

LEMMA PoolLetsRead ==
    ASSUME TypeInv, [Next]_vars, NEW s \in Sides, ReaderOK(s),
           PoolQuiet \/ \E k \in Workers : WorkerWrites(k) \/ WorkerFails(k)
    PROVE  ReaderOK(s)'
<1>1. readErr' = readErr /\ reader' = reader /\ delivered' = delivered
  BY PoolReads DEF Reads
<1>2. messageReader' = messageReader
  BY DEF PoolQuiet, WorkerChecks, WorkerTakes, WorkerLeaves, CleanupPools, CloseTasks, PoolGone,
         WorkerWrites, WorkerFails, reading
<1>3. HistoryGrows
  BY HistoryKept
<1>4. QED
  BY <1>1, <1>2, <1>3, ReaderOKSame

\* What a reader's step leaves of another reader.
LEMMA OthersRead ==
    ASSUME TypeInv, NEW q \in Sides, ReaderStep(q), NEW s \in Sides, s # q
    PROVE  /\ reader'[s] = reader[s] /\ readErr'[s] = readErr[s] /\ delivered'[s] = delivered[s]
           /\ frame'[s] = frame[s] /\ (messageReader[s] => messageReader'[s])
<1>1. readErr \in [Sides -> Ends \cup {None}] /\ messageReader \in [Sides -> BOOLEAN]
  BY Types DEF TypeInv
<1>2. CASE NextReader(q) \/ Skip(q) \/ TakeData(q) \/ Refuse(q) \/ TakeControl(q)
  BY <1>1, <1>2, NextReaderDoes, SkipDoes, TakeDataDoes, RefuseDoes, TakeControlDoes
  DEF Steps, Moves, Framed
<1>3. CASE Reply(q) \/ ReplyFails(q) \/ ReplySettled(q)
  BY <1>1, <1>3, ReplyDoes, ReplyFailsDoes, ReplySettledDoes DEF Resumed, Ended, Steps, Moves
<1>4. CASE Read(q) \/ EndOfMessage(q)
  BY <1>1, <1>4, ReadDoes, EndOfMessageDoes DEF Steps, Moves, Gains
<1>5. CASE TakePiece(q)
  <2>1. PICK n \in Nat :
           /\ Framed(q, frame[q].rem - n, frame[q].final, frame[q].length)
           /\ \/ Gains(q, reader[q].msg, n) /\ Steps(q, "next")
              \/ /\ UNCHANGED delivered
                 /\ Moves(q, "Read", reader[q].msg, reader[q].got + n, reader[q].op, reader[q].after)
    BY <1>5, TakePieceDoes
  <2>2. UNCHANGED <<readErr, messageReader>>
    BY <1>5, TakePieceDoes
  <2>3. QED
    BY <2>1, <2>2 DEF Steps, Moves, Gains, Framed
<1>6. CASE Garbled(q) \/ EndOfFile(q)
  BY <1>1, <1>6, GarbledDoes, EndOfFileDoes DEF Ended, Steps, Moves
<1>7. QED
  BY <1>2, <1>3, <1>4, <1>5, <1>6 DEF ReaderStep

\* The errors of a reader that goes on, or ends with one it has reported.
LEMMA ErrorsKept ==
    ASSUME HistoryGrows, NEW s \in Sides, ReaderOK(s),
           reader'[s].at # "ended" => readErr'[s] = None,
           \A e \in {"protocol", "garbled"} : Reports(s, e)' => Reports(s, e)
    PROVE  /\ reader'[s].at # "ended" => readErr'[s] = None
           /\ Reports(s, "protocol")' => past'[Peer(s)].fault # "no"
           /\ Reports(s, "garbled")' => past'[Peer(s)].fault = "torn"
<1>1. Grows(Peer(s))
  BY Peers DEF HistoryGrows
<1>2. QED
  BY <1>1 DEF ReaderOK, Grows

\* The places of a reader that is not in a message, or still in the same one.
LEMMA PlacesKept ==
    ASSUME HistoryGrows, NEW s \in Sides, ReaderOK(s),
           program.reads[s] = "NextReader" => delivered'[s] = delivered[s],
           InMessage(s)' => /\ InMessage(s) /\ (messageReader[s] => messageReader'[s])
                            /\ program.reads[s] = "ReadMessage" => reader'[s].got = reader[s].got
    PROVE  /\ program'.reads[s] = "NextReader" => ~InMessage(s)' /\ delivered'[s] = <<>>
           /\ Undisturbed(s)' /\ InMessage(s)' => messageReader'[s]
           /\ program'.reads[s] = "ReadMessage" /\ InMessage(s)' => reader'[s].got = 0
<1>1. program' = program /\ (Undisturbed(s))' = Undisturbed(s)
  BY HypothesesSame DEF HistoryGrows
<1>2. QED
  BY <1>1 DEF ReaderOK

LEMMA ReaderOKParts ==
    ASSUME NEW s,
           reader'[s].at # "ended" => readErr'[s] = None,
           Reports(s, "protocol")' => past'[Peer(s)].fault # "no",
           Reports(s, "garbled")' => past'[Peer(s)].fault = "torn",
           program'.reads[s] = "NextReader" => ~InMessage(s)' /\ delivered'[s] = <<>>,
           Undisturbed(s)' /\ InMessage(s)' => messageReader'[s],
           program'.reads[s] = "ReadMessage" /\ InMessage(s)' => reader'[s].got = 0
    PROVE  ReaderOK(s)'
BY DEF ReaderOK, Peer

LEMMA ReaderGoesOn ==
    ASSUME HistoryGrows, NEW s \in Sides, ReaderOK(s),
           reader'[s].at # "ended" => readErr'[s] = None,
           \A e \in {"protocol", "garbled"} : Reports(s, e)' => Reports(s, e),
           program.reads[s] = "NextReader" => delivered'[s] = delivered[s],
           InMessage(s)' => /\ InMessage(s) /\ (messageReader[s] => messageReader'[s])
                            /\ program.reads[s] = "ReadMessage" => reader'[s].got = reader[s].got
    PROVE  ReaderOK(s)'
BY ErrorsKept, PlacesKept, ReaderOKParts

\* The steps of a reader that reports an error, or begins a message.
LEMMA ReaderMoves ==
    ASSUME TypeInv, [Next]_vars, NEW s \in Sides, ReaderOK(s), NEW p, p = Peer(s), Understood(p),
           TakeData(s) \/ Refuse(s) \/ Garbled(s)
    PROVE  ReaderOK(s)'
<1>1. HistoryGrows /\ Undisturbed(s)' = Undisturbed(s) /\ program' = program
  BY HistoryKept, HypothesesSame DEF HistoryGrows
<1>2. readErr[s] \in Ends \cup {None} /\ None \notin Ends /\ readErr \in [Sides -> Ends \cup {None}]
  BY Types, ConnAssumption DEF TypeInv
<1>3. CASE TakeData(s)
  <2>1. PICK h \in Item : h = In(s)[1]
    BY <1>3, TakeDataDoes, AtHeaderIs
  <2>2. /\ UNCHANGED <<readErr, delivered>> /\ reader[s].at \in {"advance", "loop"}
        /\ messageReader[s] => messageReader'[s]
        /\ \/ Moves(s, "reply", h.msg, reader[s].got, "close", "limit")
           \/ /\ Moves(s, IF program.reads[s] = "NextReader" THEN "next" ELSE "Read", h.msg, 0,
                       reader[s].op, reader[s].after)
              /\ messageReader'[s]
           \/ reader' = reader
    BY <1>3, <2>1, TakeDataDoes, AtHeaderIs
  <2>3. CASE reader' = reader
    BY <1>1, <2>2, <2>3, ReaderOKSame
  <2>4. CASE Moves(s, "reply", h.msg, reader[s].got, "close", "limit")
    <3>1. ~InMessage(s)' /\ reader'[s].at # "ended" /\ readErr'[s] = None
      BY <2>2, <2>4 DEF Moves, InMessage, Is, ReaderOK
    <3>2. \A e \in {"protocol", "garbled"} : ~Reports(s, e)'
      BY <1>2, <2>4, <3>1 DEF Moves, Reports, Ends
    <3>3. QED
      BY <1>1, <2>2, <3>1, <3>2, ReaderGoesOn
  <2>5. ASSUME Moves(s, IF program.reads[s] = "NextReader" THEN "next" ELSE "Read", h.msg, 0,
                     reader[s].op, reader[s].after),
               messageReader'[s]
        PROVE  ReaderOK(s)'
    <3>1. /\ reader'[s].at \in {"next", "Read"} /\ readErr'[s] = None /\ reader'[s].got = 0
          /\ program.reads[s] = "NextReader" => reader'[s].at = "next"
      BY <2>2, <2>5 DEF Moves, ReaderOK
    <3>2. \A e \in {"protocol", "garbled"} : ~Reports(s, e)'
      BY <1>2, <3>1 DEF Reports, Ends
    <3>3. program.reads[s] = "NextReader" => ~InMessage(s)' /\ delivered'[s] = <<>>
      BY <2>2, <3>1 DEF InMessage, Is, ReaderOK
    <3>4. QED
      BY <1>1, <2>5, <3>1, <3>2, <3>3, ReaderOKParts
  <2>6. QED
    BY <2>2, <2>3, <2>4, <2>5
<1>4. CASE Refuse(s)
  <2>1. /\ UNCHANGED <<readErr, delivered, past>> /\ reader[s].at \in {"advance", "loop"}
        /\ Moves(s, "reply", reader[s].msg, reader[s].got, "close", "protocol")
    BY <1>4, RefuseDoes DEF AtHeader
  <2>2. ~InMessage(s)' /\ reader'[s].at # "ended" /\ readErr'[s] = None
    BY <2>1 DEF Moves, InMessage, Is, ReaderOK
  <2>3. past'[Peer(s)].fault # "no"
    BY <1>4, <2>1, RefusedFault
  <2>4. ~Reports(s, "garbled")'
    BY <1>2, <2>1, <2>2 DEF Moves, Reports, Ends
  <2>5. program.reads[s] = "NextReader" => delivered'[s] = <<>>
    BY <2>1 DEF ReaderOK
  <2>6. QED
    BY <1>1, <2>2, <2>3, <2>4, <2>5, ReaderOKParts
<1>5. CASE Garbled(s)
  <2>1. UNCHANGED <<delivered, past>> /\ Ended(s, "garbled")
    BY <1>5, GarbledDoes
  <2>2. reader'[s].at = "ended" /\ readErr'[s] = "garbled"
    BY <1>2, <2>1 DEF Ended, Steps, Moves
  <2>3. ~InMessage(s)' /\ ~Reports(s, "protocol")'
    BY <2>2 DEF InMessage, Is, Reports
  <2>4. past'[Peer(s)].fault = "torn"
    BY <1>5, <2>1, GarbledFault
  <2>5. program.reads[s] = "NextReader" => delivered'[s] = <<>>
    BY <2>1 DEF ReaderOK
  <2>6. QED
    BY <1>1, <2>2, <2>3, <2>4, <2>5, ReaderOKParts
<1>6. QED
  BY <1>3, <1>4, <1>5

LEMMA ReaderGoing ==
    ASSUME TypeInv, [Next]_vars, NEW s \in Sides, ReaderOK(s),
           NextReader(s) \/ Skip(s) \/ TakeControl(s) \/ Read(s) \/ TakePiece(s) \/ EndOfMessage(s)
           \/ EndOfFile(s)
    PROVE  ReaderOK(s)'
<1>1. HistoryGrows
  BY HistoryKept
<1>2. /\ readErr[s] \in Ends \cup {None} /\ None \notin Ends /\ readErr \in [Sides -> Ends \cup {None}]
      /\ messageReader \in [Sides -> BOOLEAN]
  BY Types, ConnAssumption DEF TypeInv
<1>3. CASE NextReader(s)
  <2>1. UNCHANGED <<readErr, delivered>> /\ reader[s].at = "next" /\ Steps(s, "advance")
    BY <1>3, NextReaderDoes
  <2>2. reader'[s].at = "advance" /\ readErr'[s] = None
    BY <2>1 DEF Steps, Moves, ReaderOK
  <2>3. ~InMessage(s)' /\ \A e \in {"protocol", "garbled"} : ~Reports(s, e)'
    BY <1>2, <2>2 DEF InMessage, Is, Reports, Ends
  <2>4. QED
    BY <1>1, <2>1, <2>2, <2>3, ReaderGoesOn
<1>4. CASE Skip(s)
  <2>1. UNCHANGED <<readErr, messageReader, reader, delivered>>
    BY <1>4, SkipDoes
  <2>2. QED
    BY <1>1, <2>1, ReaderOKSame
<1>5. CASE TakeControl(s)
  <2>1. /\ UNCHANGED <<readErr, messageReader, delivered>> /\ reader[s].at \in {"advance", "loop"}
        /\ \/ reader' = reader
           \/ Moves(s, "reply", reader[s].msg, reader[s].got, "pong", reader[s].at)
           \/ Moves(s, "reply", reader[s].msg, reader[s].got, "close", "close")
    BY <1>5, TakeControlDoes DEF AtHeader
  <2>2. CASE reader' = reader
    BY <1>1, <2>1, <2>2, ReaderOKSame
  <2>3. ASSUME NEW op, NEW after \in {reader[s].at, "close"},
               Moves(s, "reply", reader[s].msg, reader[s].got, op, after)
        PROVE  ReaderOK(s)'
    <3>1. /\ reader'[s].at = "reply" /\ reader'[s].after = after /\ readErr'[s] = None
          /\ reader'[s].got = reader[s].got
      BY <2>1, <2>3 DEF Moves, ReaderOK
    <3>2. \A e \in {"protocol", "garbled"} : ~Reports(s, e)'
      BY <1>2, <2>1, <3>1 DEF Reports, Ends
    <3>3. InMessage(s)' => InMessage(s)
      BY <2>1, <3>1 DEF InMessage, Is
    <3>4. QED
      BY <1>1, <2>1, <3>1, <3>2, <3>3, ReaderGoesOn
  <2>4. QED
    BY <2>1, <2>2, <2>3
<1>6. CASE Read(s)
  <2>1. UNCHANGED <<readErr, messageReader>> /\ reader[s].at = "Read" /\ InMessage(s)
    BY <1>6, ReadDoes DEF InMessage
  <2>2. program.reads[s] # "NextReader"
    BY <2>1 DEF ReaderOK
  <2>3. /\ reader'[s].at \in {"loop", "next"} /\ readErr'[s] = None /\ reader'[s].got = reader[s].got
    BY <1>6, <2>1, ReadDoes DEF Steps, Moves, ReaderOK
  <2>4. \A e \in {"protocol", "garbled"} : ~Reports(s, e)'
    BY <1>2, <2>3 DEF Reports, Ends
  <2>5. QED
    BY <1>1, <2>1, <2>2, <2>3, <2>4, ReaderGoesOn
<1>7. CASE TakePiece(s)
  <2>1. /\ UNCHANGED <<readErr, messageReader>> /\ reader[s].at = "loop" /\ InMessage(s)
        /\ \E n \in Nat :
              IF program.reads[s] = "ReadMessage"
              THEN Gains(s, reader[s].msg, n) /\ Steps(s, "next")
              ELSE /\ UNCHANGED delivered
                   /\ Moves(s, "Read", reader[s].msg, reader[s].got + n, reader[s].op, reader[s].after)
    BY <1>7, TakePieceDoes DEF InMessage, Is
  <2>2. program.reads[s] # "NextReader"
    BY <2>1 DEF ReaderOK
  <2>3. /\ reader'[s].at \in {"Read", "next"} /\ readErr'[s] = None
        /\ program.reads[s] = "ReadMessage" => reader'[s].at = "next"
    BY <2>1 DEF Steps, Moves, ReaderOK
  <2>4. \A e \in {"protocol", "garbled"} : ~Reports(s, e)'
    BY <1>2, <2>3 DEF Reports, Ends
  <2>5. InMessage(s)' => program.reads[s] # "ReadMessage"
    BY <2>3 DEF InMessage, Is
  <2>6. QED
    BY <1>1, <2>1, <2>2, <2>3, <2>4, <2>5, ReaderGoesOn
<1>8. CASE EndOfMessage(s)
  <2>1. UNCHANGED readErr /\ reader[s].at = "loop" /\ Steps(s, "next")
    BY <1>8, EndOfMessageDoes
  <2>2. program.reads[s] # "NextReader"
    BY <2>1 DEF ReaderOK, InMessage, Is
  <2>3. reader'[s].at = "next" /\ readErr'[s] = None
    BY <2>1 DEF Steps, Moves, ReaderOK
  <2>4. ~InMessage(s)' /\ \A e \in {"protocol", "garbled"} : ~Reports(s, e)'
    BY <1>2, <2>3 DEF InMessage, Is, Reports, Ends
  <2>5. QED
    BY <1>1, <2>2, <2>3, <2>4, ReaderGoesOn
<1>9. CASE EndOfFile(s)
  <2>1. UNCHANGED delivered /\ Ended(s, "eof")
    BY <1>9, EndOfFileDoes
  <2>2. reader'[s].at = "ended" /\ readErr'[s] = "eof"
    BY <1>2, <2>1 DEF Ended, Steps, Moves
  <2>3. ~InMessage(s)' /\ \A e \in {"protocol", "garbled"} : ~Reports(s, e)'
    BY <2>2 DEF InMessage, Is, Reports
  <2>4. QED
    BY <1>1, <2>1, <2>2, <2>3, ReaderGoesOn
<1>10. QED
  BY <1>3, <1>4, <1>5, <1>6, <1>7, <1>8, <1>9

LEMMA ReaderReplies ==
    ASSUME TypeInv, [Next]_vars, NEW s \in Sides, ReaderOK(s),
           Reply(s) \/ ReplyFails(s) \/ ReplySettled(s)
    PROVE  ReaderOK(s)'
<1>1. HistoryGrows
  BY HistoryKept
<1>2. /\ readErr \in [Sides -> Ends \cup {None}] /\ None \notin Ends
      /\ reader[s].after \in {"advance", "loop"} \cup Ends => ~(reader[s].after \in Ends /\ reader[s].after \in {"advance", "loop"})
  BY Types, ConnAssumption DEF TypeInv, Ends
<1>3. /\ UNCHANGED <<messageReader, delivered>> /\ reader[s].at \in {"reply", "settle"}
      /\ Resumed(s) \/ (Steps(s, "settle") /\ UNCHANGED readErr)
  BY ReplyDoes, ReplyFailsDoes, ReplySettledDoes
<1>4. readErr[s] = None
  BY <1>3 DEF ReaderOK
<1>5. CASE Steps(s, "settle") /\ UNCHANGED readErr
  <2>1. reader'[s].at = "settle" /\ reader'[s].after = reader[s].after /\ reader'[s].got = reader[s].got
    BY <1>5 DEF Steps, Moves
  <2>2. InMessage(s)' => InMessage(s)
    BY <1>3, <2>1 DEF InMessage, Is
  <2>3. \A e \in {"protocol", "garbled"} : Reports(s, e)' => Reports(s, e)
    BY <1>3, <1>5, <2>1 DEF Reports
  <2>4. QED
    BY <1>1, <1>3, <1>4, <1>5, <2>1, <2>2, <2>3, ReaderGoesOn
<1>6. CASE reader[s].after \in Ends /\ Ended(s, reader[s].after)
  <2>1. reader'[s].at = "ended" /\ readErr'[s] = reader[s].after
    BY <1>2, <1>6 DEF Ended, Steps, Moves
  <2>2. ~InMessage(s)'
    BY <2>1 DEF InMessage, Is
  <2>3. \A e \in {"protocol", "garbled"} : Reports(s, e)' => Reports(s, e)
    BY <1>3, <2>1 DEF Reports
  <2>4. QED
    BY <1>1, <1>3, <2>1, <2>2, <2>3, ReaderGoesOn
<1>7. CASE reader[s].after \in {"advance", "loop"} /\ Steps(s, reader[s].after) /\ UNCHANGED readErr
  <2>1. reader'[s].at = reader[s].after /\ reader'[s].got = reader[s].got /\ readErr'[s] = None
    BY <1>4, <1>7 DEF Steps, Moves
  <2>2. InMessage(s)' => InMessage(s)
    BY <1>3, <1>7, <2>1 DEF InMessage, Is
  <2>3. \A e \in {"protocol", "garbled"} : ~Reports(s, e)'
    BY <1>2, <1>7, <2>1 DEF Reports, Ends
  <2>4. QED
    BY <1>1, <1>3, <2>1, <2>2, <2>3, ReaderGoesOn
<1>8. QED
  BY <1>3, <1>5, <1>6, <1>7 DEF Resumed

LEMMA ReadersKept ==
    ASSUME TypeInv, [Next]_vars, \A s \in Sides : ReaderOK(s) /\ Understood(s)
    PROVE  \A s \in Sides : ReaderOK(s)'
<1> SUFFICES ASSUME NEW s \in Sides
             PROVE  ReaderOK(s)'
  OBVIOUS
<1>1. HistoryGrows /\ ReaderOK(s)
  BY HistoryKept
<1>2. CASE UNCHANGED vars
  BY <1>1, <1>2, ReaderOKSame DEF vars, reading
<1>3. ASSUME NEW w \in Writers, CallStep(w) \/ CallBegins(w)
      PROVE  ReaderOK(s)'
  BY <1>1, <1>3, WritersLetRead
<1>4. ASSUME PoolQuiet \/ \E k \in Workers : WorkerWrites(k) \/ WorkerFails(k)
      PROVE  ReaderOK(s)'
  BY <1>1, <1>4, PoolLetsRead
<1>5. ASSUME NEW q \in Sides, ReaderStep(q), q # s
      PROVE  ReaderOK(s)'
  BY <1>1, <1>5, OthersRead, ReaderOKSame
<1>6. ASSUME ReaderStep(s)
      PROVE  ReaderOK(s)'
  <2>1. Peer(s) \in Sides /\ Understood(Peer(s))
    BY Peers
  <2>2. QED
    BY <1>1, <1>6, <2>1, ReaderMoves, ReaderGoing, ReaderReplies DEF ReaderStep
<1>7. QED
  BY <1>2, <1>3, <1>4, <1>5, <1>6 DEF Next, WorkerStep, PoolQuiet

-----------------------------------------------------------------------------
(* The invariant.                                                            *)

IndInv == /\ TypeInv /\ Orderly /\ PoolOK
          /\ \A w \in Writers : WriterOK(w)
          /\ \A s \in Sides : ReaderOK(s) /\ Understood(s)

LEMMA WalkBegins ==
    ASSUME Init, NEW p \in Sides
    PROVE  Understood(p)
<1> DEFINE l == [rem |-> 0, fin |-> TRUE, of |-> None, units |-> 0, done |-> 0]
           lab == [i \in 0..0 |-> l]
<1>1. l \in Label /\ l.rem = 0 /\ l.fin /\ l.of = None /\ l.units = 0 /\ l.done = 0
  BY DEF Label
<1> HIDE DEF l
<1>2. lab \in [0..0 -> Label] /\ lab[0] = l
  BY <1>1
<1> HIDE DEF lab
<1>3. wire[p] = <<>> /\ wrote[p] = <<>> /\ past[p].fault = "no" /\ \A w \in Writers : ~Open(p, w)
  BY DEF Init, Open
<1>4. Sound(p, wrote[p], l)
  BY <1>1, <1>3 DEF Sound
<1>5. Walk(p, wrote[p], wire[p], 0, lab)
  BY <1>2, <1>3, <1>4 DEF Walk
<1>6. AtWriters(p, l)
  BY <1>1, <1>3 DEF AtWriters
<1>7. Sent(p, 0, lab)
  BY <1>2, <1>3, <1>5, <1>6 DEF Sent, Outcome
<1>8. PICK s \in Sides : s = Peer(p)
  BY Peers
<1>9. /\ frame[s].rem = 0 /\ frame[s].final /\ frame[s].length = 0 /\ delivered[s] = <<>>
      /\ reader[s].at = "next"
  BY DEF Init
<1>10. AtReader(s, lab[0])
  BY <1>1, <1>2, <1>9 DEF AtReader, InMessage, BetweenMessages, Is
<1>11. QED
  BY <1>7, <1>8, <1>10 DEF Understood

LEMMA InvBegins ==
    ASSUME Init, Orderly
    PROVE  IndInv
<1>1. TypeInv
  BY TypesInit
<1>2. PoolOK
  BY DEF Init, PoolOK, NewWorkerPool
<1>3. \A w \in Writers : WriterOK(w)
  BY DEF Init, WriterOK
<1>4. \A s \in Sides : ReaderOK(s)
  <2> SUFFICES ASSUME NEW s \in Sides
               PROVE  ReaderOK(s)
    OBVIOUS
  <2>1. reader[s].at = "next" /\ readErr[s] = None /\ delivered[s] = <<>> /\ None \notin Ends
    BY ConnAssumption DEF Init
  <2>2. QED
    BY <2>1 DEF ReaderOK, Reports, InMessage, Is, Ends
<1>5. QED
  BY <1>1, <1>2, <1>3, <1>4, WalkBegins DEF IndInv

LEMMA AllUnderstood ==
    ASSUME IndInv, [Next]_vars, NEW p \in Sides
    PROVE  Understood(p)'
<1>1. TypeInv /\ Orderly /\ PoolOK /\ Understood(p)
  BY DEF IndInv
<1>2. CASE UNCHANGED vars
  <2>1. /\ program' = program /\ UNCHANGED <<wire, writer, wrote, past>>
        /\ frame' = frame /\ reader' = reader /\ delivered' = delivered
    BY <1>2 DEF vars, reading
  <2>2. KeepsOpen(p) /\ LosesNone(p)
    BY <1>1, <2>1, WritersSame
  <2>3. \A n, lab : Sent(p, n, lab) => GoesOn(p, n, lab)
    <3> SUFFICES ASSUME NEW n, NEW lab, Sent(p, n, lab)
                 PROVE  GoesOn(p, n, lab)
      OBVIOUS
    <3>1. Sent(p, n, lab)'
      BY <1>1, <2>1, <2>2, SentSame DEF Faults
    <3>2. QED
      BY <3>1 DEF GoesOn
  <2>4. PICK s : s = Peer(p)
    OBVIOUS
  <2>5. SamePlace(s)
    BY <2>1, PlaceKept
  <2>6. QED
    BY <1>1, <2>1, <2>3, <2>4, <2>5, UnderstoodOn
<1>3. ASSUME NEW w \in Writers, CallStep(w) \/ CallBegins(w)
      PROVE  Understood(p)'
  <2>1. WriterOK(w)
    BY DEF IndInv
  <2>2. QED
    BY <1>1, <1>3, <2>1, WriterUnderstood
<1>4. ASSUME PoolQuiet \/ \E k \in Workers : WorkerWrites(k) \/ WorkerFails(k)
      PROVE  Understood(p)'
  BY <1>1, <1>4, PoolUnderstood
<1>5. ASSUME NEW s \in Sides, ReaderStep(s)
      PROVE  Understood(p)'
  <2>1. ReaderOK(s)
    BY DEF IndInv
  <2>2. QED
    BY <1>1, <1>5, <2>1, ReplyUnderstood, ReadingUnderstood DEF ReaderStep, Reading
<1>6. QED
  BY <1>2, <1>3, <1>4, <1>5 DEF Next, WorkerStep, PoolQuiet

LEMMA InvKept == IndInv /\ [Next]_vars => IndInv'
<1> SUFFICES ASSUME IndInv, [Next]_vars
             PROVE  IndInv'
  OBVIOUS
<1>1. /\ TypeInv /\ Orderly /\ PoolOK /\ \A w \in Writers : WriterOK(w)
      /\ \A s \in Sides : ReaderOK(s) /\ Understood(s)
  BY DEF IndInv
<1>2. Orderly'
  BY <1>1, HistoryKept DEF HistoryGrows, Orderly, Says, Unbuffered
<1>3. TypeInv' /\ PoolOK'
  BY <1>1, TypesKept, PoolKept
<1>4. \A w \in Writers : WriterOK(w)'
  BY <1>1, WritersKept
<1>5. \A s \in Sides : ReaderOK(s)'
  BY <1>1, ReadersKept
<1>6. \A s \in Sides : Understood(s)'
  BY AllUnderstood
<1>7. QED
  BY <1>2, <1>3, <1>4, <1>5, <1>6 DEF IndInv

LEMMA AlwaysInv == Spec /\ Orderly => []IndInv
<1>1. Init /\ Orderly => IndInv
  BY InvBegins
<1>2. QED
  BY <1>1, InvKept, PTL DEF Spec

\* What the frames of concurrent writers, replies and tries of the pool make of the wire,
\* an end parses (conn.go:361, 883-954, 799-835), when one goroutine at a time writes
\* messages in several frames and its headers do not go out by themselves: only after
\* a Write that failed it reads a frame out of place, or a payload as a header.
THEOREM ParsesFrames == Spec /\ Orderly => []FramesParse
<1>1. IndInv => FramesParse
  BY DEF IndInv, ReaderOK, Reports, FramesParse
<1>2. QED
  BY <1>1, AlwaysInv, PTL

-----------------------------------------------------------------------------
(* The limit.                                                                *)

LEMMA TooLongMore ==
    ASSUME NEW n \in Nat, NEW k \in Nat, n <= k, TooLong(n)
    PROVE  TooLong(k)
BY ConnAssumption DEF TooLong

LEMMA LimitSame ==
    ASSUME NEW s \in Sides, LimitOK(s), SamePlace(s), frame'[s] = frame[s], delivered'[s] = delivered[s]
    PROVE  LimitOK(s)'
BY DEF LimitOK, SamePlace, TooLong

\* Where a reader is not in a message only what it has delivered counts.
LEMMA LimitOutside ==
    ASSUME NEW s \in Sides, LimitOK(s), ~InMessage(s)', delivered'[s] = delivered[s]
    PROVE  LimitOK(s)'
BY DEF LimitOK, TooLong

LEMMA LimitGains ==
    ASSUME TypeInv, NEW s \in Sides, LimitOK(s), InMessage(s), NEW n \in Nat, NEW m,
           n <= reader[s].got + frame[s].rem, Gains(s, m, n), ~InMessage(s)'
    PROVE  LimitOK(s)'
<1>1. PICK len \in Nat : len = frame[s].length /\ n <= len /\ ~TooLong(len)
  BY ReaderPlaces DEF LimitOK
<1>2. ~TooLong(n)
  BY <1>1, TooLongMore
<1>3. PICK d \in Seq(Deliveries) : d = delivered[s]
  BY Types DEF TypeInv
<1>4. PICK x : x = [msg |-> m, units |-> n]
  OBVIOUS
<1>5. delivered'[s] = Append(d, x) /\ x.units = n
  BY <1>3, <1>4 DEF Gains
<1>6. ASSUME NEW i \in DOMAIN delivered'[s]
      PROVE  ~TooLong(delivered'[s][i].units)
  <2>1. Append(d, x)[i] = IF i = Len(d) + 1 THEN x ELSE d[i]
    BY <1>3, <1>5, <1>6
  <2>2. CASE i = Len(d) + 1
    BY <1>2, <1>5, <2>1, <2>2
  <2>3. CASE i # Len(d) + 1
    <3>1. i \in DOMAIN d
      BY <1>3, <1>5, <1>6, <2>3
    <3>2. QED
      BY <1>3, <1>5, <2>1, <2>3, <3>1 DEF LimitOK
  <2>4. QED
    BY <2>2, <2>3
<1>7. QED
  BY <1>6 DEF LimitOK, TooLong

LEMMA LimitReading ==
    ASSUME TypeInv, NEW s \in Sides, Reading(s), LimitOK(s)
    PROVE  LimitOK(s)'
<1>1. CASE NextReader(s)
  <2>1. reader'[s].at = "advance" /\ UNCHANGED delivered
    BY <1>1, NextReaderDoes DEF Steps, Moves
  <2>2. ~InMessage(s)'
    BY <2>1 DEF InMessage, Is
  <2>3. QED
    BY <2>1, <2>2, LimitOutside
<1>2. CASE Skip(s)
  <2>1. UNCHANGED <<reader, delivered>> /\ reader[s].at = "advance"
    BY <1>2, SkipDoes
  <2>2. ~InMessage(s)'
    BY <2>1 DEF InMessage, Is
  <2>3. QED
    BY <2>1, <2>2, LimitOutside
<1>3. CASE TakeData(s)
  <2>1. PICK x \in Item : x = In(s)[1]
    BY <1>3, AtHeaderIs, TakeDataDoes
  <2>2. PICK len \in Nat : len = frame[s].length + x.len /\ x.len \in Nat /\ x.fin \in BOOLEAN
    BY <2>1, ReaderPlaces DEF Item
  <2>3. /\ UNCHANGED delivered /\ AtHeader(s) /\ x.op \in {"data", "cont"} /\ Framed(s, x.len, x.fin, len)
        /\ TooLong(len) => Moves(s, "reply", x.msg, reader[s].got, "close", "limit")
        /\ ~TooLong(len) /\ x.op = "data" =>
              /\ Moves(s, IF program.reads[s] = "NextReader" THEN "next" ELSE "Read", x.msg, 0,
                       reader[s].op, reader[s].after)
        /\ ~TooLong(len) /\ x.op = "cont" => reader' = reader
    BY <1>3, <2>1, <2>2, TakeDataDoes
  <2>4. CASE TooLong(len)
    <3>1. ~InMessage(s)'
      BY <2>3, <2>4 DEF Moves, InMessage, Is
    <3>2. QED
      BY <2>3, <3>1, LimitOutside
  <2>5. ASSUME ~TooLong(len), InMessage(s)' => reader'[s].got + x.len <= len
        PROVE  LimitOK(s)'
    <3>1. frame'[s].rem = x.len /\ frame'[s].length = len
      BY <2>3 DEF Framed
    <3>2. QED
      BY <2>3, <2>5, <3>1 DEF LimitOK, TooLong
  <2>6. CASE ~TooLong(len) /\ x.op = "data"
    <3>1. reader'[s].got = 0
      BY <2>3, <2>6 DEF Moves
    <3>2. frame[s].length \in Nat
      BY ReaderPlaces
    <3>3. QED
      BY <2>2, <2>5, <2>6, <3>1, <3>2
  <2>7. CASE ~TooLong(len) /\ x.op = "cont"
    <3>1. reader' = reader /\ frame[s].rem = 0
      BY <2>3, <2>7, AtHeaderIs
    <3>2. InMessage(s)' => InMessage(s)
      BY <3>1 DEF InMessage, Is
    <3>3. InMessage(s) => reader[s].got <= frame[s].length
      BY <3>1, ReaderPlaces DEF LimitOK
    <3>4. reader[s].got \in Nat /\ frame[s].length \in Nat
      BY ReaderPlaces
    <3>5. InMessage(s)' => reader'[s].got + x.len <= len
      BY <2>2, <3>1, <3>2, <3>3, <3>4
    <3>6. QED
      BY <2>5, <2>7, <3>5
  <2>8. QED
    BY <2>3, <2>4, <2>6, <2>7
<1>4. CASE Refuse(s)
  <2>1. UNCHANGED delivered /\ ~InMessage(s)'
    BY <1>4, RefuseDoes DEF Moves, InMessage, Is
  <2>2. QED
    BY <2>1, LimitOutside
<1>5. CASE TakeControl(s)
  <2>1. /\ UNCHANGED <<frame, delivered>> /\ reader[s].at \in {"advance", "loop"}
        /\ \/ reader' = reader
           \/ Moves(s, "reply", reader[s].msg, reader[s].got, "pong", reader[s].at)
           \/ Moves(s, "reply", reader[s].msg, reader[s].got, "close", "close")
    BY <1>5, TakeControlDoes DEF AtHeader
  <2>2. InMessage(s)' => InMessage(s)
    BY <2>1 DEF Moves, InMessage, Is
  <2>3. reader'[s].got = reader[s].got
    BY <2>1 DEF Moves
  <2>4. QED
    BY <2>1, <2>2, <2>3 DEF LimitOK, TooLong
<1>6. CASE Read(s)
  <2>1. /\ UNCHANGED frame /\ reader[s].at = "Read" /\ InMessage(s)
        /\ \/ Steps(s, "loop") /\ UNCHANGED delivered
           \/ Steps(s, "next") /\ Gains(s, reader[s].msg, reader[s].got)
    BY <1>6, ReadDoes DEF InMessage
  <2>2. CASE Steps(s, "loop") /\ UNCHANGED delivered
    <3>1. reader'[s].got = reader[s].got
      BY <2>2 DEF Steps, Moves
    <3>2. QED
      BY <2>1, <2>2, <3>1 DEF LimitOK, TooLong
  <2>3. CASE Steps(s, "next") /\ Gains(s, reader[s].msg, reader[s].got)
    <3>1. ~InMessage(s)'
      BY <2>3 DEF Steps, Moves, InMessage, Is
    <3>2. reader[s].got \in Nat /\ reader[s].got <= reader[s].got + frame[s].rem
      BY ReaderPlaces
    <3>3. QED
      BY <2>1, <2>3, <3>1, <3>2, LimitGains
  <2>4. QED
    BY <2>1, <2>2, <2>3
<1>7. CASE TakePiece(s)
  <2>1. reader[s].at = "loop" /\ InMessage(s)
    BY <1>7, TakePieceDoes DEF InMessage, Is
  <2>2. PICK n \in Nat :
              /\ n <= frame[s].rem
              /\ Framed(s, frame[s].rem - n, frame[s].final, frame[s].length)
              /\ \/ Gains(s, reader[s].msg, n) /\ Steps(s, "next")
                 \/ /\ UNCHANGED delivered
                    /\ Moves(s, "Read", reader[s].msg, reader[s].got + n, reader[s].op, reader[s].after)
    BY <1>7, TakePieceDoes
  <2>3. reader[s].got \in Nat /\ frame[s].rem \in Nat
    BY ReaderPlaces
  <2>4. CASE Gains(s, reader[s].msg, n) /\ Steps(s, "next")
    <3>1. ~InMessage(s)'
      BY <2>4 DEF Steps, Moves, InMessage, Is
    <3>2. n <= reader[s].got + frame[s].rem
      BY <2>2, <2>3
    <3>3. QED
      BY <2>1, <2>4, <3>1, <3>2, LimitGains
  <2>5. CASE /\ UNCHANGED delivered
             /\ Moves(s, "Read", reader[s].msg, reader[s].got + n, reader[s].op, reader[s].after)
    <3>1. reader'[s].got + frame'[s].rem = reader[s].got + frame[s].rem /\ frame'[s].length = frame[s].length
      BY <2>2, <2>3, <2>5 DEF Moves, Framed
    <3>2. QED
      BY <2>1, <2>5, <3>1 DEF LimitOK, TooLong
  <2>6. QED
    BY <2>2, <2>4, <2>5
<1>8. CASE EndOfMessage(s)
  <2>1. Gains(s, reader[s].msg, reader[s].got) /\ Steps(s, "next") /\ InMessage(s)
    BY <1>8, EndOfMessageDoes DEF InMessage, Is
  <2>2. ~InMessage(s)'
    BY <2>1 DEF Steps, Moves, InMessage, Is
  <2>3. reader[s].got \in Nat /\ reader[s].got <= reader[s].got + frame[s].rem
    BY ReaderPlaces
  <2>4. QED
    BY <2>1, <2>2, <2>3, LimitGains
<1>9. CASE Garbled(s) \/ EndOfFile(s)
  <2>1. UNCHANGED delivered /\ reader'[s].at = "ended"
    BY <1>9, GarbledDoes, EndOfFileDoes DEF Ended, Steps, Moves
  <2>2. ~InMessage(s)'
    BY <2>1 DEF InMessage, Is
  <2>3. QED
    BY <2>1, <2>2, LimitOutside
<1>10. QED
  BY <1>1, <1>2, <1>3, <1>4, <1>5, <1>6, <1>7, <1>8, <1>9 DEF Reading

\* What is not a step of a reader leaves it as it is.
Untouched(s) == /\ reader'[s] = reader[s] /\ readErr'[s] = readErr[s] /\ frame'[s] = frame[s]
                /\ delivered'[s] = delivered[s]

LEMMA ReaderSteps ==
    ASSUME TypeInv, [Next]_vars, NEW s \in Sides
    PROVE  Untouched(s) \/ Reading(s) \/ Reply(s) \/ ReplyFails(s) \/ ReplySettled(s)
<1>1. CASE UNCHANGED vars
  BY <1>1 DEF vars, reading, Untouched
<1>2. ASSUME NEW w \in Writers, CallStep(w) \/ CallBegins(w)
      PROVE  Untouched(s)
  BY <1>2, WriterReads DEF Reads, Untouched
<1>3. ASSUME PoolQuiet \/ \E k \in Workers : WorkerWrites(k) \/ WorkerFails(k)
      PROVE  Untouched(s)
  BY <1>3, PoolReads DEF Reads, Untouched
<1>4. ASSUME NEW q \in Sides, ReaderStep(q), q # s
      PROVE  Untouched(s)
  BY <1>4, OthersRead DEF Untouched
<1>5. ASSUME ReaderStep(s)
      PROVE  Reading(s) \/ Reply(s) \/ ReplyFails(s) \/ ReplySettled(s)
  BY <1>5 DEF ReaderStep, Reading
<1>6. QED
  BY <1>1, <1>2, <1>3, <1>4, <1>5 DEF Next, WorkerStep, PoolQuiet

\* A reply leaves what has been read as it is.
LEMMA RepliesKeep ==
    ASSUME TypeInv, NEW s \in Sides, Reply(s) \/ ReplyFails(s) \/ ReplySettled(s)
    PROVE  frame'[s] = frame[s] /\ delivered'[s] = delivered[s] /\ SamePlace(s)
BY ReplyDoes, ReplyFailsDoes, ReplySettledDoes, ReplyPlace

LEMMA LimitKept == TypeInv /\ (\A s \in Sides : LimitOK(s)) /\ [Next]_vars => \A s \in Sides : LimitOK(s)'
<1> SUFFICES ASSUME TypeInv, [Next]_vars, NEW s \in Sides, LimitOK(s)
             PROVE  LimitOK(s)'
  OBVIOUS
<1>1. CASE Untouched(s)
  BY <1>1, PlaceKept, LimitSame DEF Untouched
<1>2. CASE Reading(s)
  BY <1>2, LimitReading
<1>3. CASE Reply(s) \/ ReplyFails(s) \/ ReplySettled(s)
  BY <1>3, RepliesKeep, LimitSame
<1>4. QED
  BY <1>1, <1>2, <1>3, ReaderSteps

\* A message that is refused is too long by itself.
RefusedRight(s) == CountsOneMessage(s) /\ Reports(s, "limit") => TooLong(Size[reader[s].msg])

LEMMA LengthTaken ==
    ASSUME TypeInv, NEW s \in Sides, NEW p, p = Peer(s), Understood(p), TakeData(s), CountsOneMessage(s),
           NEW x \in Item, x = In(s)[1]
    PROVE  x.msg \in Messages /\ frame[s].length + x.len <= Size[x.msg]
<1>1. /\ Stays /\ UNCHANGED <<wrote, past>> /\ AtHeader(s) /\ Taken(s)
      /\ x.op \in {"data", "cont"} /\ ~Misplaced(s, x)
  BY TakeDataDoes
<1>2. reader[s].at \in {"advance", "loop"} /\ (reader[s].at = "loop" => ~frame[s].final)
  BY <1>1 DEF AtHeader
<1>3. Live(s)
  BY <1>2 DEF Live
<1>4. PICK l \in Label :
         /\ AtReader(s, l) /\ CanTake(l, x) /\ l.rem = 0 /\ frame[s].final = l.fin
         /\ \E n2, far : Sent(p, n2, far)' /\ far[0] = After(l, x)
                         /\ Sound(p, wrote[p], far[0]) /\ far[0] \in Label
  BY <1>1, <1>3, HeaderTaken
<1>5. PICK y \in Label : /\ y = After(l, x) /\ y.rem = x.len /\ y.fin = x.fin /\ y.of = x.msg
                         /\ y.units = IF x.op = "data" THEN x.len ELSE l.units + x.len
                         /\ y.done = l.done + Over(x.fin, x.len)
  BY <1>1, AfterHeader
<1>6. Sound(p, wrote[p], y)
  BY <1>4, <1>5
<1>7. x.msg \in Messages
  BY <1>1, AtHeaderIs
<1>8. y.units <= Size[x.msg]
  <2>1. y.of # None
    BY <1>5, <1>7, ConnAssumption
  <2>2. QED
    BY <1>5, <1>6, <2>1 DEF Sound
<1>9. CASE x.op = "data"
  <2>1. l.fin
    BY <1>1, <1>4, <1>9, LabelTypes DEF Misplaced
  <2>2. reader[s].at = "advance"
    BY <1>2, <1>4, <2>1
  <2>3. frame[s].length = 0
    BY <1>4, <2>2 DEF AtReader, BetweenMessages, Is
  <2>4. x.len \in Nat
    BY DEF Item
  <2>5. QED
    BY <1>5, <1>7, <1>8, <1>9, <2>3, <2>4
<1>10. CASE x.op = "cont"
  <2>1. ~l.fin
    BY <1>1, <1>4, <1>10 DEF Misplaced
  <2>2. reader[s].at # "advance"
    BY <1>4, <2>1 DEF AtReader, BetweenMessages, Is
  <2>3. InMessage(s)
    BY <1>2, <2>2 DEF InMessage, Is
  <2>4. frame[s].length = l.units
    BY <1>4, <2>3 DEF AtReader
  <2>5. QED
    BY <1>5, <1>7, <1>8, <1>10, <2>4
<1>11. QED
  BY <1>1, <1>9, <1>10

LEMMA RefusalsKept ==
    ASSUME TypeInv, [Next]_vars, NEW s \in Sides, ReaderOK(s), Understood(Peer(s)), RefusedRight(s)
    PROVE  RefusedRight(s)'
<1>1. CountsOneMessage(s)' = CountsOneMessage(s)
  BY HistoryKept, HypothesesSame DEF HistoryGrows
<1>2. readErr \in [Sides -> Ends \cup {None}] /\ "limit" # None
  BY Types, ConnAssumption DEF TypeInv, Ends
<1>3. ASSUME reader'[s].msg = reader[s].msg, Reports(s, "limit")' => Reports(s, "limit")
      PROVE  RefusedRight(s)'
  BY <1>1, <1>3 DEF RefusedRight, TooLong
<1>4. CASE Untouched(s)
  BY <1>3, <1>4 DEF Untouched, Reports
<1>5. CASE Reply(s) \/ ReplyFails(s) \/ ReplySettled(s)
  <2>1. reader[s].at \in {"reply", "settle"} /\ (Resumed(s) \/ (Steps(s, "settle") /\ UNCHANGED readErr))
    BY <1>5, ReplyDoes, ReplyFailsDoes, ReplySettledDoes
  <2>2. reader'[s].msg = reader[s].msg
    BY <1>5, RepliesKeep DEF SamePlace
  <2>3. Reports(s, "limit")' => Reports(s, "limit")
    <3>1. CASE Steps(s, "settle") /\ UNCHANGED readErr
      BY <2>1, <3>1 DEF Steps, Moves, Reports
    <3>2. CASE reader[s].after \in Ends /\ Ended(s, reader[s].after)
      BY <1>2, <2>1, <3>2 DEF Ended, Steps, Moves, Reports
    <3>3. CASE reader[s].after \in {"advance", "loop"} /\ Steps(s, reader[s].after) /\ UNCHANGED readErr
      BY <2>1, <3>3 DEF Steps, Moves, Reports
    <3>4. QED
      BY <2>1, <3>1, <3>2, <3>3 DEF Resumed
  <2>4. QED
    BY <1>3, <2>2, <2>3
<1>6. ASSUME ~Reports(s, "limit")'
      PROVE  RefusedRight(s)'
  BY <1>6 DEF RefusedRight
<1>7. CASE NextReader(s) \/ Skip(s) \/ Read(s) \/ EndOfMessage(s) \/ TakePiece(s)
  <2>1. /\ UNCHANGED readErr /\ reader[s].at \in {"next", "advance", "Read", "loop"}
        /\ reader'[s].at \in {"next", "advance", "Read", "loop"}
    BY <1>7, NextReaderDoes, SkipDoes, ReadDoes, EndOfMessageDoes, TakePieceDoes DEF Steps, Moves
  <2>2. readErr[s] = None
    BY <2>1 DEF ReaderOK
  <2>3. QED
    BY <1>2, <1>6, <2>1, <2>2 DEF Reports
<1>8. CASE Refuse(s)
  <2>1. UNCHANGED readErr /\ reader[s].at \in {"advance", "loop"} /\ reader'[s].after = "protocol"
    BY <1>8, RefuseDoes DEF AtHeader, Moves
  <2>2. readErr[s] = None
    BY <2>1 DEF ReaderOK
  <2>3. QED
    BY <1>2, <1>6, <2>1, <2>2 DEF Reports
<1>9. CASE TakeControl(s)
  <2>1. /\ UNCHANGED readErr /\ reader[s].at \in {"advance", "loop"}
        /\ reader'[s].at \in {"advance", "loop"} \/ reader'[s].after \in {"advance", "loop", "close"}
    BY <1>9, TakeControlDoes DEF AtHeader, Moves
  <2>2. readErr[s] = None
    BY <2>1 DEF ReaderOK
  <2>3. QED
    BY <1>2, <1>6, <2>1, <2>2 DEF Reports
<1>10. CASE Garbled(s) \/ EndOfFile(s)
  <2>1. reader'[s].at = "ended" /\ readErr'[s] \in {"garbled", "eof"}
    BY <1>2, <1>10, GarbledDoes, EndOfFileDoes DEF Ended, Steps, Moves
  <2>2. QED
    BY <1>6, <2>1 DEF Reports
<1>11. CASE TakeData(s)
  <2>1. PICK x \in Item : x = In(s)[1]
    BY <1>11, AtHeaderIs, TakeDataDoes
  <2>2. PICK len \in Nat : len = frame[s].length + x.len
    BY <2>1, ReaderPlaces DEF Item
  <2>3. /\ UNCHANGED readErr /\ reader[s].at \in {"advance", "loop"}
        /\ \/ TooLong(len) /\ Moves(s, "reply", x.msg, reader[s].got, "close", "limit")
           \/ reader'[s].at \in {"next", "Read"}
           \/ reader' = reader
    <3>1. reader[s].at \in {"advance", "loop"} /\ UNCHANGED readErr
      BY <1>11, TakeDataDoes DEF AtHeader
    <3>2. /\ x.op \in {"data", "cont"}
          /\ TooLong(len) => Moves(s, "reply", x.msg, reader[s].got, "close", "limit")
          /\ ~TooLong(len) /\ x.op = "data" =>
                Moves(s, IF program.reads[s] = "NextReader" THEN "next" ELSE "Read", x.msg, 0,
                      reader[s].op, reader[s].after)
          /\ ~TooLong(len) /\ x.op = "cont" => reader' = reader
      BY <1>11, <2>1, <2>2, TakeDataDoes
    <3>3. QED
      BY <3>1, <3>2 DEF Moves
  <2>4. readErr[s] = None
    BY <2>3 DEF ReaderOK
  <2>5. CASE TooLong(len) /\ Moves(s, "reply", x.msg, reader[s].got, "close", "limit")
    <3>1. reader'[s].msg = x.msg
      BY <2>5 DEF Moves
    <3>2. CountsOneMessage(s) => TooLong(Size[x.msg])
      <4> SUFFICES ASSUME CountsOneMessage(s)
                   PROVE  TooLong(Size[x.msg])
        OBVIOUS
      <4>1. x.msg \in Messages /\ len <= Size[x.msg]
        BY <1>11, <2>1, <2>2, LengthTaken
      <4>2. Size[x.msg] \in Nat
        BY <4>1, ConnAssumption
      <4>3. QED
        BY <2>5, <4>1, <4>2, TooLongMore
    <3>3. QED
      BY <1>1, <3>1, <3>2 DEF RefusedRight, TooLong
  <2>6. CASE reader'[s].at \in {"next", "Read"}
    BY <1>2, <1>6, <2>3, <2>4, <2>6 DEF Reports
  <2>7. CASE reader' = reader
    BY <1>3, <2>3, <2>7 DEF Reports
  <2>8. QED
    BY <2>3, <2>5, <2>6, <2>7
<1>12. QED
  BY <1>4, <1>5, <1>7, <1>8, <1>9, <1>10, <1>11, ReaderSteps DEF Reading

LEMMA LimitBegins ==
    ASSUME Init, NEW s \in Sides
    PROVE  LimitOK(s) /\ RefusedRight(s)
<1>1. reader[s].at = "next" /\ readErr[s] = None /\ delivered[s] = <<>> /\ "limit" # None
  BY ConnAssumption DEF Init, Ends
<1>2. QED
  BY <1>1 DEF LimitOK, RefusedRight, Reports, InMessage, Is

\* What an application is given of a message, whichever way it reads and whatever
\* the other end writes, is never more than the limit (conn.go:1172-1186).
WithinLimit == \A s \in Sides : \A i \in DOMAIN delivered[s] : ~TooLong(delivered[s][i].units)

\* No application is given more of a message than SetReadLimit allows.
THEOREM DeliversWithinLimit == Spec => []WithinLimit
<1>1. Init => \A s \in Sides : LimitOK(s)
  BY LimitBegins
<1>2. (\A s \in Sides : LimitOK(s)) /\ TypeInv /\ TypeInv' /\ [Next]_vars => (\A s \in Sides : LimitOK(s))'
  BY LimitKept
<1>3. (\A s \in Sides : LimitOK(s)) => WithinLimit
  BY DEF LimitOK, WithinLimit
<1>4. QED
  BY <1>1, <1>2, <1>3, AlwaysTypeInv, PTL DEF Spec

Counting == \A s \in Sides : CountsOneMessage(s) /\ LimitOK(s) /\ RefusedRight(s)

LEMMA CountingKept ==
    ASSUME IndInv, [Next]_vars, Counting
    PROVE  Counting'
<1> SUFFICES ASSUME NEW s \in Sides
             PROVE  (CountsOneMessage(s) /\ LimitOK(s) /\ RefusedRight(s))'
  BY DEF Counting
<1>1. TypeInv /\ ReaderOK(s) /\ Understood(Peer(s))
  BY Peers DEF IndInv
<1>2. CountsOneMessage(s)'
  BY <1>1, HistoryKept, HypothesesSame DEF HistoryGrows, Counting
<1>3. LimitOK(s)'
  BY <1>1, LimitKept DEF Counting
<1>4. RefusedRight(s)'
  BY <1>1, RefusalsKept DEF Counting
<1>5. QED
  BY <1>2, <1>3, <1>4

\* The limit is that of one message (conn.go:1359-1364, 1172-1186) where each end either
\* is sent messages in one frame or reads every message to its end: a message that is
\* refused is too long, and one that is too long is not delivered.
THEOREM LimitsExactly ==
    Spec /\ Orderly /\ (\A s \in Sides : CountsOneMessage(s)) => []LimitIsExact
<1>1. Init /\ (\A s \in Sides : CountsOneMessage(s)) => Counting
  BY LimitBegins DEF Counting
<1>2. IndInv /\ [Next]_vars /\ Counting => Counting'
  BY CountingKept
<1>3. Counting => LimitIsExact
  BY DEF Counting, LimitOK, RefusedRight, Reports, LimitIsExact
<1>4. QED
  BY <1>1, <1>2, <1>3, AlwaysInv, PTL DEF Spec

-----------------------------------------------------------------------------
(* Messages arrive in order.                                                 *)

DeliveredOK(s) ==
    \A i \in DOMAIN delivered[s] :
        /\ i \in DOMAIN wrote[Peer(s)] /\ delivered[s][i].msg = wrote[Peer(s)][i]
        /\ delivered[s][i].units = Size[wrote[Peer(s)][i]]

\* The messages the other end has written do not change.
LEMMA DeliveredSame ==
    ASSUME TypeInv, HistoryGrows, NEW s \in Sides, delivered'[s] = delivered[s], DeliveredOK(s)
    PROVE  DeliveredOK(s)'
<1>1. PICK p \in Sides : p = Peer(s)
  BY Peers
<1>2. PICK ms \in Seq(Messages) : ms = wrote[p]
  BY Types DEF TypeInv
<1>3. wrote'[p] = ms \/ \E m \in Messages : wrote'[p] = Append(ms, m)
  BY <1>2 DEF HistoryGrows, Grows
<1>4. \A i \in DOMAIN ms : i \in DOMAIN wrote'[p] /\ wrote'[p][i] = ms[i]
  BY <1>2, <1>3
<1>5. QED
  BY <1>1, <1>2, <1>4 DEF DeliveredOK, Peer

\* The next message is delivered, whole.
LEMMA DeliveredNext ==
    ASSUME TypeInv, NEW s \in Sides, NEW p \in Sides, p = Peer(s), wrote' = wrote, DeliveredOK(s),
           NEW m, NEW n, Gains(s, m, n), NEW k \in Nat, k = Len(delivered[s]) + 1,
           k <= Len(wrote[p]), wrote[p][k] = m, n = Size[m]
    PROVE  DeliveredOK(s)'
<1>1. PICK d \in Seq(Deliveries) : d = delivered[s]
  BY Types DEF TypeInv
<1>2. PICK x : x = [msg |-> m, units |-> n]
  OBVIOUS
<1>3. delivered'[s] = Append(d, x) /\ x.msg = m /\ x.units = n
  BY <1>1, <1>2 DEF Gains
<1>4. PICK ms \in Seq(Messages) : ms = wrote[p]
  BY Types DEF TypeInv
<1>5. ASSUME NEW i \in DOMAIN delivered'[s]
      PROVE  /\ i \in DOMAIN ms /\ delivered'[s][i].msg = ms[i] /\ delivered'[s][i].units = Size[ms[i]]
  <2>1. delivered'[s][i] = IF i = k THEN x ELSE d[i]
    BY <1>1, <1>3, <1>5
  <2>2. CASE i = k
    <3>1. i \in DOMAIN ms
      BY <1>4, <2>2
    <3>2. QED
      BY <1>3, <1>4, <2>1, <2>2, <3>1
  <2>3. CASE i # k
    <3>1. i \in DOMAIN d
      BY <1>1, <1>3, <1>5, <2>3
    <3>2. QED
      BY <1>1, <1>4, <2>1, <2>3, <3>1 DEF DeliveredOK
  <2>4. QED
    BY <2>2, <2>3
<1>6. QED
  BY <1>4, <1>5 DEF DeliveredOK, Peer

\* Whoever is in a message has one that the other end writes.
LEMMA InMessageOf ==
    ASSUME TypeInv, NEW s \in Sides, ReaderOK(s), InMessage(s), ReadsInOrder(s),
           NEW l \in Label, AtReader(s, l), Sound(Peer(s), wrote[Peer(s)], l)
    PROVE  /\ l.of = reader[s].msg /\ l.of # None /\ l.of \in Said(Peer(s))
           /\ ReadsToTheEnd(s) \/ FitsOneRead(s)
<1>1. reader[s].msg = l.of /\ l.of # None
  BY DEF AtReader, TypeInv, ReaderFits
<1>2. l.of \in Said(Peer(s))
  BY <1>1 DEF Sound
<1>3. program.reads[s] # "NextReader"
  BY DEF ReaderOK
<1>4. QED
  BY <1>1, <1>2, <1>3 DEF ReadsInOrder

LEMMA EndDelivers ==
    ASSUME TypeInv, NEW s \in Sides, EndOfMessage(s), ReaderOK(s), NEW p \in Sides, p = Peer(s), Understood(p),
           ReadsInOrder(s), DeliveredOK(s)
    PROVE  DeliveredOK(s)'
<1>1. /\ UNCHANGED wrote /\ reader[s].at = "loop" /\ frame[s].rem = 0 /\ frame[s].final
      /\ Gains(s, reader[s].msg, reader[s].got)
  BY EndOfMessageDoes
<1>2. Live(s) /\ InMessage(s)
  BY <1>1 DEF Live, InMessage, Is
<1>3. PICK n, lab : Sent(p, n, lab) /\ AtReader(s, lab[0])
  BY <1>2, Understands
<1>4. PICK l \in Label : l = lab[0] /\ AtReader(s, l) /\ Sound(p, wrote[p], l)
  BY <1>3, FirstLabel
<1>5. l.of = reader[s].msg /\ l.of # None /\ (ReadsToTheEnd(s) \/ FitsOneRead(s))
  BY <1>2, <1>4, InMessageOf
<1>6. l.rem = 0 /\ l.fin
  BY <1>1, <1>4 DEF AtReader
<1>7. reader[s].got + l.rem = l.units /\ Len(delivered[s]) + Over(l.fin, l.rem) = l.done
  BY <1>2, <1>4, <1>5 DEF AtReader
<1>8. l.done > 0 /\ l.done <= Len(wrote[p]) /\ wrote[p][l.done] = l.of /\ l.units = Size[l.of]
  BY <1>4, <1>5, <1>6 DEF Sound
<1>9. reader[s].got = l.units /\ Len(delivered[s]) + 1 = l.done /\ l.done \in Nat
  BY <1>6, <1>7, LabelTypes, ReaderPlaces DEF Over
<1>10. PICK k \in Nat : k = l.done
  BY <1>9
<1>11. k = Len(delivered[s]) + 1 /\ k <= Len(wrote[p]) /\ wrote[p][k] = reader[s].msg
       /\ reader[s].got = Size[reader[s].msg]
  BY <1>5, <1>8, <1>9, <1>10
<1>12. QED
  BY <1>1, <1>11, DeliveredNext

LEMMA PieceDelivers ==
    ASSUME TypeInv, NEW s \in Sides, TakePiece(s), ReaderOK(s), NEW p \in Sides, p = Peer(s), Understood(p),
           ReadsInOrder(s), DeliveredOK(s), program.reads[s] = "ReadMessage"
    PROVE  DeliveredOK(s)'
<1>1. /\ Stays /\ UNCHANGED <<wrote, past>>
      /\ reader[s].at = "loop" /\ frame[s].rem > 0 /\ In(s)[1] \in Item /\ In(s)[1].op = "payload"
  BY TakePieceDoes
<1>2. PICK x \in Item : x = In(s)[1] /\ x.op = "payload" /\ x.len \in Nat
  BY <1>1 DEF Item
<1>3. PICK k \in Nat :
         /\ ~program.pieces => k = Lesser(Lesser(frame[s].rem, x.len), BufLen)
         /\ k = x.len => Taken(s)
         /\ Gains(s, reader[s].msg, k)
  BY <1>2, TakePieceDoes
<1>4. Live(s) /\ InMessage(s)
  BY <1>1 DEF Live, InMessage, Is
<1>5. PICK n, lab : Sent(p, n, lab) /\ AtReader(s, lab[0])
  BY <1>4, Understands
<1>6. PICK l \in Label : l = lab[0] /\ AtReader(s, l) /\ Sound(p, wrote[p], l)
  BY <1>5, FirstLabel
<1>7. l.of = reader[s].msg /\ l.of # None /\ l.of \in Said(p) /\ FitsOneRead(s)
  BY <1>4, <1>6, InMessageOf DEF ReadsToTheEnd
<1>8. ~program.pieces /\ Size[l.of] <= BufLen /\ l.fin /\ l.units <= Size[l.of] /\ reader[s].got = 0
  BY <1>4, <1>6, <1>7 DEF FitsOneRead, Sound, ReaderOK
<1>9. l.rem \in Nat /\ l.units \in Nat /\ l.done \in Nat /\ Size[l.of] \in Nat /\ BufLen \in Nat
  BY <1>7, LabelTypes, ConnAssumption DEF Said
<1>10. l.rem = l.units /\ frame[s].rem = l.rem /\ l.rem > 0
  BY <1>1, <1>4, <1>6, <1>7, <1>8, <1>9 DEF AtReader
<1>11. Len(delivered[s]) = l.done
  <2>1. Len(delivered[s]) + Over(l.fin, l.rem) = l.done
    BY <1>4, <1>6, <1>7 DEF AtReader
  <2>2. Over(l.fin, l.rem) = 0
    BY <1>10 DEF Over
  <2>3. delivered[s] \in Seq(Deliveries)
    BY Types DEF TypeInv
  <2>4. QED
    BY <2>1, <2>2, <2>3
<1>12. CanTake(l, x)
  <2>1. n # 0
    <3>1. CASE n = 0
      <4>1. n # Len(wire[p]) /\ n + 1 = 1
        <5>1. In(s) # <<>> /\ In(s) = wire[p] /\ wire[p] \in Seq(Item)
          BY Types, TakePieceDoes DEF TypeInv, In
        <5>2. QED
          BY <3>1, <5>1
      <4>2. Blocks(l, x)
        BY <1>2, <1>5, <1>6, <3>1, <4>1 DEF Sent, Outcome, In
      <4>3. QED
        BY <1>2, <4>2 DEF Blocks
    <3>2. QED
      BY <3>1
  <2>2. n \in 0..Len(wire[p]) /\ \A i \in 1..n : CanTake(lab[i - 1], wire[p][i])
    BY <1>5 DEF Sent, Walk
  <2>3. 1 \in 1..n /\ 1 - 1 = 0
    BY <2>1, <2>2
  <2>4. CanTake(lab[0], wire[p][1])
    BY <2>2, <2>3
  <2>5. QED
    BY <1>2, <1>6, <2>4 DEF In
<1>13. x.len = l.rem
  BY <1>2, <1>12, Taking
<1>14. k = l.units /\ k = x.len
  BY <1>3, <1>8, <1>9, <1>10, <1>13 DEF Lesser
<1>15. PICK y \in Label : /\ y.rem = 0 /\ y.fin /\ y.of = l.of /\ y.units = l.units /\ y.done = l.done + 1
                          /\ Sound(p, wrote[p], y)
  <2>1. ~Blocks(l, x)
    BY <1>2 DEF Blocks
  <2>2. \E n2, far : Sent(p, n2, far)' /\ far[0] = After(l, x) /\ Sound(p, wrote[p], far[0])
    <3>1. Sent(p, n, lab) /\ ~Blocks(lab[0], In(s)[1]) /\ Taken(s)
      BY <1>2, <1>3, <1>5, <1>6, <1>14, <2>1
    <3>2. QED
      BY <1>1, <1>2, <1>6, <3>1, TakenSent
  <2>3. Sound(p, wrote[p], After(l, x))
    BY <2>2
  <2>4. PICK y \in Label : /\ y = After(l, x) /\ y.rem = 0 /\ y.fin = l.fin /\ y.of = l.of
                           /\ y.units = l.units /\ y.done = l.done + Over(l.fin, 0)
    BY <1>2, AfterPayload
  <2>5. y.done = l.done + 1
    BY <1>8, <2>4 DEF Over
  <2>6. QED
    BY <1>8, <2>3, <2>4, <2>5
<1>16. y.done <= Len(wrote[p]) /\ wrote[p][y.done] = y.of /\ y.units = Size[y.of]
  BY <1>7, <1>15 DEF Sound
<1>17. PICK j \in Nat : j = y.done
  BY <1>9, <1>15
<1>18. j = Len(delivered[s]) + 1 /\ j <= Len(wrote[p]) /\ wrote[p][j] = reader[s].msg
       /\ k = Size[reader[s].msg]
  BY <1>7, <1>11, <1>14, <1>15, <1>16, <1>17
<1>19. Gains(s, reader[s].msg, k) /\ wrote' = wrote
  BY <1>1, <1>3
<1>20. QED
  BY <1>18, <1>19, DeliveredNext

LEMMA ReadDelivers ==
    ASSUME TypeInv, [Next]_vars, NEW s \in Sides, Reading(s), ReaderOK(s), Understood(Peer(s)),
           ReadsInOrder(s), DeliveredOK(s)
    PROVE  DeliveredOK(s)'
<1>1. HistoryGrows
  BY HistoryKept
<1>2. PICK p \in Sides : p = Peer(s) /\ Understood(p)
  BY Peers
<1>3. CASE UNCHANGED delivered
  BY <1>1, <1>3, DeliveredSame
<1>4. CASE Read(s)
  <2>1. reader[s].at = "Read" /\ (UNCHANGED delivered \/ ~messageReader[s])
    BY <1>4, ReadDoes
  <2>2. ASSUME ~messageReader[s]
        PROVE  FALSE
    <3>1. InMessage(s) /\ Live(s)
      BY <2>1 DEF InMessage, Live
    <3>2. ~Undisturbed(s)
      BY <2>2, <3>1 DEF ReaderOK
    <3>3. PICK n, lab : Sent(p, n, lab) /\ AtReader(s, lab[0])
      BY <1>2, <3>1, Understands
    <3>4. PICK l \in Label : l = lab[0] /\ AtReader(s, l) /\ Sound(p, wrote[p], l)
      BY <3>3, FirstLabel
    <3>5. ReadsToTheEnd(s) \/ FitsOneRead(s)
      BY <1>2, <3>1, <3>4, InMessageOf
    <3>6. QED
      BY <3>2, <3>5 DEF ReadsToTheEnd, FitsOneRead
  <2>3. QED
    BY <1>3, <2>1, <2>2
<1>5. CASE TakePiece(s)
  <2>1. CASE program.reads[s] = "ReadMessage"
    BY <1>2, <1>5, <2>1, PieceDelivers
  <2>2. CASE program.reads[s] # "ReadMessage"
    BY <1>3, <1>5, <2>2, TakePieceDoes
  <2>3. QED
    BY <2>1, <2>2
<1>6. CASE EndOfMessage(s)
  BY <1>2, <1>6, EndDelivers
<1>7. CASE NextReader(s) \/ Skip(s) \/ TakeData(s) \/ Refuse(s) \/ TakeControl(s) \/ Garbled(s) \/ EndOfFile(s)
  <2>1. UNCHANGED delivered
    BY <1>7, NextReaderDoes, SkipDoes, TakeDataDoes, RefuseDoes, TakeControlDoes, GarbledDoes, EndOfFileDoes
  <2>2. QED
    BY <1>3, <2>1
<1>8. QED
  BY <1>4, <1>5, <1>6, <1>7 DEF Reading

InOrder == \A s \in Sides : ReadsInOrder(s) /\ DeliveredOK(s)

LEMMA InOrderKept ==
    ASSUME IndInv, [Next]_vars, InOrder
    PROVE  InOrder'
<1> SUFFICES ASSUME NEW s \in Sides
             PROVE  (ReadsInOrder(s) /\ DeliveredOK(s))'
  BY DEF InOrder
<1>1. /\ TypeInv /\ ReaderOK(s) /\ Understood(Peer(s)) /\ HistoryGrows
      /\ ReadsInOrder(s) /\ DeliveredOK(s)
  BY Peers, HistoryKept DEF IndInv, InOrder
<1>2. ReadsInOrder(s)'
  BY <1>1, HypothesesSame DEF HistoryGrows, ReadsInOrder, Said, Peer
<1>3. CASE Untouched(s) \/ Reply(s) \/ ReplyFails(s) \/ ReplySettled(s)
  <2>1. delivered'[s] = delivered[s]
    BY <1>1, <1>3, RepliesKeep DEF Untouched
  <2>2. QED
    BY <1>1, <1>2, <2>1, DeliveredSame
<1>4. CASE Reading(s)
  BY <1>1, <1>2, <1>4, ReadDelivers
<1>5. QED
  BY <1>1, <1>3, <1>4, ReaderSteps

LEMMA PrefixOf ==
    ASSUME NEW S, NEW d \in Seq(S), NEW e \in Seq(S), Len(d) <= Len(e),
           \A i \in 1..Len(d) : d[i] = e[i]
    PROVE  IsPrefix(d, e)
<1>1. SubSeq(d, 1, Len(d)) = SubSeq(e, 1, Len(d))
  OBVIOUS
<1>2. QED
  BY <1>1 DEF IsPrefix

LEMMA InOrderArrive == IndInv /\ InOrder => MessagesArriveInOrder
<1> SUFFICES ASSUME IndInv, InOrder, NEW s \in Sides
             PROVE  IsPrefix(delivered[s], [i \in DOMAIN wrote[Peer(s)] |->
                                 [msg |-> wrote[Peer(s)][i], units |-> Size[wrote[Peer(s)][i]]]])
  BY DEF MessagesArriveInOrder
<1>1. PICK d \in Seq(Deliveries) : d = delivered[s]
  BY Types DEF IndInv, TypeInv
<1>2. PICK ms \in Seq(Messages) : ms = wrote[Peer(s)]
  BY Types, Peers DEF IndInv, TypeInv
<1>3. ASSUME NEW i \in DOMAIN d
      PROVE  i \in DOMAIN ms /\ d[i].msg = ms[i] /\ d[i].units = Size[ms[i]]
  BY <1>1, <1>2, <1>3 DEF InOrder, DeliveredOK
<1>4. PICK e : e = [i \in DOMAIN ms |-> [msg |-> ms[i], units |-> Size[ms[i]]]]
  OBVIOUS
<1>5. \A i \in DOMAIN ms : e[i] = [msg |-> ms[i], units |-> Size[ms[i]]] /\ e[i] \in Deliveries
  BY <1>4, ConnAssumption DEF Deliveries
<1>6. e \in Seq(Deliveries) /\ DOMAIN e = DOMAIN ms /\ Len(e) = Len(ms)
  BY <1>4, <1>5
<1>7. Len(d) <= Len(e)
  <2>1. CASE Len(d) > 0
    <3>1. Len(d) \in DOMAIN d
      BY <2>1
    <3>2. QED
      BY <1>3, <1>6, <3>1
  <2>2. QED
    BY <1>6, <2>1
<1>8. ASSUME NEW i \in 1..Len(d)
      PROVE  d[i] = e[i]
  <2>1. d[i] \in Deliveries /\ i \in DOMAIN ms /\ d[i].msg = ms[i] /\ d[i].units = Size[ms[i]]
    BY <1>3, <1>8
  <2>2. QED
    BY <1>5, <2>1 DEF Deliveries
<1>9. IsPrefix(d, e)
  BY <1>6, <1>7, <1>8, PrefixOf
<1>10. QED
  BY <1>1, <1>2, <1>4, <1>9

\* What an application is given are the messages that the other end has written, each
\* whole, in order and once (conn.go:1257-1344, 549-630), where each end reads in one of
\* the ways that can give it that: it reads every message to its end, or with
\* ReadMessage and messages that are in one frame and one segment and fit in its buffer.
THEOREM DeliversInOrder ==
    Spec /\ Orderly /\ (\A s \in Sides : ReadsInOrder(s)) => []MessagesArriveInOrder
<1>1. Init /\ (\A s \in Sides : ReadsInOrder(s)) => InOrder
  BY DEF Init, InOrder, DeliveredOK
<1>2. IndInv /\ [Next]_vars /\ InOrder => InOrder'
  BY InOrderKept
<1>3. IndInv /\ InOrder => MessagesArriveInOrder
  BY InOrderArrive
<1>4. QED
  BY <1>1, <1>2, <1>3, AlwaysInv, PTL DEF Spec
=============================================================================
