-------------------------- MODULE ConnectionProofs ---------------------------
(***************************************************************************)
(* Proofs about one connection, for any messages, about the server from    *)
(* its start to its exit (ServerLifecycle), for any tasks, timers and      *)
(* queries, and about a live cast (LiveCast), for any spectators.          *)
(*                                                                         *)
(* The handlers compose the operators CloseSocket, Close, Send, StartRead, *)
(* EndRead, Written and WriteFailed, so each of those has a lemma that it  *)
(* keeps a connection sound, and the actions follow by composition.        *)
(***************************************************************************)
EXTENDS Connection, ServerLifecycle, LiveCast, TLAPS, FiniteSetTheorems, WellFoundedInduction,
        SequenceTheorems

\* A connection with nothing completed that is not outstanding, whose pending
\* write is the front of its queue.
Sound(c) ==
    /\ c \in Connections
    /\ "read" \in c.ready => c.readOp # "none"
    /\ "write" \in c.ready => c.writing # <<>>
    /\ c.writing = IF c.queue = <<>> THEN <<>> ELSE <<Head(c.queue)>>

(* Closing the socket touches only open and the armed timers.              *)
LEMMA CloseSocketKeeps ==
    ASSUME NEW c, Sound(c)
    PROVE  Sound(CloseSocket(c))
<1> DEFINE d == [c EXCEPT !.open = FALSE, !.armed = {}]
<1>1. /\ d \in Connections /\ d.ready = c.ready /\ d.readOp = c.readOp
      /\ d.writing = c.writing /\ d.queue = c.queue
  BY DEF Sound, Connections
<1>2. Sound(d)
  BY <1>1 DEF Sound
<1>3. QED
  BY <1>2 DEF CloseSocket

(* close() leaves the queue and the outstanding operations as they are.    *)
LEMMA CloseKeeps ==
    ASSUME NEW c, Sound(c), NEW force
    PROVE  Sound(Close(c, force))
<1> DEFINE d == [c EXCEPT !.managed = FALSE, !.state = "DISCONNECTED", !.told = @ \/ c.protocol]
<1>1. Sound(d)
  BY DEF Sound, Connections
<1>2. Sound(CloseSocket(d))
  BY <1>1, CloseSocketKeeps
<1>3. QED
  BY <1>1, <1>2 DEF Close

(* A write is started for the front message when none is outstanding.      *)
LEMMA InternalSendKeeps ==
    ASSUME NEW c \in Connections, c.queue # <<>>, c.writing = <<>>,
           "read" \in c.ready => c.readOp # "none"
    PROVE  Sound(InternalSend(c, Head(c.queue)))
<1> DEFINE m == Head(c.queue)
           d == [c EXCEPT !.armed = c.armed \cup {"write"}, !.writing = Append(<<>>, m)]
<1>1. c.queue \in Seq(Messages) /\ c.armed \cup {"write"} \subseteq Timers
  BY DEF Connections, Timers
<1>2. m \in Messages
  BY <1>1, HeadTailProperties
<1>3. Append(<<>>, m) = <<m>> /\ <<m>> \in Seq(Messages) /\ <<m>> # <<>>
  BY <1>2
<1> HIDE DEF m
<1>4. /\ d \in Connections /\ d.ready = c.ready /\ d.readOp = c.readOp
      /\ d.writing = <<m>> /\ d.queue = c.queue
  BY <1>1, <1>3 DEF Connections
<1>5. Sound(d)
  BY <1>3, <1>4 DEF Sound, m
<1>6. InternalSend(c, m) = d
  BY DEF InternalSend
<1>7. QED
  BY <1>5, <1>6 DEF m

(* Only a message that finds the queue empty is written at once.           *)
LEMMA SendKeeps ==
    ASSUME NEW c, Sound(c), NEW m \in Messages
    PROVE  Sound(Send(c, m))
<1> DEFINE d == [c EXCEPT !.queue = Append(c.queue, m), !.accepted = Append(c.accepted, m)]
<1>1. /\ c \in Connections /\ c.queue \in Seq(Messages) /\ c.accepted \in Seq(Messages)
  BY DEF Sound, Connections
<1>2. Append(c.queue, m) \in Seq(Messages) /\ Append(c.accepted, m) \in Seq(Messages)
      /\ Append(c.queue, m) # <<>>
  BY <1>1
<1>3. d \in Connections /\ d.queue = Append(c.queue, m) /\ d.writing = c.writing
      /\ d.ready = c.ready /\ d.readOp = c.readOp
  BY <1>1, <1>2 DEF Connections
<1>4. Send(c, m) = IF c.state = "DISCONNECTED" THEN c
                   ELSE IF c.queue = <<>> THEN InternalSend(d, m) ELSE d
  BY DEF Send
<1> HIDE DEF d
<1>5. CASE c.queue # <<>>
  <2>1. Head(Append(c.queue, m)) = Head(c.queue)
    BY <1>1, <1>5
  <2>2. Sound(d)
    BY <1>2, <1>3, <1>5, <2>1 DEF Sound
  <2>3. QED BY <1>4, <1>5, <2>2
<1>6. CASE c.queue = <<>>
  <2>1. c.writing = <<>>
    BY <1>6 DEF Sound
  <2>2. Head(d.queue) = m
    BY <1>3, <1>6
  <2>3. Sound(InternalSend(d, m))
    BY <1>2, <1>3, <2>1, <2>2, InternalSendKeeps DEF Sound
  <2>4. QED BY <1>4, <1>6, <2>3
<1>7. QED BY <1>5, <1>6

(* A read begins, and ends, together with its timer and its completion.    *)
LEMMA ReadKeeps ==
    ASSUME NEW c, Sound(c), NEW what \in {"header", "body"}
    PROVE  Sound(StartRead(c, what)) /\ Sound(EndRead(c))
  BY DEF Sound, StartRead, EndRead, Connections, Timers

(* The handler of a write takes the front message off the queue, which it  *)
(* was writing, and goes on with the next.                                 *)
LEMMA WriteKeeps ==
    ASSUME NEW c, Sound(c), c.writing # <<>>
    PROVE  Sound(Written(c)) /\ Sound(WriteFailed(c))
<1> DEFINE d == [EndWrite(c) EXCEPT !.wire = Append(@, Head(c.writing))]
           e == [EndWrite(c) EXCEPT !.queue = <<>>]
<1>1. /\ c \in Connections /\ c.queue \in Seq(Messages) /\ c.wire \in Seq(Messages)
      /\ c.queue # <<>> /\ c.writing = <<Head(c.queue)>>
  BY DEF Sound, Connections
<1>2. /\ Tail(c.queue) \in Seq(Messages) /\ Head(c.queue) \in Messages
      /\ Tail(c.writing) = <<>> /\ Head(c.writing) = Head(c.queue)
      /\ <<>> \in Seq(Messages)
  BY <1>1
<1>3. Append(c.wire, Head(c.writing)) \in Seq(Messages)
  BY <1>1, <1>2
<1>4. /\ d \in Connections /\ d.queue = Tail(c.queue) /\ d.writing = <<>>
      /\ "write" \notin d.ready /\ d.readOp = c.readOp /\ d.ready = c.ready \ {"write"}
  BY <1>1, <1>2, <1>3 DEF EndWrite, Connections
<1>5. "read" \in d.ready => d.readOp # "none"
  BY <1>4 DEF Sound
<1>6. Sound(Written(c))
  <2>1. CASE d.queue # <<>>
    <3>1. Sound(InternalSend(d, Head(d.queue)))
      BY <1>4, <1>5, <2>1, InternalSendKeeps
    <3>2. QED BY <2>1, <3>1 DEF Written
  <2>2. CASE d.queue = <<>>
    <3>1. Sound(d)
      BY <1>4, <2>2 DEF Sound
    <3>2. Sound(CloseSocket(d))
      BY <3>1, CloseSocketKeeps
    <3>3. QED BY <2>2, <3>1, <3>2 DEF Written
  <2>3. QED BY <2>1, <2>2
<1>7. Sound(WriteFailed(c))
  <2>1. /\ e \in Connections /\ e.queue = <<>> /\ e.writing = <<>>
        /\ "write" \notin e.ready /\ e.readOp = c.readOp /\ e.ready = c.ready \ {"write"}
    BY <1>1, <1>2 DEF EndWrite, Connections
  <2>2. Sound(e)
    BY <2>1 DEF Sound
  <2>3. QED BY <2>2, CloseKeeps DEF WriteFailed
<1>8. QED BY <1>6, <1>7

(* Whatever parseHeader makes of a header, it closes or reads on.          *)
LEMMA HeaderKeeps ==
    ASSUME NEW c, Sound(c), NEW d \in HeaderOutcomes(c)
    PROVE  Sound(d)
<1>1. \A h \in {"none", "name", "done"} : Sound([c EXCEPT !.hello = h])
  BY DEF Sound, Connections
<1>2. ASSUME NEW e, Sound(e) PROVE Sound(AfterHello(e))
  <2> DEFINE g == [e EXCEPT !.state = "GAME"]
  <2>1. Sound(g)
    BY <1>2 DEF Sound, Connections
  <2>2. QED BY <1>2, <2>1 DEF AfterHello
<1>3. \A e : Sound(e) => /\ \A force : Sound(Close(e, force))
                         /\ \A what \in {"header", "body"} : Sound(StartRead(e, what))
  BY CloseKeeps, ReadKeeps
<1> DEFINE named  == [c EXCEPT !.hello = "name"]
           done   == [c EXCEPT !.hello = "done"]
<1>4. Sound(named) /\ Sound(done)
  BY <1>1
<1>5. \/ d = Close(c, FALSE) \/ d = Close(c, TRUE)
      \/ d = StartRead(named, "header") \/ d = StartRead(done, "header")
      \/ \E e \in {c, done} : d \in {Close(AfterHello(e), TRUE), StartRead(AfterHello(e), "body")}
  BY Zenon DEF HeaderOutcomes
<1> HIDE DEF named, done
<1>6. \A e \in {c, done} : Sound(AfterHello(e))
  BY <1>2, <1>4
<1>7. QED
  BY <1>3, <1>4, <1>5, <1>6

(* So does parsePacket, after the protocol may have sent and closed.       *)
LEMMA BodyKeeps ==
    ASSUME NEW c, Sound(c), NEW d \in BodyOutcomes(c)
    PROVE  Sound(d)
<1> DEFINE told == [c EXCEPT !.protocol = TRUE, !.first = TRUE]
           first == [c EXCEPT !.first = TRUE]
<1>1. Sound(told) /\ Sound(first)
  BY DEF Sound, Connections
<1>2. \A e : Sound(e) => /\ \A force : Sound(Close(e, force))
                         /\ \A m \in Messages : Sound(Send(e, m))
                         /\ Sound(StartRead(e, "header"))
  BY CloseKeeps, SendKeeps, ReadKeeps
<1>3. \A e \in Parsed(told) : Sound(e)
  BY <1>1, <1>2 DEF Parsed
<1>4. d = Close(first, TRUE) \/ \E e \in Parsed(told) : d = StartRead(e, "header")
  BY DEF BodyOutcomes
<1>5. QED BY <1>1, <1>2, <1>3, <1>4

-----------------------------------------------------------------------------
(* The inductive invariant: the three variables, the connection sound.     *)
Inv ==
    /\ Sound(conn)
    /\ phase \in {"accepting", "announced", "staged", "running"}
    /\ midClose \subseteq Closers

(* A new connection has nothing queued and nothing outstanding.            *)
LEMMA InitInv == Init => Inv
<1> SUFFICES ASSUME Init PROVE Inv
  OBVIOUS
<1>1. conn \in Connections
  BY DEF Init, Connections, Timers
<1>2. conn.ready = {} /\ conn.queue = <<>> /\ conn.writing = <<>>
  BY DEF Init
<1>3. QED
  BY <1>1, <1>2 DEF Init, Inv, Sound, Closers

(* Every step of the network thread, the dispatcher, the socket and the    *)
(* shutdown keeps it.                                                      *)
LEMMA NextInv == Inv /\ [Next]_vars => Inv'
<1> SUFFICES ASSUME Inv, [Next]_vars PROVE Inv'
  OBVIOUS
<1> USE DEF Inv
<1>0. conn \in Connections
  BY DEF Sound
<1>1. CASE Reject
  BY <1>1, CloseKeeps DEF Reject
<1>2. CASE AcceptProtocol
  <2>1. Sound([conn EXCEPT !.protocol = TRUE])
    BY DEF Sound, Connections
  <2>2. QED BY <1>2, <2>1 DEF AcceptProtocol
<1>3. CASE SetStage
  <2>1. Sound([conn EXCEPT !.state = "STAGE2"]) /\ Sound([conn EXCEPT !.state = "STAGE1"])
    BY DEF Sound, Connections
  <2>2. QED BY <1>3, <2>1 DEF SetStage
<1>4. CASE FirstRead
  BY <1>4, ReadKeeps DEF FirstRead
<1>5. CASE DataArrives
  <2> DEFINE d == [conn EXCEPT !.ready = conn.ready \cup {"read"}]
  <2>1. /\ d \in Connections /\ d.readOp = conn.readOp /\ d.writing = conn.writing
        /\ d.queue = conn.queue /\ d.ready = conn.ready \cup {"read"}
    BY <1>0 DEF Connections, Timers
  <2>2. Sound(d)
    BY <1>5, <2>1 DEF Sound, DataArrives
  <2>3. QED BY <1>5, <2>2 DEF DataArrives
<1>6. CASE DataSent
  <2> DEFINE d == [conn EXCEPT !.ready = conn.ready \cup {"write"}]
  <2>1. /\ d \in Connections /\ d.readOp = conn.readOp /\ d.writing = conn.writing
        /\ d.queue = conn.queue /\ d.ready = conn.ready \cup {"write"}
    BY <1>0 DEF Connections, Timers
  <2>2. Sound(d)
    BY <1>6, <2>1 DEF Sound, DataSent
  <2>3. QED BY <1>6, <2>2 DEF DataSent
<1>7. ASSUME NEW t \in Timers, TimerExpires(t) PROVE Inv'
  <2> DEFINE d == [conn EXCEPT !.armed = conn.armed \ {t}, !.fired = conn.fired \cup {t}]
  <2>1. /\ d \in Connections /\ d.readOp = conn.readOp /\ d.writing = conn.writing
        /\ d.queue = conn.queue /\ d.ready = conn.ready
    BY <1>0, <1>7 DEF Connections
  <2>2. Sound(d)
    BY <2>1 DEF Sound
  <2>3. QED BY <1>7, <2>2 DEF TimerExpires
<1>8. ASSUME NEW t \in Timers, HandleTimeout(t) PROVE Inv'
  <2> DEFINE d == [conn EXCEPT !.fired = conn.fired \ {t}, !.managed = FALSE]
  <2>1. /\ d \in Connections /\ d.readOp = conn.readOp /\ d.writing = conn.writing
        /\ d.queue = conn.queue /\ d.ready = conn.ready
    BY <1>0 DEF Connections
  <2>2. Sound(d)
    BY <2>1 DEF Sound
  <2>3. QED BY <1>8, <2>2 DEF HandleTimeout, Closers
<1>9. CASE ReadFails
  <2>1. Sound(EndRead(conn))
    BY ReadKeeps
  <2>2. QED BY <1>9, <2>1, CloseKeeps DEF ReadFails
<1>10. CASE ParseHeader
  <2>1. Sound(EndRead(conn))
    BY ReadKeeps
  <2>2. Sound(conn')
    BY <1>10, <2>1, HeaderKeeps DEF ParseHeader
  <2>3. QED BY <1>10, <2>2 DEF ParseHeader, ReadDone
<1>11. CASE ParsePacket
  <2>1. Sound(EndRead(conn))
    BY ReadKeeps
  <2>2. Sound(conn')
    BY <1>11, <2>1, BodyKeeps DEF ParsePacket
  <2>3. QED BY <1>11, <2>2 DEF ParsePacket, ReadDone
<1>12. CASE OnWriteOperation
  BY <1>12, WriteKeeps DEF OnWriteOperation
<1>13. ASSUME NEW m \in Messages, DispatcherSends(m) PROVE Inv'
  BY <1>13, SendKeeps DEF DispatcherSends
<1>14. CASE DispatcherCloses
  <2>1. Sound([conn EXCEPT !.managed = FALSE])
    BY DEF Sound, Connections
  <2>2. QED BY <1>14, <2>1 DEF DispatcherCloses, Closers
<1>15. CASE CloseAll
  <2> DEFINE d == [conn EXCEPT !.managed = FALSE, !.open = FALSE]
  <2>1. /\ d \in Connections /\ d.readOp = conn.readOp /\ d.writing = conn.writing
        /\ d.queue = conn.queue /\ d.ready = conn.ready
    BY <1>0 DEF Connections
  <2>2. Sound(d)
    BY <2>1 DEF Sound
  <2>3. QED BY <1>15, <2>2 DEF CloseAll
<1>16. ASSUME NEW who \in Closers, CloseLocked(who) PROVE Inv'
  <2>1. Sound(Close(conn, IsForced(who)))
    BY CloseKeeps
  <2>2. QED BY <1>16, <2>1 DEF CloseLocked
<1>17. CASE Destroy
  <2> DEFINE s == CloseSocket(conn)
             d == [s EXCEPT !.alive = FALSE, !.armed = {}]
  <2>1. Sound(s)
    BY CloseSocketKeeps
  <2> HIDE DEF s
  <2>2. /\ d \in Connections /\ d.readOp = s.readOp /\ d.writing = s.writing
        /\ d.queue = s.queue /\ d.ready = s.ready
    BY <2>1 DEF Sound, Connections
  <2>3. Sound(d)
    BY <2>1, <2>2 DEF Sound
  <2>4. conn' = d
    BY <1>17 DEF Destroy, s
  <2>5. QED BY <1>17, <2>3, <2>4 DEF Destroy
<1>18. CASE UNCHANGED vars
  BY <1>18 DEF vars
<1>19. QED
  BY <1>1, <1>2, <1>3, <1>4, <1>5, <1>6, <1>7, <1>8, <1>9, <1>10, <1>11, <1>12,
     <1>13, <1>14, <1>15, <1>16, <1>17, <1>18 DEF Next, AcceptStep

(* onWriteOperation never pops an empty list, and writes are never         *)
(* interleaved, for any messages and whatever closes the socket.           *)
THEOREM WriteMatchesQueueHolds == Spec => []WriteMatchesQueue
<1>1. Inv => WriteMatchesQueue
  BY DEF Inv, Sound, WriteMatchesQueue, TypeOK
<1>2. QED
  BY InitInv, NextInv, <1>1, PTL DEF Spec

-----------------------------------------------------------------------------
(***************************************************************************)
(* Messages in order.  What send() accepted is on the wire or in the queue *)
(* (Whole), until a failed write drops the rest: then the socket is closed *)
(* and the state is DISCONNECTED, so that nothing can be accepted behind   *)
(* the gap.  Only accept() could take that state back, and it is over      *)
(* before anything can fail.                                               *)
(***************************************************************************)
Whole(c) == c.accepted = c.wire \o c.queue
Cut(c) ==
    /\ \E dropped \in Seq(Messages) : c.accepted = (c.wire \o c.queue) \o dropped
    /\ ~c.open /\ c.state = "DISCONNECTED"

InOrder(c) == Whole(c) \/ Cut(c)

\* d is c with other things changed.
Same(c, d) ==
    /\ d.queue = c.queue /\ d.accepted = c.accepted /\ d.wire = c.wire
    /\ d.open => c.open
    /\ c.state = "DISCONNECTED" => d.state = "DISCONNECTED"

OrderInv == Inv /\ InOrder(conn) /\ (phase # "running" => Whole(conn))

(* A message appended behind two sequences is appended behind the second.  *)
LEMMA AppendMoves ==
    ASSUME NEW S, NEW s \in Seq(S), NEW t \in Seq(S), NEW e \in S
    PROVE  s \o Append(t, e) = Append(s \o t, e)
<1>1. <<e>> \in Seq(S) /\ s \o t \in Seq(S)
  BY ConcatProperties
<1>2. Append(t, e) = t \o <<e>> /\ Append(s \o t, e) = (s \o t) \o <<e>>
  BY <1>1, AppendIsConcat
<1>3. QED BY <1>1, <1>2, ConcatAssociative

(* The front of the queue moves to the end of the wire.                    *)
LEMMA HeadMoves ==
    ASSUME NEW S, NEW s \in Seq(S), NEW t \in Seq(S), t # <<>>
    PROVE  Append(s, Head(t)) \o Tail(t) = s \o t
<1> DEFINE a == Append(s, Head(t))
           h == Tail(t)
<1>1. /\ Head(t) \in S /\ h \in Seq(S) /\ Len(h) = Len(t) - 1 /\ Len(t) \in Nat /\ Len(s) \in Nat
      /\ Head(t) = t[1] /\ \A i \in 1..Len(h) : h[i] = t[i + 1]
  BY HeadTailProperties, LenProperties
<1>2. /\ a \in Seq(S) /\ Len(a) = Len(s) + 1 /\ a[Len(s) + 1] = t[1]
      /\ \A i \in 1..Len(s) : a[i] = s[i]
  BY <1>1, AppendProperties
<1> HIDE DEF a, h
<1>3. /\ a \o h \in Seq(S) /\ Len(a \o h) = Len(a) + Len(h)
      /\ \A i \in 1..Len(a) + Len(h) : (a \o h)[i] = IF i <= Len(a) THEN a[i] ELSE h[i - Len(a)]
  BY <1>1, <1>2, ConcatProperties
<1>4. /\ s \o t \in Seq(S) /\ Len(s \o t) = Len(s) + Len(t)
      /\ \A i \in 1..Len(s) + Len(t) : (s \o t)[i] = IF i <= Len(s) THEN s[i] ELSE t[i - Len(s)]
  BY ConcatProperties
<1>5. Len(a \o h) = Len(s \o t)
  BY <1>1, <1>2, <1>3, <1>4
<1>6. ASSUME NEW i \in 1..Len(a \o h) PROVE (a \o h)[i] = (s \o t)[i]
  <2>1. CASE i <= Len(s)
    BY <1>1, <1>2, <1>3, <1>4, <1>5, <1>6, <2>1
  <2>2. CASE i = Len(s) + 1
    BY <1>1, <1>2, <1>3, <1>4, <1>5, <1>6, <2>2
  <2>3. CASE i > Len(s) + 1
    <3>1. i - Len(a) \in 1..Len(h)
      BY <1>1, <1>2, <1>3, <1>6, <2>3
    <3>2. h[i - Len(a)] = t[i - Len(s)]
      <4>1. h[i - Len(a)] = t[(i - Len(a)) + 1]
        BY <1>1, <3>1
      <4>2. (i - Len(a)) + 1 = i - Len(s)
        BY <1>1, <1>2
      <4>3. QED BY <4>1, <4>2
    <3>3. QED BY <1>1, <1>2, <1>3, <1>4, <1>5, <1>6, <2>3, <3>2
  <2>4. QED BY <1>1, <1>2, <1>3, <1>6, <2>1, <2>2, <2>3
<1>7. a \o h = s \o t
  BY <1>3, <1>4, <1>5, <1>6, SeqEqual
<1>8. QED BY <1>7 DEF a, h

(* The first part of two sequences is a prefix of them.                    *)
LEMMA PrefixIs ==
    ASSUME NEW S, NEW s \in Seq(S), NEW t \in Seq(S)
    PROVE  s = SubSeq(s \o t, 1, Len(s))
<1>1. /\ Len(s) \in Nat /\ Len(t) \in Nat /\ s \o t \in Seq(S) /\ Len(s \o t) = Len(s) + Len(t)
      /\ \A i \in 1..Len(s) : (s \o t)[i] = s[i]
  BY ConcatProperties, LenProperties
<1>2. \A i \in 1..Len(s) : (s \o t)[i] \in S
  BY <1>1, ElementOfSeq
<1>3. /\ SubSeq(s \o t, 1, Len(s)) \in Seq(S) /\ Len(SubSeq(s \o t, 1, Len(s))) = Len(s)
      /\ \A i \in 1..Len(s) : SubSeq(s \o t, 1, Len(s))[i] = (s \o t)[i]
  BY <1>1, <1>2, SubSeqProperties
<1>4. QED BY <1>1, <1>3, SeqEqual

(* Whatever else changes, the order is kept.                               *)
LEMMA SameKeeps ==
    ASSUME NEW c, NEW d, Same(c, d), c \in Connections, d \in Connections
    PROVE  (InOrder(c) => InOrder(d)) /\ (Whole(c) => Whole(d))
  BY DEF Same, InOrder, Whole, Cut, Connections

(* Closing, reading and parsing a header leave the messages alone.         *)
LEMMA CloseSame ==
    ASSUME NEW c \in Connections, NEW force
    PROVE  Same(c, CloseSocket(c)) /\ Same(c, Close(c, force))
  BY DEF Same, CloseSocket, Close, Connections

LEMMA ReadSame ==
    ASSUME NEW c \in Connections, NEW what
    PROVE  Same(c, StartRead(c, what)) /\ Same(c, EndRead(c))
  BY DEF Same, StartRead, EndRead, Connections

LEMMA SameTransitive ==
    ASSUME NEW c, NEW d, NEW e, Same(c, d), Same(d, e)
    PROVE  Same(c, e)
  BY DEF Same

(* send() appends to both ends of the equation, and to neither once the    *)
(* state is DISCONNECTED.                                                  *)
LEMMA SendOrdered ==
    ASSUME NEW c \in Connections, NEW m \in Messages
    PROVE  (InOrder(c) => InOrder(Send(c, m))) /\ (Whole(c) => Whole(Send(c, m)))
<1> DEFINE d == [c EXCEPT !.queue = Append(c.queue, m), !.accepted = Append(c.accepted, m)]
<1>1. CASE c.state = "DISCONNECTED"
  BY <1>1 DEF Send
<1>2. CASE c.state # "DISCONNECTED"
  <2>1. c.queue \in Seq(Messages) /\ c.wire \in Seq(Messages)
    BY DEF Connections
  <2>2. c.wire \o Append(c.queue, m) = Append(c.wire \o c.queue, m)
    <3> DEFINE w == c.wire
               q == c.queue
    <3>1. w \in Seq(Messages) /\ q \in Seq(Messages)
      BY <2>1
    <3> HIDE DEF w, q
    <3>2. w \o Append(q, m) = Append(w \o q, m)
      BY <3>1, AppendMoves
    <3>3. QED BY <3>2 DEF w, q
  <2>3. /\ d.wire = c.wire /\ d.queue = Append(c.queue, m) /\ d.accepted = Append(c.accepted, m)
    BY DEF Connections
  <2>4. Whole(c) => Whole(d)
    BY <2>2, <2>3 DEF Whole
  <2>5. Send(c, m) = IF c.queue = <<>> THEN InternalSend(d, m) ELSE d
    BY <1>2 DEF Send
  <2>6. Whole(d) => Whole(InternalSend(d, m))
    BY DEF Whole, InternalSend, Connections
  <2>7. Whole(c) => Whole(Send(c, m))
    BY <2>4, <2>5, <2>6
  <2>8. InOrder(c) => Whole(c)
    BY <1>2 DEF InOrder, Cut
  <2>9. QED BY <2>7, <2>8 DEF InOrder
<1>3. QED BY <1>1, <1>2

(* A completed write moves the front message over, and InternalSend and    *)
(* CloseSocket come after that.                                            *)
LEMMA WrittenOrdered ==
    ASSUME NEW c, Sound(c), c.writing # <<>>
    PROVE  (InOrder(c) => InOrder(Written(c))) /\ (Whole(c) => Whole(Written(c)))
<1> DEFINE d == [EndWrite(c) EXCEPT !.wire = Append(@, Head(c.writing))]
<1>1. /\ c \in Connections /\ c.queue \in Seq(Messages) /\ c.wire \in Seq(Messages)
      /\ c.queue # <<>> /\ Head(c.writing) = Head(c.queue)
  BY DEF Sound, Connections
<1>2. /\ d.queue = Tail(c.queue) /\ d.wire = Append(c.wire, Head(c.queue))
      /\ d.accepted = c.accepted /\ d.open = c.open /\ d.state = c.state
  BY <1>1 DEF EndWrite, Connections
<1>3. d.wire \o d.queue = c.wire \o c.queue
  BY <1>1, <1>2, HeadMoves
<1>4. (InOrder(c) => InOrder(d)) /\ (Whole(c) => Whole(d))
  BY <1>2, <1>3 DEF InOrder, Whole, Cut
<1>5. d \in Connections
  <2>1. Tail(c.queue) \in Seq(Messages) /\ Head(c.queue) \in Messages /\ Tail(c.writing) \in Seq(Messages)
    BY <1>1, HeadTailProperties DEF Connections
  <2>2. Append(c.wire, Head(c.writing)) \in Seq(Messages)
    BY <1>1, <2>1
  <2>3. QED BY <1>1, <2>1, <2>2 DEF EndWrite, Connections
<1> HIDE DEF d
<1>6. \A m : Same(d, InternalSend(d, m))
  BY <1>5 DEF Same, InternalSend, Connections
<1>7. Same(d, CloseSocket(d)) /\ Same(d, d)
  BY <1>5, CloseSame DEF Same
<1>8. Same(d, Written(c))
  BY <1>6, <1>7 DEF Written, d
<1>9. Written(c) \in Connections
  BY WriteKeeps DEF Sound
<1>10. QED BY <1>4, <1>5, <1>8, <1>9, SameKeeps

(* A failed write drops what is queued, and closes by force.               *)
LEMMA WriteFailedOrdered ==
    ASSUME NEW c, Sound(c), c.writing # <<>>, InOrder(c)
    PROVE  InOrder(WriteFailed(c))
<1> DEFINE e == [EndWrite(c) EXCEPT !.queue = <<>>]
           f == Close(e, TRUE)
<1>1. /\ c \in Connections /\ c.queue \in Seq(Messages) /\ c.wire \in Seq(Messages)
      /\ c.accepted \in Seq(Messages)
  BY DEF Sound, Connections
<1>2. /\ e.queue = <<>> /\ e.wire = c.wire /\ e.accepted = c.accepted
  BY DEF EndWrite
<1>3. f.queue = <<>> /\ f.wire = c.wire /\ f.accepted = c.accepted
      /\ f.state = "DISCONNECTED" /\ ~f.open
  BY <1>1, <1>2 DEF Close, CloseSocket, EndWrite, Connections
<1>4. \E dropped \in Seq(Messages) : c.accepted = c.wire \o dropped
  <2>1. CASE Whole(c)
    BY <1>1, <2>1 DEF Whole
  <2>2. CASE Cut(c)
    <3>1. PICK rest \in Seq(Messages) : c.accepted = (c.wire \o c.queue) \o rest
      BY <2>2 DEF Cut
    <3>2. c.queue \o rest \in Seq(Messages) /\ c.accepted = c.wire \o (c.queue \o rest)
      <4> DEFINE w == c.wire
                 q == c.queue
      <4>1. w \in Seq(Messages) /\ q \in Seq(Messages)
        BY <1>1
      <4> HIDE DEF w, q
      <4>2. q \o rest \in Seq(Messages) /\ (w \o q) \o rest = w \o (q \o rest)
        BY <4>1, ConcatAssociative, ConcatProperties
      <4>3. QED BY <3>1, <4>2 DEF w, q
    <3>3. QED BY <3>2
  <2>3. QED BY <2>1, <2>2 DEF InOrder
<1>5. c.wire \o <<>> = c.wire
  BY <1>1, ConcatEmptySeq
<1>6. Cut(f)
  <2> HIDE DEF f
  <2>1. QED BY <1>3, <1>4, <1>5 DEF Cut
<1>7. QED BY <1>6 DEF WriteFailed, InOrder

(* parseHeader's outcomes: only AfterHello changes a state, from STAGE2.   *)
LEMMA HeaderSame ==
    ASSUME NEW c, Sound(c), NEW d \in HeaderOutcomes(c)
    PROVE  Same(c, d)
<1> DEFINE named  == [c EXCEPT !.hello = "name"]
           done   == [c EXCEPT !.hello = "done"]
<1>1. c \in Connections /\ named \in Connections /\ done \in Connections
  BY DEF Sound, Connections
<1>2. Same(c, c) /\ Same(c, named) /\ Same(c, done)
  BY DEF Same, Connections, Sound
<1>3. ASSUME NEW e \in Connections PROVE AfterHello(e) \in Connections /\ Same(e, AfterHello(e))
  BY DEF AfterHello, Same, Connections
<1>4. \A e \in Connections : /\ \A force : Same(e, Close(e, force))
                             /\ \A what : Same(e, StartRead(e, what))
  BY CloseSame, ReadSame
<1>5. \/ d = Close(c, FALSE) \/ d = Close(c, TRUE)
      \/ d = StartRead(named, "header") \/ d = StartRead(done, "header")
      \/ \E e \in {c, done} : d \in {Close(AfterHello(e), TRUE), StartRead(AfterHello(e), "body")}
  BY Zenon DEF HeaderOutcomes
<1> HIDE DEF named, done
<1>6. CASE d = Close(c, FALSE) \/ d = Close(c, TRUE)
  BY <1>1, <1>4, <1>6
<1>7. CASE d = StartRead(named, "header") \/ d = StartRead(done, "header")
  BY <1>1, <1>2, <1>4, <1>7, SameTransitive
<1>8. CASE \E e \in {c, done} : d \in {Close(AfterHello(e), TRUE), StartRead(AfterHello(e), "body")}
  <2>1. PICK e \in {c, done} : d \in {Close(AfterHello(e), TRUE), StartRead(AfterHello(e), "body")}
    BY <1>8
  <2>2. e \in Connections /\ Same(c, e)
    BY <1>1, <1>2
  <2>3. AfterHello(e) \in Connections /\ Same(e, AfterHello(e))
    BY <1>3, <2>2
  <2>4. Same(AfterHello(e), d)
    BY <1>4, <2>1, <2>3
  <2>5. Same(c, AfterHello(e))
    BY <2>2, <2>3, SameTransitive
  <2>6. QED BY <2>4, <2>5, SameTransitive
<1>9. QED BY <1>5, <1>6, <1>7, <1>8

(* parsePacket's: the protocol may send a last message.                    *)
LEMMA BodyOrdered ==
    ASSUME NEW c, Sound(c), NEW d \in BodyOutcomes(c)
    PROVE  (InOrder(c) => InOrder(d)) /\ (Whole(c) => Whole(d))
<1> DEFINE told == [c EXCEPT !.protocol = TRUE, !.first = TRUE]
           first == [c EXCEPT !.first = TRUE]
           Kept(e) == Sound(e) /\ (InOrder(c) => InOrder(e)) /\ (Whole(c) => Whole(e))
<1>1. c \in Connections /\ Sound(told) /\ Sound(first)
  BY DEF Sound, Connections
<1>2. Same(c, told) /\ Same(c, first)
  BY <1>1 DEF Same, Connections
<1> HIDE DEF told, first
<1>3. Kept(told) /\ Kept(first)
  BY <1>1, <1>2, SameKeeps DEF Sound
<1>4. ASSUME NEW e, NEW force, Kept(e) PROVE Kept(Close(e, force))
  <2>1. Sound(Close(e, force)) /\ Same(e, Close(e, force))
    BY <1>4, CloseKeeps, CloseSame DEF Sound
  <2>2. QED BY <1>4, <2>1, SameKeeps DEF Sound
<1>5. ASSUME NEW e, Kept(e) PROVE Kept(StartRead(e, "header"))
  <2>1. Sound(StartRead(e, "header")) /\ Same(e, StartRead(e, "header"))
    BY <1>5, ReadKeeps, ReadSame DEF Sound
  <2>2. QED BY <1>5, <2>1, SameKeeps DEF Sound
<1>6. ASSUME NEW e, NEW m \in Messages, Kept(e) PROVE Kept(Send(e, m))
  BY <1>6, SendKeeps, SendOrdered DEF Sound
<1> HIDE DEF Kept
<1>7. \A e \in Parsed(told) : Kept(e)
  BY <1>3, <1>4, <1>6 DEF Parsed
<1>8. d = Close(first, TRUE) \/ \E e \in Parsed(told) : d = StartRead(e, "header")
  BY DEF BodyOutcomes, told, first
<1>9. Kept(d)
  BY <1>3, <1>4, <1>5, <1>7, <1>8
<1>10. QED BY <1>9 DEF Kept

(* Every step keeps the order.                                             *)
LEMMA NextOrdered == OrderInv /\ [Next]_vars => OrderInv'
<1> SUFFICES ASSUME OrderInv, [Next]_vars PROVE OrderInv'
  OBVIOUS
<1>1. Inv /\ Inv'
  BY NextInv DEF OrderInv
<1>2. Sound(conn) /\ conn \in Connections /\ conn' \in Connections
  BY <1>1 DEF Inv, Sound
<1>3. InOrder(conn) /\ (phase # "running" => Whole(conn))
  BY DEF OrderInv
<1>4. ASSUME Same(conn, conn'), phase' = phase \/ phase' = "running" PROVE OrderInv'
  BY <1>1, <1>2, <1>3, <1>4, SameKeeps DEF OrderInv
<1>5. CASE Reject
  BY <1>2, <1>4, <1>5, CloseSame DEF Reject
<1>6. CASE AcceptProtocol \/ SetStage
  <2>1. /\ conn'.queue = conn.queue /\ conn'.wire = conn.wire /\ conn'.accepted = conn.accepted
        /\ phase # "running"
    BY <1>2, <1>6 DEF AcceptProtocol, SetStage, Connections
  <2>2. Whole(conn')
    BY <1>3, <2>1 DEF Whole
  <2>3. QED BY <1>1, <2>2 DEF OrderInv, InOrder, Whole
<1>7. CASE FirstRead
  BY <1>2, <1>4, <1>7, ReadSame DEF FirstRead
<1>8. CASE DataArrives \/ DataSent
  <2>1. Same(conn, conn')
    BY <1>2, <1>8 DEF DataArrives, DataSent, Same, Connections
  <2>2. QED BY <1>4, <1>8, <2>1 DEF DataArrives, DataSent
<1>9. ASSUME NEW t \in Timers, TimerExpires(t) \/ HandleTimeout(t) PROVE OrderInv'
  <2>1. Same(conn, conn')
    BY <1>2, <1>9 DEF TimerExpires, HandleTimeout, Same, Connections
  <2>2. QED BY <1>4, <1>9, <2>1 DEF TimerExpires, HandleTimeout
<1>10. EndRead(conn) \in Connections /\ Sound(EndRead(conn)) /\ Same(conn, EndRead(conn))
  BY <1>2, ReadKeeps, ReadSame DEF Sound
<1>11. CASE ReadFails
  <2>1. Same(EndRead(conn), conn')
    BY <1>10, <1>11, CloseSame DEF ReadFails
  <2>2. Same(conn, conn')
    BY <1>10, <2>1, SameTransitive
  <2>3. QED BY <1>4, <1>11, <2>2 DEF ReadFails
<1>12. CASE ParseHeader
  <2>1. Same(EndRead(conn), conn')
    BY <1>10, <1>12, HeaderSame DEF ParseHeader, Same
  <2>2. Same(conn, conn')
    BY <1>10, <2>1, SameTransitive
  <2>3. QED BY <1>4, <1>12, <2>2 DEF ParseHeader, ReadDone
<1>13. CASE ParsePacket
  <2>1. InOrder(EndRead(conn))
    BY <1>2, <1>3, <1>10, SameKeeps
  <2>2. InOrder(conn')
    BY <1>10, <1>13, <2>1, BodyOrdered DEF ParsePacket
  <2>3. phase = "running" /\ phase' = phase
    BY <1>13 DEF ParsePacket, ReadDone, NetworkFree
  <2>4. QED BY <1>1, <2>2, <2>3 DEF OrderInv
<1>14. CASE OnWriteOperation
  <2>1. InOrder(conn')
    <3>1. conn.writing # <<>> /\ (conn' = Written(conn) \/ conn' = WriteFailed(conn))
      BY <1>14, Zenon DEF OnWriteOperation
    <3>2. InOrder(Written(conn))
      BY <1>2, <1>3, <3>1, WrittenOrdered
    <3>3. InOrder(WriteFailed(conn))
      BY <1>2, <1>3, <3>1, WriteFailedOrdered
    <3> QED BY <3>1, <3>2, <3>3, Zenon
  <2>2. phase = "running" /\ phase' = phase
    BY <1>14 DEF OnWriteOperation, NetworkFree
  <2>3. QED BY <1>1, <2>1, <2>2 DEF OrderInv
<1>15. ASSUME NEW m \in Messages, DispatcherSends(m) PROVE OrderInv'
  <2>1. conn' = Send(conn, m) /\ phase' = phase
    BY <1>15 DEF DispatcherSends
  <2>2. InOrder(conn') /\ (Whole(conn) => Whole(conn'))
    BY <1>2, <1>3, <2>1, SendOrdered
  <2>3. QED BY <1>1, <1>3, <2>1, <2>2 DEF OrderInv
<1>16. CASE DispatcherCloses \/ CloseAll
  <2>1. Same(conn, conn')
    BY <1>2, <1>16, ZenonT(40) DEF DispatcherCloses, CloseAll, Same, Connections
  <2>2. QED BY <1>4, <1>16, <2>1 DEF DispatcherCloses, CloseAll
<1>17. ASSUME NEW who \in Closers, CloseLocked(who) PROVE OrderInv'
  BY <1>2, <1>4, <1>17, CloseSame DEF CloseLocked
<1>18. CASE Destroy
  <2>1. CloseSocket(conn) \in Connections /\ Same(conn, CloseSocket(conn))
    BY <1>2, CloseSocketKeeps, CloseSame DEF Sound
  <2>2. Same(CloseSocket(conn), conn')
    BY <1>18, <2>1 DEF Destroy, Same, Connections
  <2>3. Same(conn, conn')
    BY <2>1, <2>2, SameTransitive
  <2>4. QED BY <1>4, <1>18, <2>3 DEF Destroy
<1>19. CASE UNCHANGED vars
  BY <1>19 DEF vars, OrderInv, Inv, Sound, InOrder, Whole, Cut
<1>20. QED
  BY <1>5, <1>6, <1>7, <1>8, <1>9, <1>11, <1>12, <1>13, <1>14, <1>15, <1>16, <1>17, <1>18,
     <1>19 DEF Next, AcceptStep

(* The client gets what was sent to it in the order it was sent, without a *)
(* gap, whatever fails and whoever closes; and all of it is sent or waits  *)
(* in the queue as long as the socket is open.                             *)
THEOREM SentInOrderHolds == Spec => []SentInOrder
<1>1. Init => OrderInv
  <2> SUFFICES ASSUME Init PROVE OrderInv
    OBVIOUS
  <2>1. <<>> \o <<>> = <<>>
    OBVIOUS
  <2>2. Whole(conn)
    BY <2>1 DEF Init, Whole
  <2>3. QED BY <2>2, InitInv DEF OrderInv, InOrder
<1>2. OrderInv => SentInOrder
  <2> SUFFICES ASSUME OrderInv PROVE SentInOrder
    OBVIOUS
  <2> DEFINE kept == conn.wire \o conn.queue
  <2>1. /\ conn.wire \in Seq(Messages) /\ conn.queue \in Seq(Messages)
        /\ conn.accepted \in Seq(Messages)
    BY DEF OrderInv, Inv, Sound, Connections
  <2>2. kept \in Seq(Messages)
    BY <2>1, ConcatProperties
  <2>3. conn.open => kept = conn.accepted
    BY DEF OrderInv, InOrder, Whole, Cut
  <2>4. \E dropped \in Seq(Messages) : conn.accepted = kept \o dropped
    <3>1. <<>> \in Seq(Messages) /\ kept \o <<>> = kept
      BY <2>2, ConcatEmptySeq, EmptySeq
    <3>2. QED BY <3>1 DEF OrderInv, InOrder, Whole, Cut
  <2> HIDE DEF kept
  <2>5. kept = SubSeq(conn.accepted, 1, Len(kept))
    BY <2>2, <2>4, PrefixIs
  <2>6. QED BY <2>3, <2>5 DEF SentInOrder, kept
<1>3. QED
  BY <1>1, <1>2, NextOrdered, PTL DEF Spec
-----------------------------------------------------------------------------
(***************************************************************************)
(* Timers and the connection's life.  A function's body keeps the front of *)
(* the queue timed (Served) and a connection in use reading under a timer  *)
(* (Watched), and tells the protocol when it closes (Told); a time-out     *)
(* that is about to close takes the first two away, until it has the lock. *)
(***************************************************************************)
Served(c) == c.open /\ c.queue # <<>> => "write" \in c.armed \cup c.fired

Watched(c) ==
    c.state # "DISCONNECTED" =>
        c.readOp # "none" /\ (c.open => "read" \in c.armed \cup c.fired)

Told(c) ==
    IF c.state = "DISCONNECTED" THEN c.told = c.protocol ELSE c.alive /\ ~c.told

LiveInv ==
    /\ Inv
    /\ Told(conn)
    /\ phase # "running" =>
          conn.state # "DISCONNECTED" /\ midClose = {} /\ ~conn.first
    /\ phase = "accepting" => ~conn.protocol
    /\ "timeout" \notin midClose => Served(conn) /\ (phase = "running" => Watched(conn))
    /\ ~conn.alive => /\ ~conn.managed /\ phase = "running" /\ midClose = {}
                      /\ conn.readOp = "none" /\ conn.writing = <<>>

\* d is c with other things changed, timers armed among them.
Steady(c, d) ==
    /\ d.state = c.state /\ d.told = c.told /\ d.protocol = c.protocol
    /\ d.alive = c.alive /\ d.first = c.first

(* What close() leaves, of the fields that count here.                     *)
LEMMA CloseEffect ==
    ASSUME NEW c \in Connections, NEW force \in BOOLEAN
    PROVE  /\ Close(c, force).state = "DISCONNECTED"
           /\ Close(c, force).told = (c.told \/ c.protocol)
           /\ Close(c, force).protocol = c.protocol
           /\ Close(c, force).first = c.first
           /\ Close(c, force).alive = c.alive
           /\ Close(c, force).readOp = c.readOp
           /\ Close(c, force).writing = c.writing
           /\ Close(c, force).queue = c.queue
           /\ ~Close(c, force).managed
           /\ force => ~Close(c, force).open
           /\ Close(c, force).open =>
                 c.open /\ Close(c, force).armed = c.armed /\ Close(c, force).fired = c.fired
  BY DEF Close, CloseSocket, Connections

(* Closing serves and watches, and tells the protocol at once.             *)
LEMMA CloseServes ==
    ASSUME NEW c \in Connections, NEW force \in BOOLEAN
    PROVE  /\ Served(c) \/ force => Served(Close(c, force))
           /\ Watched(Close(c, force))
           /\ Told(c) => Told(Close(c, force))
<1> DEFINE d == Close(c, force)
<1>1. /\ d.state = "DISCONNECTED" /\ d.told = (c.told \/ c.protocol)
      /\ d.protocol = c.protocol /\ d.queue = c.queue
      /\ force => ~d.open
      /\ d.open => c.open /\ d.armed = c.armed /\ d.fired = c.fired
  BY CloseEffect
<1> HIDE DEF d
<1>2. Served(c) \/ force => Served(d)
  BY <1>1 DEF Served
<1>3. Watched(d)
  BY <1>1 DEF Watched
<1>4. Told(c) => Told(d)
  <2>1. c.told \in BOOLEAN /\ c.protocol \in BOOLEAN
    BY DEF Connections
  <2>2. Told(c) => (c.told \/ c.protocol) = c.protocol
    BY <2>1 DEF Told
  <2>3. QED BY <1>1, <2>2 DEF Told
<1>5. QED BY <1>2, <1>3, <1>4 DEF d

(* send() arms the write timer with the write it starts.                   *)
LEMMA SendServes ==
    ASSUME NEW c \in Connections, NEW m \in Messages
    PROVE  /\ Steady(c, Send(c, m)) /\ Send(c, m).readOp = c.readOp
           /\ Send(c, m).managed = c.managed
           /\ Served(c) => Served(Send(c, m))
           /\ Watched(c) => Watched(Send(c, m))
<1> DEFINE d == [c EXCEPT !.queue = Append(c.queue, m), !.accepted = Append(c.accepted, m)]
<1>1. Send(c, m) = IF c.state = "DISCONNECTED" THEN c
                   ELSE IF c.queue = <<>> THEN InternalSend(d, m) ELSE d
  BY DEF Send
<1>2. CASE c.state = "DISCONNECTED"
  BY <1>1, <1>2 DEF Steady
<1>3. CASE c.state # "DISCONNECTED" /\ c.queue = <<>>
  <2>1. Send(c, m) = [d EXCEPT !.armed = @ \cup {"write"}, !.writing = Append(@, m)]
    BY <1>1, <1>3 DEF InternalSend
  <2>2. QED BY <1>3, <2>1 DEF Steady, Served, Watched, Connections
<1>4. CASE c.state # "DISCONNECTED" /\ c.queue # <<>>
  BY <1>1, <1>4 DEF Steady, Served, Watched, Connections
<1>5. QED BY <1>2, <1>3, <1>4

(* A read is started under its timer; a handler that ended one may have    *)
(* left the connection without.                                            *)
LEMMA ReadServes ==
    ASSUME NEW c \in Connections, NEW what \in {"header", "body"}
    PROVE  /\ Steady(c, StartRead(c, what)) /\ Steady(c, EndRead(c))
           /\ StartRead(c, what).managed = c.managed
           /\ Watched(StartRead(c, what))
           /\ Served(c) => Served(StartRead(c, what)) /\ Served(EndRead(c))
           /\ c.state = "DISCONNECTED" => Watched(EndRead(c))
<1>1. StartRead(c, what).armed = c.armed \cup {"read"} /\ StartRead(c, what).readOp # "none"
  BY DEF StartRead, Connections
<1>2. EndRead(c).armed = c.armed \ {"read"}
  BY DEF EndRead, Connections
<1>3. QED BY <1>1, <1>2 DEF Steady, StartRead, EndRead, Served, Watched, Connections

LEMMA WriteServes ==
    ASSUME NEW c, Sound(c), c.writing # <<>>, Served(c)
    PROVE  /\ Steady(c, Written(c)) /\ Served(Written(c))
           /\ Watched(c) => Watched(Written(c))
<1> DEFINE d == [EndWrite(c) EXCEPT !.wire = Append(@, Head(c.writing))]
<1>1. /\ d.open = c.open /\ d.armed = c.armed \ {"write"} /\ d.fired = c.fired
      /\ d.readOp = c.readOp /\ Steady(c, d)
  BY DEF Sound, Connections, EndWrite, Steady
<1>3. CASE d.queue # <<>>
  <2>1. Written(c) = [d EXCEPT !.armed = @ \cup {"write"}, !.writing = Append(@, Head(d.queue))]
    BY <1>3 DEF Written, InternalSend
  <2>2. /\ Written(c).armed = d.armed \cup {"write"} /\ Written(c).open = d.open
        /\ Written(c).fired = d.fired /\ Written(c).readOp = d.readOp /\ Steady(d, Written(c))
    BY <2>1 DEF Sound, Connections, EndWrite, Steady
  <2> HIDE DEF d
  <2>3. QED BY <1>1, <2>2 DEF Steady, Served, Watched
<1>4. CASE d.queue = <<>>
  <2>1. Written(c) = IF d.state = "DISCONNECTED" THEN CloseSocket(d) ELSE d
    BY <1>4 DEF Written
  <2>2. /\ Written(c).queue = <<>> /\ Written(c).readOp = d.readOp /\ Steady(d, Written(c))
        /\ Written(c).open => Written(c).armed = d.armed /\ Written(c).fired = d.fired /\ d.open
    BY <1>4, <2>1 DEF Sound, Connections, EndWrite, Steady, CloseSocket
  <2> HIDE DEF d
  <2>3. QED BY <1>1, <2>2 DEF Steady, Served, Watched
<1>5. QED BY <1>3, <1>4

(* What a step may do to the connection, as its protocol sees it.          *)
Moves(c, d) ==
    /\ d.alive = c.alive \/ (c.state = "DISCONNECTED" /\ ~d.alive)
    /\ c.state = "DISCONNECTED" => d.state = "DISCONNECTED"
    /\ d.protocol = c.protocol \/ (c.state # "DISCONNECTED" /\ ~c.protocol /\ d.protocol)

(* parseHeader, for a connection that is not closed.                       *)
LEMMA HeaderServes ==
    ASSUME NEW c, Sound(c), NEW d \in HeaderOutcomes(c),
           c.state # "DISCONNECTED", Served(c), Told(c)
    PROVE  /\ Served(d) /\ Watched(d) /\ Told(d) /\ d.first = c.first
           /\ d.alive = c.alive /\ d.protocol = c.protocol
<1> DEFINE named  == [c EXCEPT !.hello = "name"]
           done   == [c EXCEPT !.hello = "done"]
           Good(e) == /\ e \in Connections /\ Served(e) /\ Told(e)
                      /\ e.alive = c.alive /\ e.protocol = c.protocol /\ e.first = c.first
<1>1. Good(c) /\ Good(named) /\ Good(done)
  <2>1. c \in Connections
    BY DEF Sound
  <2>2. /\ named \in Connections /\ named.open = c.open /\ named.queue = c.queue
        /\ named.armed = c.armed /\ named.fired = c.fired /\ named.told = c.told
        /\ named.state = c.state /\ named.alive = c.alive /\ named.protocol = c.protocol
        /\ named.first = c.first
    BY <2>1 DEF Connections
  <2>3. /\ done \in Connections /\ done.open = c.open /\ done.queue = c.queue
        /\ done.armed = c.armed /\ done.fired = c.fired /\ done.told = c.told
        /\ done.state = c.state /\ done.alive = c.alive /\ done.protocol = c.protocol
        /\ done.first = c.first
    BY <2>1 DEF Connections
  <2> HIDE DEF named, done
  <2> QED BY <2>1, <2>2, <2>3 DEF Served, Told
<1>2. ASSUME NEW e, Good(e) PROVE Good(AfterHello(e))
  <2> DEFINE g == [e EXCEPT !.state = "GAME"]
  <2>1. /\ g \in Connections /\ g.open = e.open /\ g.queue = e.queue /\ g.armed = e.armed
        /\ g.fired = e.fired /\ g.told = e.told /\ g.state = "GAME" /\ g.alive = e.alive
        /\ g.protocol = e.protocol /\ g.first = e.first
    BY <1>2 DEF Connections
  <2>2. CASE e.hello = "done" /\ e.state = "STAGE2"
    <3>1. AfterHello(e) = g
      BY <2>2 DEF AfterHello
    <3> HIDE DEF g
    <3>2. Served(g) /\ Told(g)
      BY <1>2, <2>1, <2>2 DEF Served, Told
    <3>3. QED BY <1>2, <2>1, <3>1, <3>2
  <2>3. CASE ~(e.hello = "done" /\ e.state = "STAGE2")
    BY <1>2, <2>3 DEF AfterHello
  <2>4. QED BY <2>2, <2>3
<1> HIDE DEF named, done
<1>3. ASSUME NEW e, Good(e), NEW force \in BOOLEAN, d = Close(e, force)
      PROVE  /\ Served(d) /\ Watched(d) /\ Told(d) /\ d.first = c.first
             /\ d.alive = c.alive /\ d.protocol = c.protocol
  BY <1>3, CloseServes, CloseEffect
<1>4. ASSUME NEW e, Good(e), NEW what \in {"header", "body"}, d = StartRead(e, what)
      PROVE  /\ Served(d) /\ Watched(d) /\ Told(d) /\ d.first = c.first
             /\ d.alive = c.alive /\ d.protocol = c.protocol
  <2>1. Steady(e, d) /\ Watched(d) /\ Served(d)
    BY <1>4, ReadServes
  <2>2. QED BY <1>4, <2>1 DEF Steady, Told
<1>5. \/ d = Close(c, FALSE) \/ d = Close(c, TRUE)
      \/ d = StartRead(named, "header") \/ d = StartRead(done, "header")
      \/ \E e \in {c, done} : d \in {Close(AfterHello(e), TRUE), StartRead(AfterHello(e), "body")}
  BY Zenon DEF HeaderOutcomes, named, done
<1> HIDE DEF Good
<1>6. CASE d = Close(c, FALSE) \/ d = Close(c, TRUE)
  BY <1>1, <1>3, <1>6
<1>7. CASE d = StartRead(named, "header") \/ d = StartRead(done, "header")
  BY <1>1, <1>4, <1>7
<1>8. CASE \E e \in {c, done} : d \in {Close(AfterHello(e), TRUE), StartRead(AfterHello(e), "body")}
  BY <1>1, <1>2, <1>3, <1>4, <1>8
<1>9. QED BY <1>5, <1>6, <1>7, <1>8

(* parsePacket, likewise; it may have made the protocol.                   *)
LEMMA BodyServes ==
    ASSUME NEW c, Sound(c), NEW d \in BodyOutcomes(c),
           c.state # "DISCONNECTED", Served(c), Told(c)
    PROVE  /\ Served(d) /\ Watched(d) /\ Told(d)
           /\ d.alive = c.alive /\ (d.protocol = c.protocol \/ (~c.protocol /\ d.protocol))
<1> DEFINE told  == [c EXCEPT !.protocol = TRUE, !.first = TRUE]
           first == [c EXCEPT !.first = TRUE]
           Good(e) == e \in Connections /\ Served(e) /\ Told(e) /\ e.alive = c.alive
<1>1. /\ Good(told) /\ Good(first) /\ told.protocol = TRUE /\ first.protocol = c.protocol
      /\ Sound(told) /\ Sound(first)
  <2>1. Sound(told) /\ Sound(first)
    BY DEF Sound, Connections
  <2>2. \A e \in {told, first} :
           /\ e.open = c.open /\ e.queue = c.queue /\ e.armed = c.armed /\ e.fired = c.fired
           /\ e.told = c.told /\ e.state = c.state /\ e.alive = c.alive
    BY DEF Sound, Connections
  <2>3. told.protocol = TRUE /\ first.protocol = c.protocol
    BY DEF Sound, Connections
  <2> HIDE DEF told, first
  <2>4. \A e \in {told, first} : Served(e) /\ Told(e)
    BY <2>2 DEF Served, Told
  <2>5. QED BY <2>1, <2>2, <2>3, <2>4 DEF Sound
<1> HIDE DEF told, first
<1>2. ASSUME NEW e, Sound(e), Good(e), NEW force \in BOOLEAN
      PROVE  /\ Sound(Close(e, force)) /\ Good(Close(e, force)) /\ Watched(Close(e, force))
             /\ Close(e, force).protocol = e.protocol
  <2>1. Sound(Close(e, force))
    BY <1>2, CloseKeeps
  <2>2. QED BY <1>2, <2>1, CloseServes, CloseEffect DEF Sound
<1>3. ASSUME NEW e, Sound(e), Good(e), NEW m \in Messages
      PROVE  Sound(Send(e, m)) /\ Good(Send(e, m)) /\ Send(e, m).protocol = e.protocol
  <2>1. Sound(Send(e, m))
    BY <1>3, SendKeeps
  <2>2. Steady(e, Send(e, m)) /\ Served(Send(e, m))
    BY <1>3, SendServes
  <2>3. QED BY <1>3, <2>1, <2>2 DEF Sound, Steady, Told
<1>4. ASSUME NEW e, Sound(e), Good(e)
      PROVE  /\ Served(StartRead(e, "header")) /\ Watched(StartRead(e, "header"))
             /\ Told(StartRead(e, "header")) /\ StartRead(e, "header").alive = c.alive
             /\ StartRead(e, "header").protocol = e.protocol
  <2>1. /\ Steady(e, StartRead(e, "header")) /\ Watched(StartRead(e, "header"))
        /\ Served(StartRead(e, "header"))
    BY <1>4, ReadServes
  <2>2. QED BY <1>4, <2>1 DEF Steady, Told
<1>5. d = Close(first, TRUE) \/ \E e \in Parsed(told) : d = StartRead(e, "header")
  BY DEF BodyOutcomes, told, first
<1>6. CASE d = Close(first, TRUE)
  <2>1. Good(d) /\ Watched(d) /\ d.protocol = c.protocol
    BY <1>1, <1>2, <1>6
  <2>2. QED BY <2>1
<1>7. ASSUME NEW e \in Parsed(told), d = StartRead(e, "header")
      PROVE  /\ Served(d) /\ Watched(d) /\ Told(d)
             /\ d.alive = c.alive /\ d.protocol
  <2> HIDE DEF Good
  <2>1. \/ e = told \/ e = Close(told, FALSE)
        \/ \E m \in Messages : e = Close(Send(told, m), FALSE)
    BY DEF Parsed
  <2>2. e = told => Sound(e) /\ Good(e) /\ e.protocol = TRUE
    BY <1>1
  <2>3. e = Close(told, FALSE) => Sound(e) /\ Good(e) /\ e.protocol = TRUE
    BY <1>1, <1>2
  <2>4. ASSUME NEW m \in Messages, e = Close(Send(told, m), FALSE)
        PROVE  Sound(e) /\ Good(e) /\ e.protocol = TRUE
    <3>1. Sound(Send(told, m)) /\ Good(Send(told, m)) /\ Send(told, m).protocol = TRUE
      BY <1>1, <1>3
    <3>2. QED BY <1>2, <2>4, <3>1
  <2>5. Sound(e) /\ Good(e) /\ e.protocol = TRUE
    BY <1>1, <1>2, <2>1, <2>2, <2>3, <2>4
  <2>6. QED BY <1>4, <1>7, <2>5
<1>8. c.protocol \in BOOLEAN
  BY DEF Sound, Connections
<1>9. QED BY <1>5, <1>6, <1>7, <1>8

(* Every step keeps the timers running, and moves the connection's life    *)
(* only onwards.                                                           *)
LEMMA NextLive == LiveInv /\ [Next]_vars => LiveInv' /\ Moves(conn, conn')
<1> SUFFICES ASSUME LiveInv, [Next]_vars PROVE LiveInv' /\ Moves(conn, conn')
  OBVIOUS
<1>1. Inv /\ Inv'
  BY NextInv DEF LiveInv
<1>2. Sound(conn) /\ conn \in Connections /\ conn' \in Connections
  BY <1>1 DEF Inv, Sound
\* Within a handler of the network thread no time-out is closing.
<1>3. ASSUME NetworkFree, conn.alive, conn'.alive = conn.alive, Served(conn'), Watched(conn'),
             Told(conn'), Moves(conn, conn'), UNCHANGED <<phase, midClose>>
      PROVE  LiveInv' /\ Moves(conn, conn')
  BY <1>1, <1>3 DEF LiveInv, NetworkFree
<1>4. CASE Reject
  <2>1. /\ conn' = Close(conn, TRUE) /\ phase' = "running" /\ midClose' = midClose
        /\ phase = "accepting"
    BY <1>4 DEF Reject
  <2>2. Served(conn') /\ Watched(conn') /\ Told(conn') /\ conn'.alive /\ conn.alive
        /\ conn'.protocol = conn.protocol /\ conn'.state = "DISCONNECTED"
    BY <1>2, <2>1, CloseServes, CloseEffect DEF LiveInv
  <2>3. QED BY <1>1, <2>1, <2>2 DEF LiveInv, Moves
<1>5. CASE AcceptProtocol
  <2>1. /\ conn' = [conn EXCEPT !.protocol = TRUE] /\ phase' = "announced" /\ midClose' = midClose
        /\ phase = "accepting"
    BY <1>5 DEF AcceptProtocol
  <2>2. conn'.protocol /\ ~conn.protocol /\ conn.state # "DISCONNECTED"
    BY <1>2, <2>1 DEF Connections, LiveInv
  <2>3. Served(conn) => Served(conn')
    BY <1>2, <2>1 DEF Served, Connections
  <2>4. /\ Told(conn') /\ conn'.alive = conn.alive /\ conn'.state = conn.state
        /\ conn'.first = conn.first
    BY <1>2, <2>1, <2>2 DEF LiveInv, Told, Connections
  <2>5. conn.alive
    BY <2>1 DEF LiveInv
  <2>6. QED BY <1>1, <2>1, <2>2, <2>3, <2>4, <2>5 DEF LiveInv, Moves
<1>6. CASE SetStage
  <2>1. /\ conn' = [conn EXCEPT !.state = "STAGE2"] \/ conn' = [conn EXCEPT !.state = "STAGE1"]
        /\ phase' = "staged" /\ midClose' = midClose /\ phase # "running"
    BY <1>6 DEF SetStage
  <2>2. /\ conn'.state # "DISCONNECTED" /\ conn.state # "DISCONNECTED" /\ conn.alive
        /\ conn'.alive = conn.alive /\ conn'.protocol = conn.protocol /\ conn'.told = conn.told
        /\ conn'.first = conn.first
    <3>1. conn.state # "DISCONNECTED" /\ conn.alive
      BY <2>1 DEF LiveInv, Told
    <3>2. conn \in Connections
      BY <1>2
    <3> QED BY <2>1, <3>1, <3>2 DEF Connections
  <2>3. Served(conn) => Served(conn')
    BY <1>2, <2>1, ZenonT(40) DEF Served, Connections
  <2>4. Told(conn')
    BY <2>2 DEF Told, LiveInv
  <2>5. QED BY <1>1, <2>1, <2>2, <2>3, <2>4 DEF LiveInv, Moves
<1>7. CASE FirstRead
  <2>1. conn' = StartRead(conn, "header") /\ phase' = "running" /\ midClose' = midClose
        /\ phase = "staged"
    BY <1>7 DEF FirstRead
  <2>2. Steady(conn, conn') /\ Watched(conn') /\ (Served(conn) => Served(conn'))
    BY <1>2, <2>1, ReadServes
  <2>3. conn.alive /\ Told(conn')
    BY <2>1, <2>2 DEF LiveInv, Steady, Told
  <2>4. QED BY <1>1, <2>1, <2>2, <2>3 DEF LiveInv, Moves, Steady
<1>8. CASE DataArrives \/ DataSent
  <2>1. /\ Steady(conn, conn') /\ UNCHANGED <<phase, midClose>>
        /\ conn'.managed = conn.managed /\ conn'.readOp = conn.readOp
        /\ conn'.writing = conn.writing /\ conn'.queue = conn.queue /\ conn'.open = conn.open
        /\ conn'.armed = conn.armed /\ conn'.fired = conn.fired
    BY <1>2, <1>8 DEF DataArrives, DataSent, Steady, Connections
  <2>2. QED BY <1>1, <2>1 DEF LiveInv, Moves, Steady, Served, Watched, Told
<1>9. ASSUME NEW t \in Timers, TimerExpires(t) PROVE LiveInv' /\ Moves(conn, conn')
  <2>1. /\ Steady(conn, conn') /\ UNCHANGED <<phase, midClose>>
        /\ conn'.managed = conn.managed /\ conn'.readOp = conn.readOp
        /\ conn'.writing = conn.writing /\ conn'.queue = conn.queue /\ conn'.open = conn.open
        /\ conn'.armed = conn.armed \ {t} /\ conn'.fired = conn.fired \cup {t}
    BY <1>2, <1>9 DEF TimerExpires, Steady, Connections
  <2>2. conn'.armed \cup conn'.fired = (conn.armed \cup conn.fired) \cup {t}
    BY <1>9, <2>1 DEF TimerExpires
  <2>3. QED BY <1>1, <2>1, <2>2 DEF LiveInv, Moves, Steady, Served, Watched, Told
<1>10. ASSUME NEW t \in Timers, HandleTimeout(t) PROVE LiveInv' /\ Moves(conn, conn')
  <2>1. /\ conn' = [conn EXCEPT !.fired = conn.fired \ {t}, !.managed = FALSE]
        /\ midClose' = IF conn.alive THEN midClose \cup {"timeout"} ELSE midClose
        /\ phase = "running" /\ phase' = phase
    BY <1>10 DEF HandleTimeout, NetworkFree
  <2>2. /\ Steady(conn, conn') /\ ~conn'.managed /\ conn'.readOp = conn.readOp
        /\ conn'.writing = conn.writing /\ conn'.queue = conn.queue
    BY <1>2, <2>1 DEF Steady, Connections
  <2>3. Told(conn') /\ Moves(conn, conn')
    BY <2>2 DEF Steady, Told, LiveInv, Moves
  <2>4. CASE conn.alive
    BY <1>1, <2>1, <2>2, <2>3, <2>4 DEF LiveInv, Steady
  <2>5. CASE ~conn.alive
    <3>1. conn.queue = <<>> /\ conn.state = "DISCONNECTED"
      BY <1>2, <2>5 DEF LiveInv, Sound, Told
    <3>2. Served(conn') /\ Watched(conn')
      BY <2>2, <3>1 DEF Served, Watched, Steady
    <3>3. QED BY <1>1, <2>1, <2>2, <2>3, <2>5, <3>2 DEF LiveInv, Steady
  <2>6. QED BY <2>4, <2>5
<1>11. /\ EndRead(conn) \in Connections /\ Sound(EndRead(conn)) /\ Steady(conn, EndRead(conn))
       /\ Served(conn) => Served(EndRead(conn))
       /\ Told(EndRead(conn))
       /\ conn.state = "DISCONNECTED" => Watched(EndRead(conn))
  <2>1. Sound(EndRead(conn)) /\ Steady(conn, EndRead(conn))
    BY <1>2, ReadKeeps, ReadServes
  <2>2. Told(EndRead(conn))
    BY <2>1 DEF LiveInv, Steady, Told
  <2>3. QED BY <1>2, <2>1, <2>2, ReadServes DEF Sound
<1>12. CASE ReadFails
  <2>1. /\ conn' = Close(EndRead(conn), TRUE) /\ NetworkFree /\ conn.readOp # "none"
        /\ UNCHANGED <<phase, midClose>>
    BY <1>12 DEF ReadFails
  <2>2. conn.alive
    BY <2>1 DEF LiveInv
  <2>3. /\ Served(conn') /\ Watched(conn') /\ Told(conn') /\ conn'.alive = conn.alive
        /\ conn'.protocol = conn.protocol /\ conn'.state = "DISCONNECTED"
    BY <1>11, <2>1, CloseServes, CloseEffect DEF Steady
  <2>4. Moves(conn, conn')
    BY <2>3 DEF Moves
  <2>5. QED BY <1>3, <2>1, <2>2, <2>3, <2>4
<1>13. ASSUME NEW what, ReadDone(what), what # "none", conn' = EndRead(conn), conn.state = "DISCONNECTED"
       PROVE  LiveInv' /\ Moves(conn, conn')
  <2>1. NetworkFree /\ UNCHANGED <<phase, midClose>> /\ conn.readOp # "none"
    BY <1>13 DEF ReadDone
  <2>2. conn.alive /\ Served(conn)
    BY <2>1 DEF LiveInv, NetworkFree
  <2>3. Moves(conn, conn') /\ conn'.alive = conn.alive
    BY <1>11, <1>13 DEF Moves, Steady
  <2>4. QED BY <1>3, <1>11, <1>13, <2>1, <2>2, <2>3
<1>14. CASE ParseHeader
  <2>1. NetworkFree /\ UNCHANGED <<phase, midClose>> /\ conn.readOp # "none" /\ ReadDone("header")
    BY <1>14 DEF ParseHeader, ReadDone
  <2>2. conn.alive /\ Served(EndRead(conn))
    BY <1>11, <2>1 DEF LiveInv, NetworkFree
  <2>3. CASE conn.state = "DISCONNECTED"
    BY <1>13, <1>14, <2>1, <2>3 DEF ParseHeader
  <2>4. CASE conn.state # "DISCONNECTED"
    <3>1. conn' \in HeaderOutcomes(EndRead(conn)) /\ EndRead(conn).state # "DISCONNECTED"
      BY <1>11, <1>14, <2>4 DEF ParseHeader, Steady
    <3>2. /\ Served(conn') /\ Watched(conn') /\ Told(conn')
          /\ conn'.alive = conn.alive /\ conn'.protocol = conn.protocol
      BY <1>11, <2>2, <3>1, HeaderServes DEF Steady
    <3>3. Moves(conn, conn')
      BY <2>4, <3>2 DEF Moves
    <3>4. QED BY <1>3, <2>1, <2>2, <3>2, <3>3
  <2>5. QED BY <2>3, <2>4
<1>15. CASE ParsePacket
  <2>1. NetworkFree /\ UNCHANGED <<phase, midClose>> /\ conn.readOp # "none" /\ ReadDone("body")
    BY <1>15 DEF ParsePacket, ReadDone
  <2>2. conn.alive /\ Served(EndRead(conn))
    BY <1>11, <2>1 DEF LiveInv, NetworkFree
  <2>3. CASE conn.state = "DISCONNECTED"
    BY <1>13, <1>15, <2>1, <2>3 DEF ParsePacket
  <2>4. CASE conn.state # "DISCONNECTED"
    <3>1. conn' \in BodyOutcomes(EndRead(conn)) /\ EndRead(conn).state # "DISCONNECTED"
      BY <1>11, <1>15, <2>4 DEF ParsePacket, Steady
    <3>2. /\ Served(conn') /\ Watched(conn') /\ Told(conn')
          /\ conn'.alive = conn.alive
          /\ conn'.protocol = conn.protocol \/ (~conn.protocol /\ conn'.protocol)
      BY <1>11, <2>2, <3>1, BodyServes DEF Steady
    <3>3. Moves(conn, conn')
      BY <2>4, <3>2 DEF Moves
    <3>4. QED BY <1>3, <2>1, <2>2, <3>2, <3>3
  <2>5. QED BY <2>3, <2>4
<1>16. CASE OnWriteOperation
  <2>1. NetworkFree /\ UNCHANGED <<phase, midClose>> /\ conn.writing # <<>>
    BY <1>16 DEF OnWriteOperation
  <2>2. conn.alive /\ Served(conn) /\ Watched(conn)
    BY <2>1 DEF LiveInv, NetworkFree
  <2>3. CASE "write" \in conn.ready
    <3>1. conn' = Written(conn)
      BY <1>16, <2>3 DEF OnWriteOperation
    <3>2. Steady(conn, conn') /\ Served(conn') /\ Watched(conn')
      BY <1>2, <2>1, <2>2, <3>1, WriteServes
    <3>3. Told(conn') /\ Moves(conn, conn') /\ conn'.alive = conn.alive
      BY <3>2 DEF LiveInv, Told, Moves, Steady
    <3>4. QED BY <1>3, <2>1, <2>2, <3>2, <3>3
  <2>4. CASE "write" \notin conn.ready
    <3> DEFINE e == [EndWrite(conn) EXCEPT !.queue = <<>>]
    <3>1. conn' = Close(e, TRUE)
      BY <1>16, <2>4 DEF OnWriteOperation, WriteFailed
    <3>2. e \in Connections /\ Steady(conn, e)
      <4>1. Tail(conn.writing) \in Seq(Messages) /\ <<>> \in Seq(Messages)
        BY <1>2, <2>1, HeadTailProperties, EmptySeq DEF Connections
      <4>2. e = [conn EXCEPT !.writing = Tail(conn.writing), !.queue = <<>>,
                             !.ready = conn.ready \ {"write"}, !.armed = conn.armed \ {"write"}]
        BY <1>2 DEF EndWrite, Connections
      <4> HIDE DEF e
      <4>3. QED BY <1>2, <4>1, <4>2 DEF Steady, Connections
    <3> HIDE DEF e
    <3>3. Told(e)
      BY <3>2 DEF LiveInv, Told, Steady
    <3>4. /\ Served(conn') /\ Watched(conn') /\ Told(conn') /\ conn'.alive = conn.alive
          /\ conn'.protocol = conn.protocol /\ conn'.state = "DISCONNECTED"
      BY <3>1, <3>2, <3>3, CloseServes, CloseEffect DEF Steady
    <3>5. Moves(conn, conn')
      BY <3>4 DEF Moves
    <3>6. QED BY <1>3, <2>1, <2>2, <3>4, <3>5
  <2>5. QED BY <2>3, <2>4
<1>17. ASSUME NEW m \in Messages, DispatcherSends(m) PROVE LiveInv' /\ Moves(conn, conn')
  <2>1. conn' = Send(conn, m) /\ conn.alive /\ UNCHANGED <<phase, midClose>>
    BY <1>17 DEF DispatcherSends, Reachable
  <2>2. /\ Steady(conn, conn') /\ (Served(conn) => Served(conn'))
        /\ Watched(conn) => Watched(conn')
    BY <1>2, <2>1, SendServes
  <2>3. Told(conn') /\ Moves(conn, conn')
    BY <2>2 DEF LiveInv, Told, Moves, Steady
  <2>4. QED BY <1>1, <2>1, <2>2, <2>3 DEF LiveInv, Steady
<1>18. CASE DispatcherCloses
  <2>1. /\ conn' = [conn EXCEPT !.managed = FALSE] /\ phase' = phase
        /\ midClose' = midClose \cup {"dispatcher"} /\ conn.alive /\ conn.first
    BY <1>18 DEF DispatcherCloses
  <2>2. /\ Steady(conn, conn') /\ ~conn'.managed /\ conn'.readOp = conn.readOp
        /\ conn'.queue = conn.queue /\ conn'.armed = conn.armed /\ conn'.fired = conn.fired
        /\ conn'.open = conn.open
    BY <1>2, <2>1 DEF Steady, Connections
  <2>3. QED BY <1>1, <2>1, <2>2 DEF LiveInv, Moves, Steady, Served, Watched, Told
<1>19. CASE CloseAll
  <2>1. /\ conn' = [conn EXCEPT !.managed = FALSE, !.open = FALSE]
        /\ UNCHANGED <<phase, midClose>> /\ conn.alive
    BY <1>19 DEF CloseAll, LiveInv
  <2>2. PICK k \in Connections : k = conn
    BY <1>2
  <2>3. PICK l : l = [k EXCEPT !.managed = FALSE, !.open = FALSE]
    OBVIOUS
  <2>4. /\ l.state = k.state /\ l.told = k.told /\ l.protocol = k.protocol
        /\ l.alive = k.alive /\ l.first = k.first /\ l.open = FALSE /\ l.readOp = k.readOp
    BY <2>3 DEF Connections
  <2>5. Steady(conn, conn') /\ conn'.open = FALSE /\ conn'.readOp = conn.readOp
    BY <2>1, <2>2, <2>3, <2>4 DEF Steady
  <2>6. QED BY <1>1, <2>1, <2>5 DEF LiveInv, Moves, Steady, Served, Watched, Told
<1>20. ASSUME NEW who \in Closers, CloseLocked(who) PROVE LiveInv' /\ Moves(conn, conn')
  <2>1. /\ conn' = Close(conn, IsForced(who)) /\ phase' = phase /\ who \in midClose
        /\ midClose' = midClose \ {who} /\ IsForced(who) \in BOOLEAN
    BY <1>20 DEF CloseLocked, IsForced
  <2>2. conn.alive /\ phase = "running"
    BY <2>1 DEF LiveInv
  <2>3. /\ Watched(conn') /\ Told(conn') /\ conn'.alive = conn.alive
        /\ conn'.protocol = conn.protocol /\ conn'.state = "DISCONNECTED"
        /\ Served(conn) \/ IsForced(who) => Served(conn')
    BY <1>2, <2>1, CloseServes, CloseEffect DEF LiveInv
  <2>4. "timeout" \notin midClose' => Served(conn')
    BY <2>1, <2>3 DEF LiveInv, IsForced
  <2>5. QED BY <1>1, <2>1, <2>2, <2>3, <2>4 DEF LiveInv, Moves
<1>21. CASE Destroy
  <2> DEFINE s == CloseSocket(conn)
  <2>1. /\ conn.alive /\ ~conn.managed /\ phase = "running" /\ midClose = {}
        /\ conn.readOp = "none" /\ conn.writing = <<>>
        /\ conn' = [s EXCEPT !.alive = FALSE, !.armed = {}] /\ UNCHANGED <<phase, midClose>>
    BY <1>21 DEF Destroy, Held
  <2>2. /\ s \in Connections /\ s.state = conn.state /\ s.told = conn.told
        /\ s.protocol = conn.protocol /\ s.managed = conn.managed /\ s.readOp = conn.readOp
        /\ s.writing = conn.writing /\ s.queue = conn.queue
    <3>1. CASE conn.open
      <4>1. s = [conn EXCEPT !.open = FALSE, !.armed = {}]
        BY <3>1, Zenon DEF CloseSocket
      <4>2. conn \in Connections
        BY <1>2
      <4> HIDE DEF s
      <4> QED BY <4>1, <4>2 DEF Connections
    <3>2. CASE ~conn.open
      BY <1>2, <3>2, Zenon DEF CloseSocket
    <3> QED BY <3>1, <3>2
  <2> HIDE DEF s
  <2>3. /\ conn'.state = conn.state /\ conn'.told = conn.told /\ conn'.protocol = conn.protocol
        /\ ~conn'.alive /\ ~conn'.managed /\ conn'.readOp = "none" /\ conn'.writing = <<>>
        /\ conn'.queue = conn.queue
    BY <2>1, <2>2 DEF Connections
  <2>4. conn.state = "DISCONNECTED" /\ conn.queue = <<>>
    BY <1>2, <2>1 DEF LiveInv, Watched, Sound
  <2>5. Served(conn') /\ Watched(conn') /\ Told(conn') /\ Moves(conn, conn')
    BY <2>3, <2>4 DEF LiveInv, Served, Watched, Told, Moves
  <2>6. QED BY <1>1, <2>1, <2>3, <2>5 DEF LiveInv
<1>22. CASE UNCHANGED vars
  BY <1>1, <1>22 DEF vars, LiveInv, Moves, Told, Served, Watched
<1>23. QED
  BY <1>4, <1>5, <1>6, <1>7, <1>8, <1>9, <1>10, <1>12, <1>14, <1>15, <1>16, <1>17, <1>18, <1>19,
     <1>20, <1>21, <1>22 DEF Next, AcceptStep

LEMMA InitLive == Init => LiveInv
<1> SUFFICES ASSUME Init PROVE LiveInv
  OBVIOUS
<1>1. Served(conn) /\ Told(conn)
  BY DEF Init, Served, Told
<1>2. QED BY <1>1, InitInv DEF Init, LiveInv

(* No peer can keep a connection by silence: while it is in use, a timer   *)
(* runs for what it reads and for what it writes, or a time-out is on its  *)
(* way, whatever the handlers, the dispatcher and the shutdown do.         *)
THEOREM NeverUntimedHolds == Spec => []NeverUntimed
<1>1. LiveInv => NeverUntimed
  BY DEF LiveInv, Served, Watched, NeverUntimed
<1>2. QED
  BY InitLive, NextLive, <1>1, PTL DEF Spec

(* To its protocol the connection is the one of ConnectionLife: it never   *)
(* reopens, no protocol is made for a closed one, closing posts release,   *)
(* and the object is freed only after that.                                *)
THEOREM ImplementsLifeSafely == Spec => Life!LifeSafety
<1>1. Init => Life!LifeInit
  BY DEF Init, Life!LifeInit
<1>2. LiveInv /\ [Next]_vars => [Life!LifeNext]_(Life!lifeVars)
  <2> SUFFICES ASSUME LiveInv, [Next]_vars PROVE [Life!LifeNext]_(Life!lifeVars)
    OBVIOUS
  <2>1. LiveInv' /\ Moves(conn, conn')
    BY NextLive
  <2>2. /\ {conn.alive, conn.protocol, conn.told} \subseteq BOOLEAN
        /\ {conn'.alive, conn'.protocol, conn'.told} \subseteq BOOLEAN
    BY <2>1 DEF LiveInv, Inv, Sound, Connections
  <2>3. /\ Told(conn) /\ Told(conn')
        /\ ~conn.alive => conn.state = "DISCONNECTED"
    BY <2>1 DEF LiveInv, Told
  <2>4. CASE ~conn.alive
    <3>1. /\ conn.state = "DISCONNECTED" /\ conn'.state = "DISCONNECTED"
          /\ conn'.protocol = conn.protocol /\ conn'.told = conn.told
      BY <2>1, <2>2, <2>3, <2>4 DEF Moves, Told
    <3>2. ~conn'.alive
      BY <2>1, <2>4 DEF Moves
    <3>3. QED BY <2>4, <3>1, <3>2 DEF Life!lifeVars
  <2>5. CASE conn.alive /\ ~conn'.alive
    <3>1. conn.state = "DISCONNECTED" /\ conn'.protocol = conn.protocol /\ conn'.told = conn.told
      BY <2>1, <2>2, <2>3, <2>5 DEF Moves, Told
    <3>2. Life!Free
      BY <2>5, <3>1 DEF Life!Free
    <3>3. QED BY <3>2 DEF Life!LifeNext
  <2>6. CASE conn.alive /\ conn'.alive
    <3>1. CASE conn.state = "DISCONNECTED"
      <4>1. conn'.state = "DISCONNECTED" /\ conn'.protocol = conn.protocol /\ conn'.told = conn.told
        BY <2>1, <2>2, <2>3, <3>1 DEF Moves, Told
      <4>2. QED BY <2>6, <3>1, <4>1 DEF Life!lifeVars
    <3>2. CASE conn.state # "DISCONNECTED" /\ conn'.protocol = conn.protocol
      <4>1. CASE conn'.state = "DISCONNECTED"
        <5>1. Life!Hangup
          BY <2>3, <2>6, <3>2, <4>1 DEF Life!Hangup, Told
        <5>2. QED BY <5>1 DEF Life!LifeNext
      <4>2. CASE conn'.state # "DISCONNECTED"
        BY <2>2, <2>3, <2>6, <3>2, <4>2 DEF Life!lifeVars, Told
      <4>3. QED BY <4>1, <4>2
    <3>3. CASE conn.state # "DISCONNECTED" /\ conn'.protocol # conn.protocol
      <4>1. conn.protocol = FALSE /\ conn'.protocol = TRUE /\ conn.told = FALSE
        BY <2>1, <2>2, <2>3, <3>3 DEF Moves, Told
      <4>2. CASE conn'.state = "DISCONNECTED"
        <5>1. Life!Attach
          BY <2>2, <2>3, <2>6, <3>3, <4>1, <4>2 DEF Life!Attach, Told
        <5>2. QED BY <5>1 DEF Life!LifeNext
      <4>3. CASE conn'.state # "DISCONNECTED"
        <5>1. Life!Attach
          BY <2>2, <2>3, <2>6, <3>3, <4>1, <4>3 DEF Life!Attach, Told
        <5>2. QED BY <5>1 DEF Life!LifeNext
      <4>4. QED BY <4>2, <4>3
    <3>4. QED BY <3>1, <3>2, <3>3
  <2>7. QED BY <2>2, <2>4, <2>5, <2>6
<1>3. QED
  BY InitLive, NextLive, <1>1, <1>2, PTL DEF Spec, Life!LifeSafety
-----------------------------------------------------------------------------
(* The server's life (ServerLifecycle) *)

\* Those in a list.
Named(s) == {s[i] : i \in DOMAIN s}

\* A list with an entry put behind it,
LEMMA NamedBehind ==
  ASSUME NEW T, NEW s \in Seq(T), NEW x \in T
  PROVE  Named(Append(s, x)) = Named(s) \cup {x}
<1>1. PICK n \in Nat : n = Len(s) /\ DOMAIN s = 1..n
  OBVIOUS
<1>2. PICK a : a = Append(s, x)
  OBVIOUS
<1>3. DOMAIN a = 1..(n + 1) /\ a[n + 1] = x /\ \A i \in 1..n : a[i] = s[i]
  BY <1>1, <1>2
<1>4. Named(a) = Named(s) \cup {x}
  BY <1>1, <1>3 DEF Named
<1> QED BY <1>2, <1>4

\* and in front of it.
LEMMA NamedInFront ==
  ASSUME NEW T, NEW s \in Seq(T), NEW x \in T
  PROVE  Named(<<x>> \o s) = Named(s) \cup {x}
<1>1. PICK n \in Nat : n = Len(s) /\ DOMAIN s = 1..n
  OBVIOUS
<1>2. PICK b : b = <<x>> \o s
  OBVIOUS
<1>3. DOMAIN b = 1..(n + 1) /\ b[1] = x /\ \A i \in 1..n : b[i + 1] = s[i]
  BY <1>1, <1>2
<1>4. \A i \in 1..(n + 1) : i = 1 \/ (i - 1 \in 1..n /\ b[i] = s[i - 1])
  BY <1>3
<1>5. ASSUME NEW i \in 1..(n + 1) PROVE b[i] \in Named(s) \cup {x}
  <2>1. CASE i = 1
    BY <1>3, <2>1
  <2>2. CASE i - 1 \in 1..n /\ b[i] = s[i - 1]
    BY <1>1, <2>2 DEF Named
  <2> QED BY <1>4, <2>1, <2>2
<1>6. (\A i \in 1..n : i + 1 \in 1..(n + 1)) /\ 1 \in 1..(n + 1)
  OBVIOUS
<1>7. Named(s) \cup {x} \subseteq Named(b)
  BY <1>1, <1>3, <1>6 DEF Named
<1>8. Named(b) \subseteq Named(s) \cup {x}
  BY <1>3, <1>5 DEF Named
<1> QED BY <1>2, <1>7, <1>8

\* A list without its first entry.
LEMMA Shortened ==
  ASSUME NEW T, NEW s \in Seq(T), s # <<>>
  PROVE  /\ Head(s) \in T /\ Tail(s) \in Seq(T)
         /\ Named(s) = {Head(s)} \cup Named(Tail(s))
<1>1. PICK n \in Nat : n = Len(s) /\ DOMAIN s = 1..n /\ n > 0
  OBVIOUS
<1>2. PICK h, r : h = Head(s) /\ r = Tail(s)
  OBVIOUS
<1>3. /\ h \in T /\ h = s[1] /\ r \in Seq(T) /\ DOMAIN r = 1..(n - 1)
      /\ \A i \in 1..(n - 1) : r[i] = s[i + 1]
  BY <1>1, <1>2
<1>4. \A i \in 1..n : i = 1 \/ (i - 1 \in 1..(n - 1) /\ s[i] = r[i - 1])
  BY <1>3
<1>5. Named(s) \subseteq {h} \cup Named(r)
  BY <1>1, <1>3, <1>4, SMTT(20) DEF Named
<1>6. (\A i \in 1..(n - 1) : i + 1 \in 1..n) /\ 1 \in 1..n
  BY <1>1
<1>7. {h} \cup Named(r) \subseteq Named(s)
  BY <1>1, <1>3, <1>6 DEF Named
<1> QED BY <1>2, <1>3, <1>5, <1>7

\* The timers in the list are in front of Game::shutdown.
TimersFirst(s) ==
  \A i, j \in DOMAIN s : s[i] = GameShutdown /\ s[j] \in TimerTasks => j < i

\* Behind the halting task there is nothing.
HaltLast(s) == \A i \in DOMAIN s : s[i] = Halt => i = Len(s)

\* All tasks there are, the halting one included.
DTasks == {SignalTask, GameShutdown, CallbackTask} \cup NetTasks \cup TimerTasks \cup {Halt}

\* That remains so whatever addTask puts into the list,
LEMMA PlacedFirst ==
  ASSUME NEW s \in Seq(DTasks), NEW t \in DTasks, TimersFirst(s), t \notin Named(s)
  PROVE  /\ t \in TimerTasks => TimersFirst(<<t>> \o s)
         /\ t \notin TimerTasks => TimersFirst(Append(s, t))
<1>1. PICK n \in Nat : n = Len(s) /\ DOMAIN s = 1..n
  OBVIOUS
<1>2. PICK a, b : a = Append(s, t) /\ b = <<t>> \o s
  OBVIOUS
<1>3. DOMAIN a = 1..(n + 1) /\ a[n + 1] = t /\ \A i \in 1..n : a[i] = s[i]
  BY <1>1, <1>2
<1>4. DOMAIN b = 1..(n + 1) /\ b[1] = t /\ \A i \in 1..(n + 1) : i = 1 \/ (i - 1 \in 1..n /\ b[i] = s[i - 1])
  BY <1>1, <1>2
<1>5. \A i, j \in 1..n : s[i] = GameShutdown /\ s[j] \in TimerTasks => j < i
  BY <1>1 DEF TimersFirst
<1>6. \A i \in 1..n : s[i] # t
  BY <1>1 DEF Named
<1>7. ASSUME t \in TimerTasks, NEW i \in 1..(n + 1), NEW j \in 1..(n + 1),
             b[i] = GameShutdown, b[j] \in TimerTasks
      PROVE  j < i
  <2>1. i # 1
    BY <1>4, <1>7, LifecycleAssumption
  <2>2. CASE j = 1
    BY <2>1, <2>2
  <2>3. CASE j # 1
    <3>1. i - 1 \in 1..n /\ j - 1 \in 1..n /\ b[i] = s[i - 1] /\ b[j] = s[j - 1]
      BY <1>4, <2>1, <2>3
    <3>2. j - 1 < i - 1
      BY <1>5, <1>7, <3>1
    <3> QED BY <3>2
  <2> QED BY <2>2, <2>3
<1>8. ASSUME t \notin TimerTasks, NEW i \in 1..(n + 1), NEW j \in 1..(n + 1),
             a[i] = GameShutdown, a[j] \in TimerTasks
      PROVE  j < i
  <2>1. j # n + 1
    BY <1>3, <1>8
  <2>2. j \in 1..n
    BY <2>1
  <2>3. CASE i = n + 1
    BY <2>2, <2>3
  <2>4. CASE i # n + 1
    <3>1. i \in 1..n
      BY <2>4
    <3> QED BY <1>3, <1>5, <1>8, <2>2, <3>1
  <2> QED BY <2>3, <2>4
<1>9. t \in TimerTasks => TimersFirst(b)
  BY <1>4, <1>7 DEF TimersFirst
<1>10. t \notin TimerTasks => TimersFirst(a)
  BY <1>3, <1>8 DEF TimersFirst
<1> QED BY <1>2, <1>9, <1>10

\* and when the dispatcher takes the first: with Game::shutdown gone, or the
\* halting task, there is no timer left, or nothing.
LEMMA TakenFirst ==
  ASSUME NEW s \in Seq(DTasks), s # <<>>, TimersFirst(s), HaltLast(s)
  PROVE  /\ TimersFirst(Tail(s)) /\ HaltLast(Tail(s))
         /\ Head(s) = GameShutdown => Named(Tail(s)) \cap TimerTasks = {}
         /\ Head(s) = Halt => Tail(s) = <<>>
<1>1. PICK n \in Nat : n = Len(s) /\ DOMAIN s = 1..n /\ n > 0
  OBVIOUS
<1>2. PICK h, r : h = Head(s) /\ r = Tail(s)
  OBVIOUS
<1>3. /\ h = s[1] /\ r \in Seq(DTasks) /\ Len(r) = n - 1 /\ DOMAIN r = 1..(n - 1)
      /\ \A i \in 1..(n - 1) : r[i] = s[i + 1]
  BY <1>1, <1>2
<1>4. \A i \in 1..(n - 1) : i + 1 \in 1..n
  OBVIOUS
<1>5. \A i, j \in 1..n : s[i] = GameShutdown /\ s[j] \in TimerTasks => j < i
  BY <1>1 DEF TimersFirst
<1>6. \A i \in 1..n : s[i] = Halt => i = n
  BY <1>1 DEF HaltLast
<1>7. ASSUME NEW i \in 1..(n - 1), NEW j \in 1..(n - 1), r[i] = GameShutdown, r[j] \in TimerTasks
      PROVE  j < i
  <2>1. j + 1 < i + 1
    BY <1>3, <1>4, <1>5, <1>7
  <2> QED BY <2>1
<1>8. ASSUME NEW i \in 1..(n - 1), r[i] = Halt PROVE i = n - 1
  <2>1. i + 1 = n
    BY <1>3, <1>4, <1>6, <1>8
  <2> QED BY <2>1
<1>9. ASSUME h = GameShutdown, NEW j \in 1..(n - 1) PROVE r[j] \notin TimerTasks
  <2>1. j + 1 \in 1..n /\ 1 \in 1..n /\ ~(j + 1 < 1) /\ r[j] = s[j + 1]
    BY <1>1, <1>3, <1>4
  <2> QED BY <1>3, <1>5, <1>9, <2>1
<1>10. h = Halt => n = 1
  <2>1. 1 \in 1..n
    BY <1>1
  <2> QED BY <1>3, <1>6, <2>1
<1>11. n = 1 => r = <<>>
  BY <1>3
<1>12. TimersFirst(r) /\ HaltLast(r)
  BY <1>3, <1>7, <1>8 DEF TimersFirst, HaltLast
<1>13. h = GameShutdown => Named(r) \cap TimerTasks = {}
  BY <1>3, <1>9 DEF Named
<1> QED BY <1>2, <1>10, <1>11, <1>12, <1>13

\* The tasks the dispatcher has ever been given.
Made == Named(taskList) \cup current \cup dDeleted

\* The dispatcher's part of the invariant: it runs one task at a time, forgets
\* none, and ends after the halting task, behind which there is nothing.
DispatcherInv ==
  /\ Disp!TypeOK
  /\ \A a, b \in current : a = b
  /\ Named(dAccepted) \subseteq Made
  /\ dPc = "done" => dState = "TERMINATED"
  /\ dState = "TERMINATED" => Halt \in dDeleted
  /\ Halt \in Made => dState # "RUNNING"
  /\ TimersFirst(taskList) /\ HaltLast(taskList)
  /\ Halt \in current \cup dDeleted => taskList = <<>>

\* They are the dispatcher's.
LEMMA AllTasksAre == Disp!AllTasks = DTasks
BY DEF Disp!AllTasks, DTasks

\* addTask puts the task into the list, or deletes it.
LEMMA AddTaskKeeps ==
  ASSUME DispatcherInv, NEW p \in Threads, NEW t \in DTasks, t # Halt, Disp!AddTask(p, t)
  PROVE  /\ DispatcherInv'
         /\ Made' = Made \cup {t} /\ t \notin Made
         /\ UNCHANGED <<dState, dPc, current>>
         /\ dState = "RUNNING" =>
              Named(taskList') = Named(taskList) \cup {t} /\ UNCHANGED dDeleted
         /\ dState # "RUNNING" => UNCHANGED taskList /\ dDeleted' = dDeleted \cup {t}
<1>1. UNCHANGED <<dState, dPc, current, dSignalled>> /\ t \notin Made
  BY DEF Disp!AddTask, Disp!Created, Disp!Elems, Made, Named
<1>2. taskList \in Seq(DTasks) /\ dAccepted \in Seq(DTasks) /\ dDeleted \subseteq DTasks
  BY AllTasksAre DEF DispatcherInv, Disp!TypeOK
<1>3. CASE dState = "RUNNING"
  <2>1. /\ taskList' = Disp!Placed(t) /\ UNCHANGED dDeleted
        /\ dAccepted' = IF t \in TimerTasks THEN dAccepted ELSE Append(dAccepted, t)
        /\ posting' \in {posting, posting \cup {p}}
    BY <1>3 DEF Disp!AddTask
  <2>2. Disp!Placed(t) = IF t \in TimerTasks THEN <<t>> \o taskList ELSE Append(taskList, t)
    BY DEF Disp!Placed
  <2>3. taskList' \in Seq(DTasks) /\ Named(taskList') = Named(taskList) \cup {t}
    <3>1. taskList' \in Seq(DTasks)
      BY <1>2, <2>1, <2>2
    <3>2. Named(Append(taskList, t)) = Named(taskList) \cup {t}
      BY <1>2, NamedBehind
    <3>3. Named(<<t>> \o taskList) = Named(taskList) \cup {t}
      BY <1>2, NamedInFront
    <3> QED BY <2>1, <2>2, <3>1, <3>2, <3>3
  <2>4. dAccepted' \in Seq(DTasks) /\ Named(dAccepted') \subseteq Named(dAccepted) \cup {t}
    <3>1. dAccepted' \in Seq(DTasks)
      BY <1>2, <2>1
    <3>2. Named(Append(dAccepted, t)) = Named(dAccepted) \cup {t}
      BY <1>2, NamedBehind
    <3> QED BY <2>1, <3>1, <3>2
  <2>5. Made' = Made \cup {t}
    BY <1>1, <2>1, <2>3 DEF Made
  <2>6. t \notin Named(taskList)
    BY <1>1 DEF Made
  <2>7. TimersFirst(taskList')
    BY <1>2, <2>1, <2>2, <2>6, PlacedFirst DEF DispatcherInv
  <2>8. Halt \notin Made
    BY <1>3 DEF DispatcherInv
  <2>9. Halt \notin Made'
    BY <2>5, <2>8
  <2>10. HaltLast(taskList')
    <3>1. Halt \notin Named(taskList')
      BY <2>9 DEF Made
    <3> QED BY <3>1 DEF HaltLast, Named
  <2>11. Halt \notin current' \cup dDeleted'
    BY <2>9 DEF Made
  <2>12. Disp!TypeOK'
    <3>1. posting' \in SUBSET Disp!Threads
      BY <2>1 DEF DispatcherInv, Disp!TypeOK, Disp!Threads, Threads
    <3> QED BY <1>1, <2>1, <2>3, <2>4, <3>1, AllTasksAre DEF DispatcherInv, Disp!TypeOK
  <2>13. Named(dAccepted') \subseteq Made'
    BY <2>4, <2>5 DEF DispatcherInv
  <2>14. DispatcherInv'
    BY <1>1, <1>3, <2>7, <2>9, <2>10, <2>11, <2>12, <2>13 DEF DispatcherInv, TimersFirst, HaltLast
  <2> QED BY <1>1, <1>3, <2>1, <2>3, <2>5, <2>14
<1>4. CASE dState # "RUNNING"
  <2>1. UNCHANGED <<taskList, dAccepted, posting>> /\ dDeleted' = dDeleted \cup {t}
    BY <1>4 DEF Disp!AddTask, Disp!Discard
  <2>2. Made' = Made \cup {t}
    BY <1>1, <2>1 DEF Made, Named
  <2>3. Disp!TypeOK'
    BY <1>1, <1>2, <2>1, AllTasksAre DEF DispatcherInv, Disp!TypeOK
  <2>4. Named(dAccepted') \subseteq Made'
    BY <2>1, <2>2 DEF DispatcherInv, Named
  <2>5. DispatcherInv'
    BY <1>1, <1>4, <2>1, <2>2, <2>3, <2>4 DEF DispatcherInv, TimersFirst, HaltLast
  <2> QED BY <1>1, <1>4, <2>1, <2>2, <2>5
<1> QED BY <1>3, <1>4

\* The dispatcher takes the first task of the list.
LEMMA PopKeeps ==
  ASSUME DispatcherInv, taskList # <<>>, current = {}, Disp!PopFront, dSignalled' \in BOOLEAN
  PROVE  /\ DispatcherInv'
         /\ Made' = Made /\ UNCHANGED <<dState, dDeleted>>
         /\ dPc' = "run" /\ current' = {Head(taskList)}
         /\ Head(taskList) \in Named(taskList) /\ Named(taskList') \subseteq Named(taskList)
         /\ Head(taskList) = GameShutdown => Named(taskList') \cap TimerTasks = {}
<1>1. /\ current' = {Head(taskList)} /\ taskList' = Tail(taskList) /\ dPc' = "run"
      /\ UNCHANGED <<dState, posting, dAccepted, dDeleted>>
  BY DEF Disp!PopFront
<1>2. taskList \in Seq(DTasks)
  BY AllTasksAre DEF DispatcherInv, Disp!TypeOK
<1>3. Named(taskList') = Named(Tail(taskList))
  BY <1>1 DEF Named
<1>4. /\ Head(taskList) \in DTasks /\ Tail(taskList) \in Seq(DTasks)
      /\ Named(taskList) = {Head(taskList)} \cup Named(taskList')
  BY <1>2, <1>3, Shortened
<1>5. Made' = Made
  BY <1>1, <1>4 DEF Made
<1>6. /\ TimersFirst(taskList') /\ HaltLast(taskList')
      /\ Head(taskList) = GameShutdown => Named(taskList') \cap TimerTasks = {}
      /\ Head(taskList) = Halt => taskList' = <<>>
  BY <1>1, <1>2, <1>3, TakenFirst DEF DispatcherInv
<1>7. Disp!TypeOK'
  BY <1>1, <1>4, AllTasksAre DEF DispatcherInv, Disp!TypeOK
<1>8. Named(dAccepted') \subseteq Made'
  BY <1>1, <1>5 DEF DispatcherInv, Named
<1>9. Halt \in current' \cup dDeleted' => taskList' = <<>>
  BY <1>1, <1>6 DEF DispatcherInv
<1>10. DispatcherInv'
  BY <1>1, <1>5, <1>6, <1>7, <1>8, <1>9 DEF DispatcherInv, TimersFirst, HaltLast
<1> QED BY <1>1, <1>4, <1>5, <1>6, <1>10

\* A step of the dispatcher that takes nothing and ends nothing.
LEMMA QuietKeeps ==
  ASSUME DispatcherInv, UNCHANGED <<taskList, current, dAccepted, dDeleted>>,
         dSignalled' \in BOOLEAN, posting' \subseteq posting,
         dState' \in {dState, "CLOSING"}, dState = "TERMINATED" => dState' = "TERMINATED",
         dPc' \in {"check", "lock", "waiting", "run", "done"}, dPc' = "run" <=> dPc = "run",
         dPc' = "done" => dState' = "TERMINATED"
  PROVE  DispatcherInv' /\ Made' = Made /\ Named(taskList') = Named(taskList)
<1>1. Made' = Made /\ Named(taskList') = Named(taskList) /\ Named(dAccepted') = Named(dAccepted)
  BY DEF Made, Named
<1>2. Disp!TypeOK'
  BY DEF DispatcherInv, Disp!TypeOK
<1>3. TimersFirst(taskList)' /\ HaltLast(taskList)'
  BY DEF DispatcherInv, TimersFirst, HaltLast
<1> QED BY <1>1, <1>2, <1>3 DEF DispatcherInv

\* shutdown() puts the halting task behind all others.
LEMMA ShutdownKeeps ==
  ASSUME DispatcherInv, Disp!Shutdown(Worker)
  PROVE  /\ DispatcherInv' /\ Made' = Made \cup {Halt}
         /\ UNCHANGED <<dState, dPc, current, dDeleted>> /\ dState = "CLOSING"
         /\ Named(taskList') = Named(taskList) \cup {Halt}
<1>1. /\ UNCHANGED <<dState, dPc, current, posting, dDeleted>> /\ dState = "CLOSING"
      /\ Halt \notin Made /\ taskList' = Append(taskList, Halt) /\ dAccepted' = Append(dAccepted, Halt)
      /\ dSignalled' = (dSignalled \/ dPc = "waiting")
  BY DEF Disp!Shutdown, Disp!WithHalt, Disp!Created, Disp!Elems, Made, Named
<1>2. taskList \in Seq(DTasks) /\ dAccepted \in Seq(DTasks) /\ Halt \in DTasks
  BY AllTasksAre DEF DispatcherInv, Disp!TypeOK, DTasks
<1>3. taskList' \in Seq(DTasks) /\ Named(taskList') = Named(taskList) \cup {Halt}
  <2>1. taskList' \in Seq(DTasks)
    BY <1>1, <1>2
  <2>2. Named(Append(taskList, Halt)) = Named(taskList) \cup {Halt}
    BY <1>2, NamedBehind
  <2> QED BY <1>1, <2>1, <2>2
<1>4. dAccepted' \in Seq(DTasks) /\ Named(dAccepted') = Named(dAccepted) \cup {Halt}
  <2>1. dAccepted' \in Seq(DTasks)
    BY <1>1, <1>2
  <2>2. Named(Append(dAccepted, Halt)) = Named(dAccepted) \cup {Halt}
    BY <1>2, NamedBehind
  <2> QED BY <1>1, <2>1, <2>2
<1>5. Made' = Made \cup {Halt}
  BY <1>1, <1>3 DEF Made
<1>6. TimersFirst(taskList')
  <2>1. Halt \notin TimerTasks /\ Halt \notin Named(taskList)
    BY <1>1, LifecycleAssumption DEF Made
  <2> QED BY <1>1, <1>2, <2>1, PlacedFirst DEF DispatcherInv
<1>7. HaltLast(taskList')
  <2>1. PICK n \in Nat : n = Len(taskList) /\ DOMAIN taskList = 1..n
    BY <1>2
  <2>2. /\ DOMAIN taskList' = 1..(n + 1) /\ Len(taskList') = n + 1
        /\ \A i \in 1..n : taskList'[i] = taskList[i]
    BY <1>1, <1>2, <2>1
  <2>3. \A i \in 1..n : taskList[i] # Halt
    BY <1>1, <2>1 DEF Made, Named
  <2>4. \A i \in 1..(n + 1) : i \in 1..n \/ i = n + 1
    OBVIOUS
  <2> QED BY <2>2, <2>3, <2>4 DEF HaltLast
<1>8. Disp!TypeOK'
  BY <1>1, <1>3, <1>4, AllTasksAre DEF DispatcherInv, Disp!TypeOK
<1>9. Halt \notin current' \cup dDeleted'
  BY <1>1 DEF Made
<1>10. Named(dAccepted') \subseteq Made'
  BY <1>4, <1>5 DEF DispatcherInv
<1>11. DispatcherInv'
  BY <1>1, <1>5, <1>6, <1>7, <1>8, <1>9, <1>10 DEF DispatcherInv, TimersFirst, HaltLast
<1> QED BY <1>1, <1>3, <1>5, <1>11

\* A task ends and is deleted.
LEMMA FinishKeeps ==
  ASSUME DispatcherInv, Disp!FinishTask
  PROVE  /\ DispatcherInv' /\ Made' = Made /\ Named(taskList') = Named(taskList)
         /\ dDeleted' = dDeleted \cup current /\ current' = {}
         /\ dState' = IF current = {Halt} THEN "TERMINATED" ELSE dState
         /\ dPc' = "check"
<1>1. /\ dState' = IF current = {Halt} THEN "TERMINATED" ELSE dState
      /\ dDeleted' = dDeleted \cup current /\ current' = {} /\ dPc' = "check"
      /\ UNCHANGED <<taskList, dSignalled, posting, dAccepted>>
  BY DEF Disp!FinishTask, Disp!StateAfterRun
<1>2. Made' = Made /\ Named(taskList') = Named(taskList) /\ Named(dAccepted') = Named(dAccepted)
  BY <1>1 DEF Made, Named
<1>3. Disp!TypeOK'
  BY <1>1 DEF DispatcherInv, Disp!TypeOK
<1>4. TimersFirst(taskList)' /\ HaltLast(taskList)'
  BY <1>1 DEF DispatcherInv, TimersFirst, HaltLast
<1>5. Halt \in current' \cup dDeleted' => taskList' = <<>>
  BY <1>1 DEF DispatcherInv
<1>6. dState' = "TERMINATED" => Halt \in dDeleted'
  BY <1>1 DEF DispatcherInv
<1>7. DispatcherInv'
  BY <1>1, <1>2, <1>3, <1>4, <1>5, <1>6 DEF DispatcherInv
<1> QED BY <1>1, <1>2, <1>7

\* The scheduler's part: its thread has one event in hand at most, and from the
\* clearing on there is none in the queue.
SchedulerInv ==
  /\ Sched!TypeOK
  /\ \A a, b \in sHand : a = b
  /\ sClosing # "no" => schedState = "TERMINATED"
  /\ sClosing \in {"cleared", "notified"} => eventList = {}

\* A step of the scheduler.
SchedulerStep ==
  \/ \E t \in TimerTasks, due \in 0..MaxTime : Sched!AddEvent(Worker, t, due)
  \/ Sched!NotifyScheduler(Worker)
  \/ Sched!Stop \/ Sched!ShutdownState \/ Sched!ShutdownClear \/ Sched!ShutdownNotify
  \/ Sched!CheckState \/ Sched!Block \/ Sched!WakeUntimed \/ Sched!WakeTimed \/ Sched!Deliver
  \/ Sched!Tick
  \/ UNCHANGED svars

\* The scheduler keeps its part.
LEMMA SchedulerKeeps == SchedulerInv /\ SchedulerStep => SchedulerInv'
<1> SUFFICES ASSUME SchedulerInv, SchedulerStep PROVE SchedulerInv'
  OBVIOUS
<1>0. PICK M \in Nat \ {0} : M = Cardinality(TimerTasks)
  BY LifecycleAssumption, FS_CardinalityType, FS_EmptySet
<1> USE DEF SchedulerInv, Sched!TypeOK, Sched!Times
<1>1. ASSUME NEW t \in TimerTasks, NEW due \in 0..MaxTime, Sched!AddEvent(Worker, t, due) PROVE SchedulerInv'
  <2>1. CASE schedState = "RUNNING"
    <3>1. PICK i \in 1..M : i = Sched!NextId
      BY <1>0 DEF Sched!NextId
    <3>2. /\ lastEventId' = i /\ eventId' = [eventId EXCEPT ![t] = i] /\ cycle' = [cycle EXCEPT ![t] = due]
          /\ eventIds' = eventIds \cup {i} /\ eventList' = eventList \cup {t}
          /\ sOwing' \in {sOwing, sOwing \cup {Worker}} /\ UNCHANGED sDeleted
          /\ UNCHANGED <<schedState, now, sPc, deadline, sHand, sSignalled, posted, stopped, sClosing>>
      BY <1>1, <2>1, <3>1 DEF Sched!AddEvent, Sched!threadVars
    <3>3. i \in 0..M
      OBVIOUS
    <3>4. eventId' \in [TimerTasks -> 0..M] /\ lastEventId' \in 0..M /\ eventIds' \in SUBSET (1..M)
      BY <1>0, <3>2, <3>3
    <3>5. /\ cycle' \in [TimerTasks -> 0..MaxTime] /\ eventList' \in SUBSET TimerTasks
          /\ sOwing' \in SUBSET {Worker}
      BY <3>2
    <3>6. sClosing' = "no"
      BY <2>1, <3>2
    <3> QED BY <1>0, <3>2, <3>4, <3>5, <3>6
  <2>2. CASE schedState # "RUNNING"
    BY <1>1, <2>2 DEF Sched!AddEvent, Sched!threadVars, Sched!queueVars
  <2> QED BY <2>1, <2>2
<1>2. CASE Sched!NotifyScheduler(Worker)
  BY <1>2 DEF Sched!NotifyScheduler, Sched!Blocked, Sched!threadVars, Sched!queueVars
<1>3. CASE Sched!Stop
  BY <1>3 DEF Sched!Stop, Sched!threadVars, Sched!queueVars
<1>4. CASE Sched!ShutdownState
  BY <1>4 DEF Sched!ShutdownState, Sched!threadVars, Sched!queueVars
<1>5. CASE Sched!ShutdownClear
  BY <1>5 DEF Sched!ShutdownClear, Sched!threadVars
<1>6. CASE Sched!ShutdownNotify
  BY <1>6 DEF Sched!ShutdownNotify, Sched!Blocked, Sched!threadVars, Sched!queueVars
<1>7. CASE Sched!CheckState
  BY <1>7 DEF Sched!CheckState, Sched!queueVars
<1>8. CASE Sched!Block
  BY <1>8 DEF Sched!Block, Sched!queueVars
<1>9. CASE Sched!WakeUntimed
  BY <1>9 DEF Sched!WakeUntimed, Sched!queueVars
<1>10. CASE Sched!WakeTimed
  <2>1. CASE Sched!TimedOut /\ eventList # {}
    <3>1. Sched!TakeTop
      BY <1>10, <2>1 DEF Sched!WakeTimed
    <3>2. PICK t \in eventList :
             /\ eventList' = eventList \ {t} /\ UNCHANGED <<lastEventId, eventId, cycle>>
             /\ \/ sDeleted' = sDeleted \cup {t} /\ sPc' = "check" /\ UNCHANGED <<eventIds, sHand>>
                \/ /\ eventIds' = eventIds \ {eventId[t]} /\ UNCHANGED sDeleted
                   /\ sHand' = {t} /\ sPc' = "post"
      BY <3>1 DEF Sched!TakeTop
    <3>3. /\ sPc = "timed" /\ sSignalled' = FALSE
          /\ UNCHANGED <<schedState, now, deadline, sOwing, posted, stopped, sClosing>>
      BY <1>10 DEF Sched!WakeTimed
    <3>4. sHand = {}
      BY <3>3
    <3> QED BY <3>2, <3>3, <3>4
  <2>2. CASE ~(Sched!TimedOut /\ eventList # {})
    BY <1>10, <2>2 DEF Sched!WakeTimed, Sched!queueVars
  <2> QED BY <2>1, <2>2
<1>11. CASE Sched!Deliver
  BY <1>11 DEF Sched!Deliver, Sched!queueVars
<1>12. CASE Sched!Tick
  BY <1>12, LifecycleAssumption DEF Sched!Tick, Sched!threadVars, Sched!queueVars
<1>13. CASE UNCHANGED svars
  BY <1>13 DEF svars
<1> QED BY <1>1, <1>2, <1>3, <1>4, <1>5, <1>6, <1>7, <1>8, <1>9, <1>10, <1>11, <1>12, <1>13
        DEF SchedulerStep

\* The query queue's part: an accepted query is queued, in a hand or executed,
\* and shutdown() has emptied the list when it notifies the thread.
QueryInv ==
  /\ Dbase!TypeOK
  /\ Named(qAccepted) \subseteq Named(queries) \cup qHand["thread"] \cup qHand["flusher"] \cup Named(executed)
  /\ qClosing # "no" => dbState = "TERMINATED"
  /\ qClosing \in {"notifying", "done"} => queries = <<>> /\ qHand["flusher"] = {}
  /\ \A r \in {"thread", "flusher"} : qPc[r] = "callback" => qHand[r] \subseteq Named(executed)
  /\ \A r \in {"thread", "flusher"} : \A p, q \in qHand[r] : p = q

\* A step of the query queue.
QueryStep ==
  \/ \E q \in Queries : Dbase!AddTask(Worker, q)
  \/ Dbase!NotifyThread(Worker)
  \/ Dbase!CheckState \/ Dbase!BeginWait \/ Dbase!TakeTask \/ Dbase!Wake
  \/ \E r \in {"thread", "flusher"} : Dbase!Execute(r) \/ Dbase!PostCallback(r)
  \/ Dbase!FlushBegin \/ Dbase!FlushTake \/ Dbase!FlushReturn
  \/ Dbase!Stop \/ Dbase!ShutdownState \/ Dbase!ShutdownNotify
  \/ UNCHANGED qvars

\* A runner takes the first query.
LEMMA QueryTaken ==
  ASSUME QueryInv, NEW r \in {"thread", "flusher"}, queries # <<>>, qHand[r] = {}, Dbase!PopFront(r),
         qSignalled' \in BOOLEAN
  PROVE  QueryInv'
<1> USE DEF QueryInv, Dbase!TypeOK, Dbase!Runners
<1>1. /\ queries' = Tail(queries) /\ qHand' = [qHand EXCEPT ![r] = {Head(queries)}]
      /\ qPc' = [qPc EXCEPT ![r] = "run"]
      /\ UNCHANGED <<dbState, qOwing, qClosing, qAccepted, executed, calledBack>>
  BY DEF Dbase!PopFront
<1>2. /\ Head(queries) \in Queries /\ Tail(queries) \in Seq(Queries)
      /\ Named(queries) = {Head(queries)} \cup Named(Tail(queries))
  BY Shortened
<1>3. qClosing \notin {"notifying", "done"}
  OBVIOUS
<1>4. Named(queries) \cup qHand["thread"] \cup qHand["flusher"]
        = Named(queries') \cup qHand'["thread"] \cup qHand'["flusher"]
  <2>1. CASE r = "thread"
    BY <1>1, <1>2, <2>1
  <2>2. CASE r = "flusher"
    BY <1>1, <1>2, <2>2
  <2> QED BY <2>1, <2>2
<1>5. Dbase!TypeOK'
  BY <1>1, <1>2
<1> QED BY <1>1, <1>3, <1>4, <1>5

\* The query queue keeps its part.
LEMMA QueryKeeps == QueryInv /\ QueryStep => QueryInv'
<1> SUFFICES ASSUME QueryInv, QueryStep PROVE QueryInv'
  OBVIOUS
<1> USE DEF QueryInv, Dbase!TypeOK, Dbase!Runners
<1>1. ASSUME NEW q \in Queries, Dbase!AddTask(Worker, q) PROVE QueryInv'
  <2>1. /\ dbState = "RUNNING" /\ queries' = Append(queries, q) /\ qAccepted' = Append(qAccepted, q)
        /\ qOwing' \in {qOwing, qOwing \cup {Worker}}
        /\ UNCHANGED <<dbState, qPc, qHand, qSignalled, qClosing, executed, calledBack>>
    BY <1>1 DEF Dbase!AddTask, Dbase!Enqueued
  <2>2. queries' \in Seq(Queries) /\ qAccepted' \in Seq(Queries)
    BY <2>1
  <2>3. Named(Append(queries, q)) = Named(queries) \cup {q}
    BY NamedBehind
  <2>4. Named(Append(qAccepted, q)) = Named(qAccepted) \cup {q}
    BY NamedBehind
  <2>5. qClosing' = "no"
    BY <2>1
  <2> QED BY <2>1, <2>2, <2>3, <2>4, <2>5
<1>2. CASE Dbase!NotifyThread(Worker)
  BY <1>2 DEF Dbase!NotifyThread
<1>3. CASE Dbase!CheckState \/ Dbase!BeginWait
  BY <1>3 DEF Dbase!CheckState, Dbase!BeginWait
<1>4. CASE Dbase!TakeTask
  BY <1>4, QueryTaken DEF Dbase!TakeTask
<1>5. CASE Dbase!Wake
  <2>1. CASE queries = <<>>
    BY <1>5, <2>1 DEF Dbase!Wake
  <2>2. CASE queries # <<>>
    BY <1>5, <2>2, QueryTaken DEF Dbase!Wake
  <2> QED BY <2>1, <2>2
<1>6. ASSUME NEW r \in {"thread", "flusher"}, Dbase!Execute(r) PROVE QueryInv'
  <2>1. PICK q \in qHand[r] : executed' = Append(executed, q)
    BY <1>6 DEF Dbase!Execute
  <2>2. /\ qPc' = [qPc EXCEPT ![r] = "callback"]
        /\ UNCHANGED <<dbState, queries, qHand, qSignalled, qOwing, qClosing, qAccepted, calledBack>>
        /\ qPc[r] = "run"
    BY <1>6 DEF Dbase!Execute
  <2>3. q \in Queries
    OBVIOUS
  <2>4. Named(Append(executed, q)) = Named(executed) \cup {q}
    BY <2>3, NamedBehind
  <2>5. executed' \in Seq(Queries)
    BY <2>1, <2>3
  <2>6. qHand[r] \subseteq Named(executed') /\ Named(executed) \subseteq Named(executed')
    BY <2>1, <2>4
  <2> QED BY <2>2, <2>5, <2>6
<1>7. ASSUME NEW r \in {"thread", "flusher"}, Dbase!PostCallback(r) PROVE QueryInv'
  <2>1. /\ qPc[r] = "callback" /\ qHand' = [qHand EXCEPT ![r] = {}]
        /\ qPc' = [qPc EXCEPT ![r] = IF r = "thread" THEN "check" ELSE "lock"]
        /\ calledBack' = calledBack \cup (qHand[r] \cap Callbacks)
        /\ UNCHANGED <<dbState, queries, qSignalled, qOwing, qClosing, qAccepted, executed>>
    BY <1>7 DEF Dbase!PostCallback, Dbase!RunEnds
  <2>2. CASE r = "thread"
    BY <2>1, <2>2
  <2>3. CASE r = "flusher"
    BY <2>1, <2>3
  <2> QED BY <2>2, <2>3
<1>8. CASE Dbase!FlushBegin \/ Dbase!ShutdownState
  BY <1>8 DEF Dbase!FlushBegin, Dbase!ShutdownState, Dbase!CanCall
<1>9. CASE Dbase!FlushTake
  BY <1>9, QueryTaken DEF Dbase!FlushTake, Dbase!FlushGoesOn
<1>10. CASE Dbase!FlushReturn
  BY <1>10 DEF Dbase!FlushReturn, Dbase!FlushGoesOn
<1>11. CASE Dbase!Stop \/ Dbase!ShutdownNotify
  BY <1>11 DEF Dbase!Stop, Dbase!ShutdownNotify
<1>12. CASE UNCHANGED qvars
  BY <1>12 DEF qvars
<1> QED BY <1>1, <1>2, <1>3, <1>4, <1>5, <1>6, <1>7, <1>8, <1>9, <1>10, <1>11, <1>12 DEF QueryStep

\* The notions of the three parts are the same.
LEMMA SameNotions ==
  /\ Disp!Created = Made /\ \A s : Disp!Elems(s) = Named(s) /\ Dbase!Elems(s) = Named(s)
BY DEF Disp!Created, Disp!Elems, Dbase!Elems, Made, Named

\* What holds between the parts: a timer is the dispatcher's exactly if the
\* scheduler gave it away; nothing is stopped before Game::shutdown is posted,
\* and until the dispatcher is, the handler of the signal is running; with
\* Game::shutdown under way no timer is left; the halting task is created when
\* the queue of queries has been shut down, and that after the scheduler.
LifeInv ==
  /\ \A t \in TimerTasks : t \in Made <=> t \in posted
  /\ schedState # "RUNNING" \/ dbState # "RUNNING" \/ dState # "RUNNING" => GameShutdown \in Made
  /\ GameShutdown \in Made /\ dState = "RUNNING" => current = {SignalTask}
  /\ GameShutdown \in current \cup dDeleted =>
       dState # "RUNNING" /\ Named(taskList) \cap TimerTasks = {}
  /\ GameShutdown \in dDeleted => current \cap TimerTasks = {} /\ Halt \in Made
  /\ Halt \in Made => qClosing = "done"
  /\ qClosing # "no" => sClosing = "notified"

\* The main thread has joined those it is past.
MainInv ==
  /\ mainPc \in {"running", "joinScheduler", "joinDatabase", "joinDispatcher", "exited"}
  /\ mainPc # "running" => GameShutdown \in dDeleted
  /\ mainPc \in {"joinDatabase", "joinDispatcher", "exited"} => sPc = "done"
  /\ mainPc \in {"joinDispatcher", "exited"} => qPc["thread"] = "done"
  /\ mainPc = "exited" => dPc = "done"

\* How far the save of the scripted task is.
SavingInv == saving \in {"no", "flushing", "done"}

\* The inductive invariant of the server.
ServerInv == DispatcherInv /\ SchedulerInv /\ QueryInv /\ LifeInv /\ MainInv /\ SavingInv

\* A thread that is done stays so.
DoneStays ==
  /\ sPc = "done" => sPc' = "done"
  /\ qPc["thread"] = "done" => qPc'["thread"] = "done"
  /\ dPc = "done" => dPc' = "done"

\* The dispatcher's state does not change at all.
LEMMA DispatcherStays ==
  ASSUME DispatcherInv, UNCHANGED dvars
  PROVE  /\ DispatcherInv' /\ Made' = Made /\ Named(taskList') = Named(taskList)
         /\ UNCHANGED <<dState, dPc, current, dDeleted>>
<1>1. UNCHANGED <<dState, taskList, dPc, current, dSignalled, posting, dAccepted, dDeleted>>
  BY DEF dvars
<1>2. /\ dSignalled \in BOOLEAN /\ dPc \in {"check", "lock", "waiting", "run", "done"}
      /\ dPc = "done" => dState = "TERMINATED"
  BY DEF DispatcherInv, Disp!TypeOK
<1> QED BY <1>1, <1>2, QuietKeeps

\* A step that changes nothing the parts see of each other.
LEMMA CalmStep ==
  ASSUME LifeInv, MainInv, DoneStays, Made' = Made, Named(taskList') = Named(taskList),
         UNCHANGED <<dState, current, dDeleted, schedState, dbState, posted, sClosing, qClosing, mainPc>>
  PROVE  LifeInv' /\ MainInv'
BY DEF LifeInv, MainInv, DoneStays

\* A step of the scheduler other than a delivery and a shutdown.
SchedulerOwn ==
  \/ \E t \in TimerTasks, due \in 0..MaxTime : Sched!AddEvent(Worker, t, due)
  \/ Sched!NotifyScheduler(Worker) \/ Sched!Tick
  \/ Sched!CheckState \/ Sched!Block \/ Sched!WakeUntimed \/ Sched!WakeTimed
  \/ UNCHANGED svars

\* It is one of its steps, and leaves what the others see.
LEMMA SchedulerAlone ==
  ASSUME SchedulerOwn
  PROVE  /\ SchedulerStep /\ UNCHANGED <<schedState, posted, sClosing>>
         /\ sPc = "done" => sPc' = "done"
<1>1. SchedulerStep
  BY DEF SchedulerOwn, SchedulerStep
<1>2. ASSUME NEW t, NEW due, Sched!AddEvent(Worker, t, due)
      PROVE  UNCHANGED <<schedState, posted, sClosing, sPc>>
  BY <1>2 DEF Sched!AddEvent, Sched!threadVars
<1>3. CASE Sched!NotifyScheduler(Worker) \/ Sched!Tick \/ UNCHANGED svars
  BY <1>3, <1>1 DEF Sched!NotifyScheduler, Sched!Tick, Sched!threadVars, svars
<1>4. CASE Sched!CheckState \/ Sched!Block \/ Sched!WakeUntimed
  BY <1>4, <1>1 DEF Sched!CheckState, Sched!Block, Sched!WakeUntimed
<1>5. CASE Sched!WakeTimed
  BY <1>5, <1>1 DEF Sched!WakeTimed
<1> QED BY <1>1, <1>2, <1>3, <1>4, <1>5 DEF SchedulerOwn

\* A step of the query queue other than a shutdown.
QueryOwn ==
  \/ \E q \in Queries : Dbase!AddTask(Worker, q)
  \/ Dbase!NotifyThread(Worker)
  \/ Dbase!CheckState \/ Dbase!BeginWait \/ Dbase!TakeTask \/ Dbase!Wake
  \/ \E r \in {"thread", "flusher"} : Dbase!Execute(r) \/ Dbase!PostCallback(r)
  \/ Dbase!FlushBegin \/ Dbase!FlushTake
  \/ UNCHANGED qvars

\* It is one of its steps, and leaves what the others see.
LEMMA QueryAlone ==
  ASSUME QueryInv, QueryOwn
  PROVE  /\ QueryStep /\ UNCHANGED <<dbState, qClosing>>
         /\ qPc["thread"] = "done" => qPc'["thread"] = "done"
<1>1. QueryStep
  BY DEF QueryOwn, QueryStep
<1> USE DEF QueryInv, Dbase!TypeOK, Dbase!Runners
<1>2. ASSUME NEW q, Dbase!AddTask(Worker, q) PROVE UNCHANGED <<dbState, qClosing, qPc>>
  BY <1>2 DEF Dbase!AddTask
<1>3. CASE Dbase!NotifyThread(Worker) \/ UNCHANGED qvars
  BY <1>3, <1>1 DEF Dbase!NotifyThread, qvars
<1>4. CASE Dbase!CheckState \/ Dbase!BeginWait \/ Dbase!TakeTask \/ Dbase!Wake
  BY <1>4, <1>1 DEF Dbase!CheckState, Dbase!BeginWait, Dbase!TakeTask, Dbase!Wake, Dbase!PopFront
<1>5. ASSUME NEW r \in {"thread", "flusher"}, Dbase!Execute(r) \/ Dbase!PostCallback(r)
      PROVE  /\ UNCHANGED <<dbState, qClosing>>
             /\ qPc["thread"] = "done" => qPc'["thread"] = "done"
  BY <1>5 DEF Dbase!Execute, Dbase!PostCallback
<1>6. CASE Dbase!FlushBegin \/ Dbase!FlushTake
  BY <1>6, <1>1 DEF Dbase!FlushBegin, Dbase!FlushTake, Dbase!PopFront
<1> QED BY <1>1, <1>2, <1>3, <1>4, <1>5, <1>6 DEF QueryOwn

\* A step that concerns none of the other parts.
LEMMA CalmKeeps ==
  ASSUME ServerInv, SchedulerOwn, QueryOwn, UNCHANGED <<dvars, mainPc>>, SavingInv'
  PROVE  ServerInv'
<1>1. /\ DispatcherInv' /\ Made' = Made /\ Named(taskList') = Named(taskList)
      /\ UNCHANGED <<dState, dPc, current, dDeleted>>
  BY DispatcherStays DEF ServerInv
<1>2. SchedulerInv' /\ UNCHANGED <<schedState, posted, sClosing>> /\ (sPc = "done" => sPc' = "done")
  BY SchedulerAlone, SchedulerKeeps DEF ServerInv
<1>3. QueryInv' /\ UNCHANGED <<dbState, qClosing>> /\ (qPc["thread"] = "done" => qPc'["thread"] = "done")
  BY QueryAlone, QueryKeeps DEF ServerInv
<1>4. DoneStays
  BY <1>1, <1>2, <1>3 DEF DoneStays
<1>5. LifeInv' /\ MainInv'
  BY <1>1, <1>2, <1>3, <1>4, CalmStep DEF ServerInv
<1> QED BY <1>1, <1>2, <1>3, <1>5 DEF ServerInv

\* A request, a callback or the handler of the signal is posted.
LEMMA PostKeeps ==
  ASSUME ServerInv, NEW p \in Threads, NEW t \in {SignalTask, CallbackTask} \cup NetTasks,
         Disp!AddTask(p, t), SchedulerOwn, QueryOwn, UNCHANGED <<saving, mainPc>>
  PROVE  ServerInv'
<1>1. t \in DTasks /\ t # Halt /\ t # GameShutdown /\ t \notin TimerTasks
  BY LifecycleAssumption DEF DTasks
<1>2. /\ DispatcherInv' /\ Made' = Made \cup {t} /\ UNCHANGED <<dState, dPc, current>>
      /\ dState = "RUNNING" => Named(taskList') = Named(taskList) \cup {t} /\ UNCHANGED dDeleted
      /\ dState # "RUNNING" => UNCHANGED taskList /\ dDeleted' = dDeleted \cup {t}
  BY <1>1, AddTaskKeeps DEF ServerInv
<1>3. SchedulerInv' /\ UNCHANGED <<schedState, posted, sClosing>> /\ (sPc = "done" => sPc' = "done")
  BY SchedulerAlone, SchedulerKeeps DEF ServerInv
<1>4. QueryInv' /\ UNCHANGED <<dbState, qClosing>> /\ (qPc["thread"] = "done" => qPc'["thread"] = "done")
  BY QueryAlone, QueryKeeps DEF ServerInv
<1>5. Named(taskList') \cap TimerTasks = Named(taskList) \cap TimerTasks
  BY <1>1, <1>2 DEF Named
<1>6. GameShutdown \in dDeleted' <=> GameShutdown \in dDeleted
  BY <1>1, <1>2
<1>7. LifeInv'
  BY <1>1, <1>2, <1>3, <1>4, <1>5, <1>6 DEF ServerInv, LifeInv
<1>8. MainInv'
  BY <1>2, <1>3, <1>4, <1>6 DEF ServerInv, MainInv
<1>9. SavingInv'
  BY DEF ServerInv, SavingInv
<1> QED BY <1>2, <1>3, <1>4, <1>7, <1>8, <1>9 DEF ServerInv

\* The dispatcher thread between two tasks.
LEMMA DispatcherThreadKeeps == ServerInv /\ DispatcherThread => ServerInv'
<1> SUFFICES ASSUME ServerInv, DispatcherThread PROVE ServerInv'
  OBVIOUS
<1>1. UNCHANGED <<svars, qvars, saving, mainPc>>
  BY DEF DispatcherThread
<1>2. /\ SchedulerInv' /\ UNCHANGED <<schedState, posted, sClosing, sPc>>
      /\ QueryInv' /\ UNCHANGED <<dbState, qClosing, qPc>> /\ SavingInv'
  <2>1. SchedulerInv' /\ QueryInv'
    BY <1>1, SchedulerKeeps, QueryKeeps DEF ServerInv, SchedulerStep, QueryStep
  <2> QED BY <1>1, <2>1 DEF svars, qvars, ServerInv, SavingInv
<1>3. dSignalled \in BOOLEAN /\ (dPc = "run" <=> current # {})
  BY DEF ServerInv, DispatcherInv, Disp!TypeOK
<1>4. CASE Disp!CheckState \/ Disp!BeginWait \/ (Disp!Wake /\ taskList = <<>>)
  <2>1. /\ UNCHANGED <<dState, taskList, posting, current, dAccepted, dDeleted>> /\ dSignalled' \in BOOLEAN
        /\ dPc' \in {"check", "lock", "waiting", "done"} /\ dPc # "run" /\ dPc # "done"
        /\ dPc' = "done" => dState = "TERMINATED"
    BY <1>3, <1>4 DEF Disp!CheckState, Disp!BeginWait, Disp!Wake
  <2>2. DispatcherInv' /\ Made' = Made /\ Named(taskList') = Named(taskList)
    BY <2>1, QuietKeeps DEF ServerInv
  <2>3. DoneStays
    BY <1>2, <2>1 DEF DoneStays
  <2>4. LifeInv' /\ MainInv'
    BY <1>1, <1>2, <2>1, <2>2, <2>3, CalmStep DEF ServerInv
  <2> QED BY <1>2, <2>2, <2>4 DEF ServerInv
<1>5. CASE Disp!TakeTask \/ (Disp!Wake /\ taskList # <<>>)
  <2>1. Disp!PopFront /\ taskList # <<>> /\ current = {} /\ dSignalled' \in BOOLEAN /\ dPc # "done"
    BY <1>3, <1>5 DEF Disp!TakeTask, Disp!Wake
  <2>2. /\ DispatcherInv'
        /\ Made' = Made /\ UNCHANGED <<dState, dDeleted>>
        /\ current' = {Head(taskList)} /\ Head(taskList) \in Named(taskList)
        /\ Named(taskList') \subseteq Named(taskList)
        /\ Head(taskList) = GameShutdown => Named(taskList') \cap TimerTasks = {}
    BY <2>1, PopKeeps DEF ServerInv
  <2>3. Named(taskList) \subseteq Made
    BY DEF Made
  <2>4. dState = "RUNNING" => GameShutdown \notin Made
    BY <2>1 DEF ServerInv, LifeInv
  <2>5. LifeInv'
    BY <1>2, <2>1, <2>2, <2>3, <2>4 DEF ServerInv, LifeInv
  <2>6. MainInv'
    <3>1. mainPc' = mainPc
      BY <1>1
    <3> QED BY <1>2, <2>1, <2>2, <3>1 DEF ServerInv, MainInv
  <2> QED BY <1>2, <2>2, <2>5, <2>6 DEF ServerInv
<1> QED BY <1>4, <1>5 DEF DispatcherThread

\* The scheduler hands over a timer.
LEMMA DeliverTimerKeeps == ServerInv /\ DeliverTimer => ServerInv'
<1> SUFFICES ASSUME ServerInv, DeliverTimer PROVE ServerInv'
  OBVIOUS
<1>1. UNCHANGED <<qvars, saving, mainPc>> /\ Sched!Deliver
  BY DEF DeliverTimer
<1>2. PICK t \in sHand : Disp!AddTask(SchedThread, t)
  BY DEF DeliverTimer
<1>3. t \in TimerTasks /\ sHand = {t}
  BY DEF ServerInv, SchedulerInv, Sched!TypeOK
<1>4. t \in DTasks /\ t # Halt /\ t # GameShutdown /\ SchedThread \in Threads
  BY <1>3, LifecycleAssumption DEF DTasks, Threads
<1>5. /\ DispatcherInv' /\ Made' = Made \cup {t} /\ UNCHANGED <<dState, dPc, current>>
      /\ dState = "RUNNING" => Named(taskList') = Named(taskList) \cup {t} /\ UNCHANGED dDeleted
      /\ dState # "RUNNING" => UNCHANGED taskList /\ dDeleted' = dDeleted \cup {t}
  BY <1>2, <1>4, AddTaskKeeps DEF ServerInv
<1>6. SchedulerInv' /\ QueryInv' /\ SavingInv'
  BY <1>1, SchedulerKeeps, QueryKeeps DEF ServerInv, SchedulerStep, QueryStep, SavingInv
<1>7. /\ posted' = posted \cup {t} /\ UNCHANGED <<schedState, sClosing>> /\ sPc # "done"
      /\ UNCHANGED <<dbState, qClosing, qPc>>
  BY <1>1, <1>3 DEF Sched!Deliver, qvars
<1>8. GameShutdown \in dDeleted' <=> GameShutdown \in dDeleted
  BY <1>4, <1>5
<1>9. dState # "RUNNING" => Named(taskList') = Named(taskList)
  BY <1>5 DEF Named
<1>10. LifeInv'
  BY <1>3, <1>4, <1>5, <1>7, <1>8, <1>9 DEF ServerInv, LifeInv
<1>11. MainInv'
  BY <1>1, <1>5, <1>7, <1>8 DEF ServerInv, MainInv
<1> QED BY <1>5, <1>6, <1>10, <1>11 DEF ServerInv

\* The handler of the signal posts Game::shutdown.
LEMMA PostShutdownKeeps == ServerInv /\ PostShutdown => ServerInv'
<1> SUFFICES ASSUME ServerInv, PostShutdown PROVE ServerInv'
  OBVIOUS
<1>1. /\ UNCHANGED <<svars, qvars, saving, mainPc>> /\ current = {SignalTask}
      /\ Disp!AddTask(Worker, GameShutdown)
  BY DEF PostShutdown, Running
<1>2. GameShutdown \in DTasks /\ GameShutdown # Halt /\ GameShutdown \notin TimerTasks /\ Worker \in Threads
      /\ GameShutdown # SignalTask
  BY LifecycleAssumption DEF DTasks, Threads
<1>3. /\ DispatcherInv' /\ Made' = Made \cup {GameShutdown} /\ GameShutdown \notin Made
      /\ UNCHANGED <<dState, dPc, current>>
      /\ dState = "RUNNING" => Named(taskList') = Named(taskList) \cup {GameShutdown} /\ UNCHANGED dDeleted
  BY <1>1, <1>2, AddTaskKeeps DEF ServerInv
<1>4. SchedulerInv' /\ QueryInv' /\ SavingInv'
  BY <1>1, SchedulerKeeps, QueryKeeps DEF ServerInv, SchedulerStep, QueryStep, SavingInv
<1>5. UNCHANGED <<schedState, posted, sClosing, sPc, dbState, qClosing, qPc>>
  BY <1>1 DEF svars, qvars
<1>6. dState = "RUNNING" /\ UNCHANGED dDeleted
  BY <1>3 DEF ServerInv, LifeInv
<1>7. GameShutdown \notin current' \cup dDeleted'
  BY <1>3, <1>6 DEF Made
<1>8. LifeInv'
  BY <1>1, <1>2, <1>3, <1>5, <1>6, <1>7 DEF ServerInv, LifeInv
<1>9. MainInv'
  BY <1>1, <1>3, <1>5, <1>6 DEF ServerInv, MainInv
<1> QED BY <1>3, <1>4, <1>8, <1>9 DEF ServerInv

\* What the scripts of the two tasks do to the scheduler,
LEMMA SchedulerStoppedKeeps == ServerInv /\ (StopScheduler \/ ShutdownScheduler) => ServerInv'
<1> SUFFICES ASSUME ServerInv, StopScheduler \/ ShutdownScheduler PROVE ServerInv'
  OBVIOUS
<1>1. UNCHANGED <<dvars, qvars, saving, mainPc>>
  BY DEF StopScheduler, ShutdownScheduler
<1>2. Sched!Stop \/ Sched!ShutdownState \/ Sched!ShutdownClear \/ Sched!ShutdownNotify
  BY DEF StopScheduler, ShutdownScheduler
<1>3. /\ DispatcherInv' /\ Made' = Made /\ Named(taskList') = Named(taskList)
      /\ UNCHANGED <<dState, dPc, current, dDeleted>>
  BY <1>1, DispatcherStays DEF ServerInv
<1>4. SchedulerInv' /\ QueryInv' /\ SavingInv'
  BY <1>1, <1>2, SchedulerKeeps, QueryKeeps DEF ServerInv, SchedulerStep, QueryStep, SavingInv
<1>5. UNCHANGED <<dbState, qClosing, qPc>>
  BY <1>1 DEF qvars
<1>6. UNCHANGED <<posted, sPc>> /\ (sClosing = "notified" => sClosing' = "notified")
  BY <1>2 DEF Sched!Stop, Sched!ShutdownState, Sched!ShutdownClear, Sched!ShutdownNotify, Sched!threadVars
<1>7. GameShutdown \in Made
  BY SameNotions DEF StopScheduler, ShutdownScheduler, Running, Made
<1>8. LifeInv'
  BY <1>3, <1>5, <1>6, <1>7 DEF ServerInv, LifeInv
<1>9. MainInv'
  BY <1>1, <1>3, <1>5, <1>6 DEF ServerInv, MainInv
<1> QED BY <1>3, <1>4, <1>8, <1>9 DEF ServerInv

\* and to the query queue, the end of a flush included.
LEMMA QueriesStoppedKeeps ==
  ServerInv /\ (StopDatabase \/ ShutdownDatabase \/ FlushEnds) => ServerInv'
<1> SUFFICES ASSUME ServerInv, StopDatabase \/ ShutdownDatabase \/ FlushEnds PROVE ServerInv'
  OBVIOUS
<1>1. UNCHANGED <<dvars, svars, mainPc>> /\ SavingInv'
  BY DEF StopDatabase, ShutdownDatabase, FlushEnds, ServerInv, SavingInv
<1>2. \/ Dbase!Stop /\ schedState = "CLOSING"
      \/ Dbase!ShutdownState /\ sClosing = "notified" /\ current = {GameShutdown}
      \/ Dbase!ShutdownNotify /\ sClosing = "notified"
      \/ Dbase!FlushReturn
  BY DEF StopDatabase, ShutdownDatabase, FlushEnds, Running
<1>3. /\ DispatcherInv' /\ Made' = Made /\ Named(taskList') = Named(taskList)
      /\ UNCHANGED <<dState, dPc, current, dDeleted>>
  BY <1>1, DispatcherStays DEF ServerInv
<1>4. SchedulerInv' /\ QueryInv'
  BY <1>1, <1>2, SchedulerKeeps, QueryKeeps DEF ServerInv, SchedulerStep, QueryStep
<1>5. UNCHANGED <<schedState, posted, sClosing, sPc>>
  BY <1>1 DEF svars
<1>6. /\ qPc["thread"] = "done" => qPc'["thread"] = "done"
      /\ qClosing = "done" => qClosing' = "done"
      /\ qClosing' # "no" => qClosing # "no" \/ sClosing = "notified"
      /\ dbState' # "RUNNING" => dbState # "RUNNING" \/ schedState = "CLOSING" \/ current = {GameShutdown}
  BY <1>2 DEF Dbase!Stop, Dbase!ShutdownState, Dbase!ShutdownNotify, Dbase!FlushReturn,
              ServerInv, QueryInv, Dbase!TypeOK, Dbase!Runners
<1>7. current \subseteq Made
  BY DEF Made
<1>8. LifeInv'
  BY <1>3, <1>5, <1>6, <1>7 DEF ServerInv, LifeInv
<1>9. MainInv'
  BY <1>1, <1>3, <1>5, <1>6 DEF ServerInv, MainInv
<1> QED BY <1>1, <1>3, <1>4, <1>8, <1>9 DEF ServerInv

\* The dispatcher is told to stop, and to shut down.
LEMMA DispatcherStoppedKeeps == ServerInv /\ (StopDispatcher \/ ShutdownDispatcher) => ServerInv'
<1> SUFFICES ASSUME ServerInv, StopDispatcher \/ ShutdownDispatcher PROVE ServerInv'
  OBVIOUS
<1>1. UNCHANGED <<svars, qvars, saving, mainPc>>
  BY DEF StopDispatcher, ShutdownDispatcher
<1>2. SchedulerInv' /\ QueryInv' /\ SavingInv'
  BY <1>1, SchedulerKeeps, QueryKeeps DEF ServerInv, SchedulerStep, QueryStep, SavingInv
<1>3. UNCHANGED <<schedState, posted, sClosing, sPc, dbState, qClosing, qPc>>
  BY <1>1 DEF svars, qvars
<1>4. CASE StopDispatcher
  <2>1. Disp!Stop /\ dbState = "CLOSING"
    BY <1>4 DEF StopDispatcher
  <2>2. /\ UNCHANGED <<taskList, dPc, current, dSignalled, posting, dAccepted, dDeleted>>
        /\ dState = "RUNNING" /\ dState' = "CLOSING"
    BY <2>1 DEF Disp!Stop
  <2>3. /\ dSignalled \in BOOLEAN /\ dPc \in {"check", "lock", "waiting", "run", "done"}
        /\ dPc = "done" => dState = "TERMINATED"
    BY DEF ServerInv, DispatcherInv, Disp!TypeOK
  <2>4. DispatcherInv' /\ Made' = Made /\ Named(taskList') = Named(taskList)
    BY <2>2, <2>3, QuietKeeps DEF ServerInv
  <2>5. GameShutdown \in Made
    BY <2>1 DEF ServerInv, LifeInv
  <2>6. LifeInv'
    BY <1>3, <2>2, <2>4, <2>5 DEF ServerInv, LifeInv
  <2>7. MainInv'
    BY <1>1, <1>3, <2>2 DEF ServerInv, MainInv
  <2> QED BY <1>2, <2>4, <2>6, <2>7 DEF ServerInv
<1>5. CASE ShutdownDispatcher
  <2>1. Disp!Shutdown(Worker) /\ qClosing = "done"
    BY <1>5 DEF ShutdownDispatcher
  <2>2. /\ DispatcherInv' /\ Made' = Made \cup {Halt}
        /\ UNCHANGED <<dState, dPc, current, dDeleted>> /\ dState = "CLOSING"
        /\ Named(taskList') = Named(taskList) \cup {Halt}
    BY <2>1, ShutdownKeeps DEF ServerInv
  <2>3. Halt \notin TimerTasks /\ Halt # GameShutdown
    BY LifecycleAssumption
  <2>4. LifeInv'
    BY <1>3, <2>1, <2>2, <2>3 DEF ServerInv, LifeInv
  <2>5. MainInv'
    BY <1>1, <1>3, <2>2 DEF ServerInv, MainInv
  <2> QED BY <1>2, <2>2, <2>4, <2>5 DEF ServerInv
<1> QED BY <1>4, <1>5

\* A task returns.
LEMMA EndTaskKeeps == ServerInv /\ EndTask => ServerInv'
<1> SUFFICES ASSUME ServerInv, EndTask PROVE ServerInv'
  OBVIOUS
<1>1. UNCHANGED <<svars, qvars, mainPc>> /\ Disp!FinishTask /\ ScriptDone /\ SavingInv'
  BY DEF EndTask, SavingInv
<1>2. PICK x \in current : current = {x} /\ dPc = "run"
  BY DEF EndTask, Running
<1>3. SchedulerInv' /\ QueryInv'
  BY <1>1, SchedulerKeeps, QueryKeeps DEF ServerInv, SchedulerStep, QueryStep
<1>4. UNCHANGED <<schedState, posted, sClosing, sPc, dbState, qClosing, qPc>>
  BY <1>1 DEF svars, qvars
<1>5. /\ DispatcherInv' /\ Made' = Made /\ Named(taskList') = Named(taskList)
      /\ dDeleted' = dDeleted \cup current /\ current' = {}
      /\ dState' = IF current = {Halt} THEN "TERMINATED" ELSE dState
  BY <1>1, FinishKeeps DEF ServerInv
<1>6. /\ current = {SignalTask} => dState = "CLOSING"
      /\ current = {GameShutdown} => Halt \in Made
  BY <1>1, SameNotions DEF ScriptDone
<1>7. Halt \in current => dState # "RUNNING"
  BY DEF ServerInv, DispatcherInv, Made
<1>8. dState' # "RUNNING" <=> dState # "RUNNING"
  BY <1>2, <1>5, <1>7
<1>9. LifeInv'
  BY <1>2, <1>4, <1>5, <1>6, <1>8 DEF ServerInv, LifeInv
<1>10. MainInv'
  BY <1>1, <1>2, <1>4, <1>5 DEF ServerInv, MainInv
<1> QED BY <1>1, <1>3, <1>5, <1>9, <1>10 DEF ServerInv

\* The main thread goes on.
LEMMA MainKeeps == ServerInv /\ (MainLeavesRun \/ MainJoins) => ServerInv'
<1> SUFFICES ASSUME ServerInv, MainLeavesRun \/ MainJoins PROVE ServerInv'
  OBVIOUS
<1>1. UNCHANGED <<dvars, svars, qvars, saving>>
  BY DEF MainLeavesRun, MainJoins
<1>2. /\ DispatcherInv' /\ Made' = Made /\ Named(taskList') = Named(taskList)
      /\ UNCHANGED <<dState, dPc, current, dDeleted>>
  BY <1>1, DispatcherStays DEF ServerInv
<1>3. SchedulerInv' /\ QueryInv' /\ SavingInv'
  BY <1>1, SchedulerKeeps, QueryKeeps DEF ServerInv, SchedulerStep, QueryStep, SavingInv
<1>4. UNCHANGED <<schedState, posted, sClosing, sPc, dbState, qClosing, qPc>>
  BY <1>1 DEF svars, qvars
<1>5. LifeInv'
  BY <1>2, <1>4 DEF ServerInv, LifeInv
<1>6. MainInv'
  BY <1>2, <1>4 DEF ServerInv, MainInv, MainLeavesRun, MainJoins
<1> QED BY <1>2, <1>3, <1>5, <1>6 DEF ServerInv

\* At the start.
LEMMA ServerStarts == ServerInit => ServerInv
<1> SUFFICES ASSUME ServerInit PROVE ServerInv
  OBVIOUS
<1>1. Disp!Init /\ Sched!Init /\ Dbase!Init /\ saving = "no" /\ mainPc = "running"
  BY DEF ServerInit
<1>2. PICK M \in Nat \ {0} : M = Cardinality(TimerTasks)
  BY LifecycleAssumption, FS_CardinalityType, FS_EmptySet
<1>3. Made = {} /\ taskList = <<>> /\ dAccepted = <<>> /\ dState = "RUNNING" /\ dPc = "check"
      /\ current = {} /\ dDeleted = {} /\ dSignalled = FALSE /\ posting = {}
  BY <1>1 DEF Disp!Init, Made, Named
<1>4. DispatcherInv
  <2>1. TimersFirst(taskList) /\ HaltLast(taskList) /\ Named(dAccepted) = {}
    BY <1>3 DEF TimersFirst, HaltLast, Named
  <2>2. taskList \in Seq(Disp!AllTasks) /\ dAccepted \in Seq(Disp!AllTasks)
    BY <1>3
  <2>3. Disp!TypeOK
    BY <1>3, <2>2 DEF Disp!TypeOK
  <2> QED BY <1>3, <2>1, <2>3 DEF DispatcherInv
<1>5. SchedulerInv
  <2>1. /\ schedState = "RUNNING" /\ eventList = {} /\ eventIds = {} /\ lastEventId = 0 /\ now = 0
        /\ eventId = [t \in TimerTasks |-> 0] /\ cycle = [t \in TimerTasks |-> 0]
        /\ sPc = "check" /\ deadline = 0 /\ sHand = {} /\ sSignalled = FALSE /\ sOwing = {}
        /\ posted = {} /\ sDeleted = {} /\ stopped = {} /\ sClosing = "no"
    BY <1>1 DEF Sched!Init
  <2>2. 0 \in 0..M /\ 0 \in 0..MaxTime
    BY LifecycleAssumption
  <2>3. eventId \in [TimerTasks -> 0..M] /\ cycle \in [TimerTasks -> 0..MaxTime]
    BY <2>1, <2>2
  <2>4. Sched!TypeOK
    BY <1>2, <2>1, <2>2, <2>3 DEF Sched!TypeOK, Sched!Times
  <2> QED BY <2>1, <2>4 DEF SchedulerInv
<1>6. QueryInv
  <2>1. /\ dbState = "RUNNING" /\ queries = <<>> /\ qSignalled = FALSE /\ qOwing = {} /\ qClosing = "no"
        /\ qAccepted = <<>> /\ executed = <<>> /\ calledBack = {}
        /\ qPc = [r \in {"thread", "flusher"} |-> IF r = "thread" THEN "check" ELSE "idle"]
        /\ qHand = [r \in {"thread", "flusher"} |-> {}]
    BY <1>1 DEF Dbase!Init, Dbase!Runners
  <2>2. /\ qPc \in [{"thread", "flusher"} -> {"check", "idle", "lock", "waiting", "run", "callback", "done"}]
        /\ qHand \in [{"thread", "flusher"} -> SUBSET Queries]
        /\ \A r \in {"thread", "flusher"} : qHand[r] = {} /\ qPc[r] \notin {"run", "callback"}
    BY <2>1
  <2>3. queries \in Seq(Queries) /\ qAccepted \in Seq(Queries) /\ executed \in Seq(Queries)
    BY <2>1
  <2>4. Dbase!TypeOK
    BY <2>1, <2>2, <2>3 DEF Dbase!TypeOK, Dbase!Runners
  <2>5. Named(qAccepted) = {}
    BY <2>1 DEF Named
  <2> QED BY <2>1, <2>2, <2>4, <2>5 DEF QueryInv
<1>7. LifeInv
  BY <1>1, <1>3 DEF Sched!Init, Dbase!Init, LifeInv, Named
<1>8. MainInv /\ SavingInv
  BY <1>1 DEF MainInv, SavingInv
<1> QED BY <1>4, <1>5, <1>6, <1>7, <1>8 DEF ServerInv

\* Every step keeps the invariant.
LEMMA ServerKeeps == ServerInv /\ [ServerNext]_serverVars => ServerInv'
<1> SUFFICES ASSUME ServerInv, [ServerNext]_serverVars PROVE ServerInv'
  OBVIOUS
<1>1. ASSUME UNCHANGED saving PROVE SavingInv'
  BY <1>1 DEF ServerInv, SavingInv
<1>2. CASE SchedulerThread \/ NotifyScheduler \/ Clock
  <2>1. SchedulerOwn /\ UNCHANGED <<dvars, qvars, saving, mainPc>>
    BY <1>2 DEF SchedulerThread, NotifyScheduler, Clock, SchedulerOwn
  <2> QED BY <1>1, <2>1, CalmKeeps DEF QueryOwn
<1>3. ASSUME NEW t \in TimerTasks, NEW due \in 0..MaxTime, SetTimer(t, due) PROVE ServerInv'
  <2>1. SchedulerOwn /\ UNCHANGED <<dvars, qvars, saving, mainPc>>
    BY <1>3 DEF SetTimer, SchedulerOwn
  <2> QED BY <1>1, <2>1, CalmKeeps DEF QueryOwn
<1>4. CASE DatabaseThread \/ NotifyDatabase \/ FlushStep
  <2>1. QueryOwn /\ UNCHANGED <<dvars, svars, saving, mainPc>>
    BY <1>4 DEF DatabaseThread, NotifyDatabase, FlushStep, QueryOwn
  <2> QED BY <1>1, <2>1, CalmKeeps DEF SchedulerOwn
<1>5. ASSUME NEW q \in Queries, PostQuery(q) PROVE ServerInv'
  <2>1. QueryOwn /\ UNCHANGED <<dvars, svars, saving, mainPc>>
    BY <1>5 DEF PostQuery, QueryOwn
  <2> QED BY <1>1, <2>1, CalmKeeps DEF SchedulerOwn
<1>6. CASE SaveBegin
  <2>1. QueryOwn /\ UNCHANGED <<dvars, svars, mainPc>> /\ SavingInv'
    BY <1>6 DEF SaveBegin, QueryOwn, SavingInv
  <2> QED BY <2>1, CalmKeeps DEF SchedulerOwn
<1>7. ASSUME NEW p \in Threads, NotifyDispatcher(p) PROVE ServerInv'
  <2>1. UNCHANGED <<svars, qvars, saving, mainPc>> /\ Disp!NotifyWorker(p)
    BY <1>7 DEF NotifyDispatcher
  <2>2. /\ UNCHANGED <<dState, taskList, dPc, current, dAccepted, dDeleted>>
        /\ posting' \subseteq posting /\ dSignalled' \in BOOLEAN
        /\ dPc \in {"check", "lock", "waiting", "run", "done"} /\ (dPc = "done" => dState = "TERMINATED")
    BY <2>1 DEF Disp!NotifyWorker, ServerInv, DispatcherInv, Disp!TypeOK
  <2>3. DispatcherInv' /\ Made' = Made /\ Named(taskList') = Named(taskList)
    BY <2>2, QuietKeeps DEF ServerInv
  <2>4. SchedulerInv' /\ QueryInv' /\ SavingInv'
    BY <2>1, <1>1, SchedulerKeeps, QueryKeeps DEF ServerInv, SchedulerStep, QueryStep
  <2>5. UNCHANGED <<schedState, posted, sClosing, sPc, dbState, qClosing, qPc>>
    BY <2>1 DEF svars, qvars
  <2>6. LifeInv' /\ MainInv'
    BY <2>1, <2>2, <2>3, <2>5, CalmStep DEF ServerInv, DoneStays
  <2> QED BY <2>3, <2>4, <2>6 DEF ServerInv
<1>8. ASSUME NEW r \in {"thread", "flusher"}, NEW p \in Threads, DeliverCallback(r, p) PROVE ServerInv'
  <2>1. QueryOwn /\ SchedulerOwn /\ UNCHANGED <<saving, mainPc>>
    BY <1>8 DEF DeliverCallback, QueryOwn, SchedulerOwn
  <2>2. CASE UNCHANGED dvars
    BY <1>1, <2>1, <2>2, CalmKeeps
  <2>3. CASE Disp!AddTask(p, CallbackTask)
    BY <2>1, <2>3, PostKeeps
  <2> QED BY <1>8, <2>2, <2>3 DEF DeliverCallback
<1>9. ASSUME NEW t \in NetTasks \cup {SignalTask}, Receive(t) PROVE ServerInv'
  <2>1. Disp!AddTask(Network, t) /\ UNCHANGED <<svars, qvars, saving, mainPc>> /\ Network \in Threads
    BY <1>9 DEF Receive, Threads
  <2>2. QueryOwn /\ SchedulerOwn
    BY <2>1 DEF QueryOwn, SchedulerOwn
  <2> QED BY <2>1, <2>2, PostKeeps
<1>10. CASE UNCHANGED serverVars
  <2>1. UNCHANGED <<dvars, svars, qvars, saving, mainPc>>
    BY <1>10 DEF serverVars
  <2> QED BY <1>1, <2>1, CalmKeeps DEF SchedulerOwn, QueryOwn
<1>11. Worker \in Threads /\ DbThread \in Threads
  BY DEF Threads
<1>12. CASE Script
  BY <1>4, <1>6, <1>8, <1>11, <1>12, PostShutdownKeeps, SchedulerStoppedKeeps,
     QueriesStoppedKeeps, DispatcherStoppedKeeps DEF Script
<1> QED BY <1>2, <1>3, <1>4, <1>5, <1>7, <1>8, <1>9, <1>10, <1>11, <1>12,
           DispatcherThreadKeeps, DeliverTimerKeeps, EndTaskKeeps, MainKeeps DEF ServerNext

\* What follows from it.
LEMMA ServerOrderly == ServerInv => OrderlyEnd
<1> SUFFICES ASSUME ServerInv PROVE OrderlyEnd
  OBVIOUS
<1>1. ServerTypeOK
  BY DEF ServerTypeOK, ServerInv, DispatcherInv, SchedulerInv, QueryInv, SavingInv, MainInv
<1>2. \A t \in TimerTasks : t \in Disp!Created <=> t \in posted
  BY SameNotions DEF ServerInv, LifeInv
<1>3. GameShutdown \in dDeleted => TimerTasks \cap (current \cup Disp!Elems(taskList)) = {}
  BY SameNotions DEF ServerInv, LifeInv
<1>4. ASSUME mainPc = "exited"
      PROVE  /\ Disp!Elems(qAccepted) \subseteq Disp!Elems(executed)
             /\ Disp!Elems(dAccepted) \subseteq dDeleted
             /\ taskList = <<>> /\ eventList = {}
  <2>1. dPc = "done" /\ qPc["thread"] = "done" /\ GameShutdown \in dDeleted
    BY <1>4 DEF ServerInv, MainInv
  <2>2. Halt \in dDeleted /\ taskList = <<>> /\ current = {}
    BY <2>1 DEF ServerInv, DispatcherInv, Disp!TypeOK
  <2>3. Named(dAccepted) \subseteq dDeleted
    BY <2>2 DEF ServerInv, DispatcherInv, Made, Named
  <2>4. qClosing = "done" /\ sClosing = "notified"
    BY <2>2 DEF ServerInv, LifeInv, Made
  <2>5. eventList = {}
    BY <2>4 DEF ServerInv, SchedulerInv
  <2>6. queries = <<>> /\ qHand["flusher"] = {} /\ qHand["thread"] = {}
    BY <2>1, <2>4 DEF ServerInv, QueryInv, Dbase!TypeOK, Dbase!Runners
  <2>7. Named(qAccepted) \subseteq Named(executed)
    BY <2>6 DEF ServerInv, QueryInv, Named
  <2> QED BY <2>2, <2>3, <2>5, <2>7, SameNotions
<1> QED BY <1>1, <1>2, <1>3, <1>4 DEF OrderlyEnd

\* The server's parts hand over to each other and end in order: a timer is the
\* dispatcher's exactly if the scheduler gave it away (Scheduler::threadMain),
\* none runs after Game::shutdown has torn the world down, and when the process
\* exits every accepted query has been executed and every accepted task has run.
THEOREM OrderlyEndHolds == ServerSpec => []OrderlyEnd
<1>1. ServerInit => ServerInv
  BY ServerStarts
<1>2. ServerInv /\ [ServerNext]_serverVars => ServerInv'
  BY ServerKeeps
<1>3. ServerInv => OrderlyEnd
  BY ServerOrderly
<1> QED BY <1>1, <1>2, <1>3, PTL DEF ServerSpec

-----------------------------------------------------------------------------
(* Live casts *)

\* CastMessages, handlers of the network thread, tasks, and all that is kept.
CastMessages == [items : Seq(Nat), all : BOOLEAN]
Handlers == [do : {"broadcast"}, client : Casters, items : Seq(Nat)]
            \union [do : {"written"}, client : Casters]
Errands == {"login", "logout", "stop", "release"}
CastStates ==
  [life : {"in", "removed", "cleaned"}, refs : Int, client : Casters \union {Off},
   owner : SUBSET Casters, caster : SUBSET Casters, listed : Casters \union {Off},
   spectators : [Casters -> SUBSET Viewers], row : Nat \union {Off},
   watching : SUBSET Viewers, of : [Viewers -> Casters \union {Off}],
   begun : SUBSET Protocols, conn : [Protocols -> {"open", "closed"}],
   tasks : [Protocols -> Seq(Errands)], buffer : [Casters -> CastMessages],
   queue : [Casters -> Seq(CastMessages)], io : Seq(Handlers), written : Nat,
   seen : [Viewers -> Seq(Nat)], since : [Viewers -> Nat]]

\* Those who watch, the cast and the player know of each other.
Linked(u) ==
  /\ u.caster = IF u.listed = Off THEN {} ELSE {u.listed}
  /\ u.caster \subseteq {u.client}
  /\ u.client # Off => u.client \in u.owner
  /\ \A c \in Casters : u.spectators[c] = {v \in u.watching : u.of[v] = c}
  /\ \A v \in u.watching : u.of[v] \in u.caster
  /\ IsFiniteSet(u.watching)
  /\ u.refs = (IF u.life = "cleaned" THEN 0 ELSE 1) + (IF u.client = Off THEN 0 ELSE 1)
              + Cardinality(u.watching)
  /\ u.row = IF u.listed = Off THEN Off ELSE Cardinality(u.watching)

\* A login in a list of tasks, and one at most.
Has(t) == \E i \in DOMAIN t : t[i] = "login"
Once(t) == \A i, j \in DOMAIN t : t[i] = "login" /\ t[j] = "login" => i = j

\* A spectator logs in once, and has seen nothing before.
LogsIn(u, v) ==
  /\ v \notin u.begun \/ Has(u.tasks[v]) => v \notin u.watching /\ u.seen[v] = << >>
  /\ v \notin u.begun => ~Has(u.tasks[v])
  /\ Once(u.tasks[v])

\* A handler that copies a message of client c to those who watch.
Posts(h, c) == h.do = "broadcast" /\ h.client = c

\* What waits in the queue q and the buffer s was written in this order, up to n.
UpTo(s, n) == \A x \in DOMAIN s : s[x] <= n
Ascending(q, s, n) ==
  /\ Rising(s) /\ UpTo(s, n)
  /\ \A j \in DOMAIN q : Rising(q[j].items) /\ UpTo(q[j].items, n) /\ Below(q[j].items, s)
  /\ \A j, k \in DOMAIN q : j < k => Below(q[j].items, q[k].items)

\* Handlers of client c are there only while a message is written: one that copies it,
\* and one for its end, behind that.
Attended(io, q, c) ==
  /\ \A i \in DOMAIN io : io[i].client = c => q # << >>
  /\ \A i, j \in DOMAIN io : io[i].client = c /\ io[j].client = c =>
       /\ io[i].do = io[j].do => i = j
       /\ io[i].do = "broadcast" /\ io[j].do = "written" => i < j
  /\ \A i \in DOMAIN io : Posts(io[i], c) => io[i].items = q[1].items

Streams(u, c) ==
  /\ Attended(u.io, u.queue[c], c)
  /\ Ascending(u.queue[c], u.buffer[c].items, u.written)

\* n has left the buffer of client c, is on its way to those who watch him, or was seen
\* by v.
Posted(io, c, n) == \E i \in DOMAIN io : Posts(io[i], c) /\ n \in ToSet(io[i].items)
Queued(q, n) == \E j \in DOMAIN q : j > 1 /\ q[j].all /\ n \in ToSet(q[j].items)
Underway(u, c, n) == Posted(u.io, c, n) \/ Queued(u.queue[c], n)
Coming(u, c, n) ==
  Underway(u, c, n) \/ (Open(u, c) /\ u.buffer[c].all /\ n \in ToSet(u.buffer[c].items))
Shows(u, v, n) == n \in ToSet(u.seen[v]) \/ Coming(u, u.of[v], n)

\* v has seen what comes before all that is on its way.
Ahead(s, io, q, c) ==
  /\ \A i \in DOMAIN io : Posts(io[i], c) => Below(s, io[i].items)
  /\ \A j \in DOMAIN q : j > 1 => Below(s, q[j].items)
SeenBefore(u, v, c) ==
  /\ Rising(u.seen[v]) /\ UpTo(u.seen[v], u.written) /\ Below(u.seen[v], u.buffer[c].items)
  /\ Ahead(u.seen[v], u.io, u.queue[c], c)

\* Nothing between is left out, nor at the end while the client is connected.
NoGap(u, v, c) ==
  /\ \A n \in u.since[v] + 1 .. u.written :
       Shows(u, v, n) => \A k \in u.since[v] + 1 .. n : Shows(u, v, k)
  /\ Open(u, c) => \A n \in u.since[v] + 1 .. u.written : Shows(u, v, n)

Follows(u, v) ==
  v \in u.watching /\ Open(u, v) => SeenBefore(u, v, u.of[v]) /\ NoGap(u, v, u.of[v])

Casting(u) ==
  /\ u \in CastStates /\ Linked(u)
  /\ \A v \in Viewers : LogsIn(u, v) /\ Follows(u, v)
  /\ \A c \in Casters : Streams(u, c) /\ ~Has(u.tasks[c])

CastInv == Casting(air)

-----------------------------------------------------------------------------

\* Lists of tasks.
LEMMA HasOnce ==
  ASSUME NEW t \in Seq(Errands)
  PROVE  /\ \A x \in Errands : /\ Append(t, x) \in Seq(Errands)
                               /\ x # "login" => (Has(Append(t, x)) <=> Has(t))
                               /\ x # "login" /\ Once(t) => Once(Append(t, x))
                               /\ ~Has(t) => Once(Append(t, x))
         /\ t # << >> => /\ Tail(t) \in Seq(Errands) /\ Head(t) \in Errands
                         /\ Has(Tail(t)) => Has(t)
                         /\ Once(t) => Once(Tail(t))
                         /\ Head(t) = "login" => Has(t)
                         /\ Head(t) = "login" /\ Once(t) => ~Has(Tail(t))
<1>1. ASSUME NEW x \in Errands
      PROVE  /\ Append(t, x) \in Seq(Errands)
             /\ x # "login" => (Has(Append(t, x)) <=> Has(t))
             /\ x # "login" /\ Once(t) => Once(Append(t, x))
             /\ ~Has(t) => Once(Append(t, x))
  <2>1. PICK r : r = Append(t, x)
    OBVIOUS
  <2>2. r \in Seq(Errands) /\ DOMAIN t = 1..Len(t) /\ DOMAIN r = 1..(Len(t) + 1) /\ Len(t) \in Nat
    BY <2>1
  <2>3. r[Len(t) + 1] = x /\ \A i \in 1..Len(t) : r[i] = t[i]
    BY <2>1
  <2>4. x # "login" => (Has(r) <=> Has(t))
    BY <2>2, <2>3 DEF Has
  <2>5. x # "login" /\ Once(t) => Once(r)
    BY <2>2, <2>3 DEF Once
  <2>6. ~Has(t) => Once(r)
    BY <2>2, <2>3 DEF Once, Has
  <2> QED BY <2>1, <2>2, <2>4, <2>5, <2>6
<1>2. ASSUME t # << >>
      PROVE  /\ Tail(t) \in Seq(Errands) /\ Head(t) \in Errands
             /\ Has(Tail(t)) => Has(t)
             /\ Once(t) => Once(Tail(t))
             /\ Head(t) = "login" => Has(t)
             /\ Head(t) = "login" /\ Once(t) => ~Has(Tail(t))
  <2>1. PICK r : r = Tail(t)
    OBVIOUS
  <2>2. /\ r \in Seq(Errands) /\ DOMAIN t = 1..Len(t) /\ DOMAIN r = 1..(Len(t) - 1)
        /\ Len(t) \in Nat /\ Len(t) >= 1 /\ Head(t) = t[1] /\ Head(t) \in Errands
    BY <1>2, <2>1
  <2>3. \A i \in 1..(Len(t) - 1) : r[i] = t[i + 1]
    BY <1>2, <2>1
  <2>4. \A i \in DOMAIN r : i + 1 \in DOMAIN t /\ i + 1 # 1 /\ r[i] = t[i + 1]
    BY <2>2, <2>3
  <2>5. Has(r) => Has(t)
    BY <2>4 DEF Has
  <2>6. Once(t) => Once(r)
    BY <2>2, <2>4 DEF Once
  <2>7. Head(t) = "login" => Has(t)
    BY <2>2 DEF Has
  <2>8. Head(t) = "login" /\ Once(t) => ~Has(r)
    BY <2>2, <2>4 DEF Once, Has
  <2> QED BY <2>1, <2>2, <2>5, <2>6, <2>7, <2>8
<1> QED BY <1>1, <1>2

\* What changes nothing of what is sent, connects nobody and makes nobody watch, ...
Undisturbed(u, w) ==
  /\ w.io = u.io /\ w.queue = u.queue /\ w.buffer = u.buffer /\ w.written = u.written
  /\ w.seen = u.seen /\ w.since = u.since /\ w.of = u.of
  /\ w.watching \subseteq u.watching
  /\ \A p \in Protocols : Open(w, p) => Open(u, p)

\* ... nor posts a login.
Calm(u, w) ==
  /\ Undisturbed(u, w)
  /\ \A v \in Viewers : v \in w.begun <=> v \in u.begun
  /\ \A p \in Protocols : /\ Has(w.tasks[p]) => Has(u.tasks[p])
                          /\ Once(u.tasks[p]) => Once(w.tasks[p])

LEMMA CalmTwice ==
  ASSUME NEW u, NEW v, NEW w, Calm(u, v), Calm(v, w)
  PROVE  Calm(u, w)
BY DEF Calm, Undisturbed

\* What is sent, who sees it and who logs in are in order.
Flowing(u) ==
  /\ \A v \in Viewers : LogsIn(u, v) /\ Follows(u, v)
  /\ \A c \in Casters : Streams(u, c) /\ ~Has(u.tasks[c])

\* The first part of what has no gaps has none.
LEMMA FirstPart ==
  ASSUME NEW S, NEW T, NEW a \in Nat, NEW b \in Nat,
         \A x \in S, y \in T : x < y,
         \A n \in a + 1 .. b : n \in S \union T => \A k \in a + 1 .. n : k \in S \union T
  PROVE  \A n \in a + 1 .. b : n \in S => \A k \in a + 1 .. n : k \in S
OBVIOUS

\* What v has seen and what has left the buffer comes before what has not.
LEMMA BufferLast ==
  ASSUME NEW u \in CastStates, NEW v \in Viewers, NEW c \in Casters,
         Streams(u, c), SeenBefore(u, v, c),
         NEW n, n \in ToSet(u.seen[v]) \/ Underway(u, c, n), NEW m \in ToSet(u.buffer[c].items)
  PROVE  n < m
<1>1. PICK y \in DOMAIN u.buffer[c].items : m = u.buffer[c].items[y]
  BY DEF ToSet
<1>2. CASE n \in ToSet(u.seen[v])
  BY <1>1, <1>2 DEF SeenBefore, Below, ToSet
<1>3. ASSUME NEW i \in DOMAIN u.io, Posts(u.io[i], c), n \in ToSet(u.io[i].items) PROVE n < m
  <2>1. u.queue[c] \in Seq(CastMessages)
    BY DEF CastStates
  <2>2. u.queue[c] # << >> /\ u.io[i].items = u.queue[c][1].items
    BY <1>3 DEF Streams, Attended, Posts
  <2>3. 1 \in DOMAIN u.queue[c]
    BY <2>1, <2>2
  <2>4. Below(u.queue[c][1].items, u.buffer[c].items)
    BY <2>3 DEF Streams, Ascending
  <2> QED BY <1>1, <1>3, <2>2, <2>4 DEF Below, ToSet
<1>4. ASSUME NEW j \in DOMAIN u.queue[c], n \in ToSet(u.queue[c][j].items) PROVE n < m
  <2>1. Below(u.queue[c][j].items, u.buffer[c].items)
    BY DEF Streams, Ascending
  <2> QED BY <1>1, <1>4, <2>1 DEF Below, ToSet
<1> QED BY <1>2, <1>3, <1>4 DEF Underway, Posted, Queued

\* A steady change keeps what is sent and seen, also when a client whose game is
\* watched goes.
LEMMA UndisturbedFollows ==
  ASSUME NEW u \in CastStates, NEW w, Undisturbed(u, w), Flowing(u),
         \A v \in u.watching : u.of[v] \in Casters
  PROVE  (\A c \in Casters : Streams(w, c)) /\ (\A v \in Viewers : Follows(w, v))
<1>1. \A c \in Casters : Streams(w, c)
  BY DEF Undisturbed, Flowing, Streams
<1>2. ASSUME NEW v \in Viewers, v \in w.watching, Open(w, v)
      PROVE  SeenBefore(w, v, w.of[v]) /\ NoGap(w, v, w.of[v])
  <2>1. PICK c \in Casters : c = u.of[v] /\ c = w.of[v]
    BY <1>2 DEF Undisturbed
  <2>2. SeenBefore(u, v, c) /\ NoGap(u, v, c) /\ Streams(u, c)
    <3>1. Follows(u, v) /\ v \in u.watching /\ Open(u, v)
      BY <1>2 DEF Undisturbed, Flowing, Protocols
    <3> QED BY <2>1, <3>1 DEF Follows, Flowing
  <2>3. SeenBefore(w, v, c)
    BY <2>2 DEF SeenBefore, Undisturbed
  <2>4. u.since[v] \in Nat /\ u.written \in Nat /\ w.since[v] = u.since[v] /\ w.written = u.written
    BY DEF CastStates, Undisturbed
  <2>5. \A n : Underway(w, c, n) <=> Underway(u, c, n)
    BY DEF Underway, Undisturbed
  <2>6. w.seen = u.seen /\ w.buffer = u.buffer
    BY DEF Undisturbed
  <2>7. CASE Open(w, c) <=> Open(u, c)
    <3>1. \A n : Shows(w, v, n) <=> Shows(u, v, n)
      BY <2>1, <2>5, <2>6, <2>7 DEF Shows, Coming
    <3> QED BY <2>1, <2>2, <2>3, <2>4, <2>7, <3>1 DEF NoGap
  <2>8. CASE ~(Open(w, c) <=> Open(u, c))
    <3>1. ~Open(w, c) /\ Open(u, c)
      BY <2>8 DEF Undisturbed, Protocols
    <3> DEFINE S == {n \in Nat : n \in ToSet(u.seen[v]) \/ Underway(u, c, n)}
               T == {n \in Nat : u.buffer[c].all /\ n \in ToSet(u.buffer[c].items)}
    <3>2. \A x \in S, y \in T : x < y
      BY <2>2, BufferLast
    <3>3. \A n \in Nat : Shows(w, v, n) <=> n \in S
      BY <2>1, <2>5, <2>6, <3>1 DEF Shows, Coming
    <3>4. \A n \in Nat : Shows(u, v, n) <=> n \in S \union T
      BY <2>1, <3>1 DEF Shows, Coming
    <3> HIDE DEF S, T
    <3>5. PICK a \in Nat, b \in Nat : a = u.since[v] /\ b = u.written
      BY <2>4
    <3>6. \A n \in a + 1 .. b : n \in Nat /\ \A k \in a + 1 .. n : k \in Nat
      OBVIOUS
    <3>7. \A n \in a + 1 .. b : n \in S \union T => \A k \in a + 1 .. n : k \in S \union T
      BY <2>2, <3>4, <3>5, <3>6 DEF NoGap
    <3>8. \A n \in a + 1 .. b : n \in S => \A k \in a + 1 .. n : k \in S
      BY <3>2, <3>7, FirstPart
    <3>9. NoGap(w, v, c)
      BY <2>4, <3>1, <3>3, <3>5, <3>6, <3>8 DEF NoGap
    <3> QED BY <2>1, <2>3, <3>9
  <2> QED BY <2>7, <2>8
<1> QED BY <1>1, <1>2 DEF Follows

\* A calm one keeps all of that.
LEMMA CalmFlows ==
  ASSUME NEW u \in CastStates, NEW w, Calm(u, w), Flowing(u),
         \A v \in u.watching : u.of[v] \in Casters
  PROVE  Flowing(w)
<1>1. \A v \in Viewers : LogsIn(w, v)
  BY DEF Calm, Undisturbed, Flowing, LogsIn, Protocols
<1>2. \A c \in Casters : ~Has(w.tasks[c])
  BY DEF Calm, Flowing, Protocols
<1>3. (\A c \in Casters : Streams(w, c)) /\ (\A v \in Viewers : Follows(w, v))
  BY UndisturbedFollows DEF Calm
<1> QED BY <1>1, <1>2, <1>3 DEF Flowing

\* Who watches, the cast and the player stay the same.
LinkSame(u, w) ==
  /\ w.life = u.life /\ w.refs = u.refs /\ w.client = u.client /\ w.owner = u.owner
  /\ w.caster = u.caster /\ w.listed = u.listed /\ w.spectators = u.spectators
  /\ w.row = u.row /\ w.watching = u.watching /\ w.of = u.of

LEMMA LinkedSame ==
  ASSUME NEW u, NEW w, LinkSame(u, w), Linked(u)
  PROVE  Linked(w)
BY DEF Linked, LinkSame

\* A task is posted that is no login, ...
LEMMA HandedIs ==
  ASSUME NEW u \in CastStates, NEW p \in Protocols, NEW x \in Errands, x # "login"
  PROVE  LET w == Handed(u, p, x) IN
         /\ w \in CastStates /\ Calm(u, w) /\ LinkSame(u, w)
         /\ w.conn = u.conn /\ w.begun = u.begun
<1>1. u.tasks \in [Protocols -> Seq(Errands)] /\ u.tasks[p] \in Seq(Errands)
  BY DEF CastStates
<1>2. PICK t : t = Append(u.tasks[p], x)
  OBVIOUS
<1>3. t \in Seq(Errands) /\ (Has(t) <=> Has(u.tasks[p])) /\ (Once(u.tasks[p]) => Once(t))
  BY <1>1, <1>2, HasOnce
<1>4. PICK ts : ts = [u.tasks EXCEPT ![p] = t]
  OBVIOUS
<1>5. /\ ts \in [Protocols -> Seq(Errands)]
      /\ \A q \in Protocols : /\ Has(ts[q]) <=> Has(u.tasks[q])
                              /\ Once(u.tasks[q]) => Once(ts[q])
  BY <1>1, <1>3, <1>4
<1>6. PICK w : w = [u EXCEPT !.tasks = ts]
  OBVIOUS
<1>7. Handed(u, p, x) = w
  BY <1>2, <1>4, <1>6 DEF Handed
<1>8. w \in CastStates /\ w.tasks = ts
  BY <1>5, <1>6 DEF CastStates
<1>9. LinkSame(u, w) /\ w.conn = u.conn /\ w.begun = u.begun
  BY <1>6 DEF CastStates, LinkSame
<1>10. Calm(u, w)
  <2>1. /\ w.io = u.io /\ w.queue = u.queue /\ w.buffer = u.buffer /\ w.written = u.written
        /\ w.seen = u.seen /\ w.since = u.since /\ w.of = u.of /\ w.watching = u.watching
    BY <1>6 DEF CastStates
  <2> QED BY <1>5, <1>8, <1>9, <2>1 DEF Calm, Undisturbed, Open
<1> QED BY <1>7, <1>8, <1>9, <1>10

\* ... and a connection closed.
LEMMA DisconnectedIs ==
  ASSUME NEW u \in CastStates, NEW p \in Protocols
  PROVE  LET w == Disconnected(u, p) IN
         w \in CastStates /\ Calm(u, w) /\ LinkSame(u, w) /\ ~Open(w, p) /\ w.begun = u.begun
<1>1. CASE ~Open(u, p)
  BY <1>1 DEF Disconnected, Calm, Undisturbed, LinkSame
<1>2. CASE Open(u, p)
  <2>1. PICK v : v = Handed(u, p, "release")
    OBVIOUS
  <2>2. "release" \in Errands /\ "release" # "login"
    BY DEF Errands
  <2>3. v \in CastStates /\ Calm(u, v) /\ LinkSame(u, v) /\ v.conn = u.conn /\ v.begun = u.begun
    BY <2>1, <2>2, HandedIs
  <2>4. PICK cs : cs = [v.conn EXCEPT ![p] = "closed"]
    OBVIOUS
  <2>5. cs \in [Protocols -> {"open", "closed"}] /\ cs[p] = "closed"
        /\ \A q \in Protocols : cs[q] = "open" => v.conn[q] = "open"
    BY <2>3, <2>4 DEF CastStates
  <2>6. PICK w : w = [v EXCEPT !.conn = cs]
    OBVIOUS
  <2>7. Disconnected(u, p) = w
    BY <1>2, <2>1, <2>4, <2>6 DEF Disconnected
  <2>8. w \in CastStates /\ w.conn = cs
    BY <2>3, <2>5, <2>6 DEF CastStates
  <2>9. LinkSame(v, w) /\ w.begun = v.begun
    BY <2>3, <2>6 DEF CastStates, LinkSame
  <2>10. Calm(v, w)
    <3>1. /\ w.io = v.io /\ w.queue = v.queue /\ w.buffer = v.buffer /\ w.written = v.written
          /\ w.seen = v.seen /\ w.since = v.since /\ w.of = v.of /\ w.watching = v.watching
          /\ w.tasks = v.tasks
      BY <2>3, <2>6 DEF CastStates
    <3> QED BY <2>5, <2>8, <2>9, <3>1 DEF Calm, Undisturbed, Open
  <2>11. Calm(u, w)
    BY <2>3, <2>10, CalmTwice
  <2>12. LinkSame(u, w) /\ w.begun = u.begun
    BY <2>3, <2>9 DEF LinkSame
  <2>13. ~Open(w, p)
    BY <2>5, <2>8 DEF Open
  <2> QED BY <2>7, <2>8, <2>11, <2>12, <2>13
<1> QED BY <1>1, <1>2

\* The same for the game as a whole.
LEMMA DisconnectedKeeps ==
  ASSUME NEW u, Casting(u), NEW p \in Protocols
  PROVE  Casting(Disconnected(u, p)) /\ LinkSame(u, Disconnected(u, p))
<1>1. PICK w : w = Disconnected(u, p)
  OBVIOUS
<1>2. w \in CastStates /\ Calm(u, w) /\ LinkSame(u, w)
  BY <1>1, DisconnectedIs DEF Casting
<1>3. Linked(w)
  BY <1>2, LinkedSame DEF Casting
<1>4. \A v \in u.watching : u.of[v] \in Casters
  BY DEF Casting, Linked, CastStates
<1>5. Flowing(w)
  BY <1>2, <1>4, CalmFlows DEF Casting, Flowing
<1>6. Casting(w)
  BY <1>2, <1>3, <1>5 DEF Casting, Flowing
<1> QED BY <1>1, <1>2, <1>6

\* What is calm and keeps the links keeps all.
LEMMA CalmCasting ==
  ASSUME NEW u, Casting(u), NEW w \in CastStates, Calm(u, w), Linked(w)
  PROVE  Casting(w)
<1>1. \A v \in u.watching : u.of[v] \in Casters
  BY DEF Casting, Linked, CastStates
<1>2. Flowing(w)
  BY <1>1, CalmFlows DEF Casting, Flowing
<1> QED BY <1>2 DEF Casting, Flowing

\* A cast has all those who watch, and is that of the player's client.
LEMMA OneCast ==
  ASSUME NEW u \in CastStates, Linked(u), NEW c \in Casters, c \in u.caster
  PROVE  /\ u.caster = {c} /\ u.listed = c /\ u.client = c /\ u.spectators[c] = u.watching
         /\ \A d \in Casters \ {c} : u.spectators[d] = {}
<1>1. u.caster = {c} /\ u.listed = c
  BY DEF Linked
<1>2. u.client = c
  BY <1>1 DEF Linked
<1>3. \A v \in u.watching : u.of[v] = c
  BY <1>1 DEF Linked
<1>4. \A d \in Casters : u.spectators[d] = {v \in u.watching : u.of[v] = d}
  BY DEF Linked
<1>5. u.spectators[c] = u.watching
  BY <1>3, <1>4
<1>6. \A d \in Casters \ {c} : u.spectators[d] = {}
  BY <1>3, <1>4
<1> QED BY <1>1, <1>2, <1>5, <1>6

\* A set of numbers with something in it has a least one.
LEMMA LeastNumber ==
  ASSUME NEW T \in SUBSET Nat, T # {}
  PROVE  \E n \in T : \A m \in T : n <= m
<1>1. PICK n \in T : \A m \in T : ~(<<m, n>> \in OpToRel(<, Nat))
  BY WFMin, NatLessThanWellFounded
<1>2. \A m \in T : <<m, n>> \in OpToRel(<, Nat) <=> m < n
  BY DEF OpToRel
<1>3. \A m \in T : ~(m < n)
  BY <1>1, <1>2, Zenon
<1>4. QED BY <1>3

\* The spectator the loop of stopLiveCast takes next, and the sets of n at most.
Pick(s) == CHOOSE x \in s : TRUE
Smaller(D, n) == {s \in SUBSET D : Cardinality(s) <= n}

\* f satisfies the recursion equation of that loop, on the given sets of spectators.
EndsOn(g, Ds, f) == f = [s \in Ds |-> IF s = {} THEN g ELSE CastEnded(f[s \ {Pick(s)}], Pick(s))]

\* The player's protocol when its cast ends, its spectators not yet told.
Silenced(u, c) ==
  [u EXCEPT !.spectators[c] = {}, !.caster = @ \ {c}, !.listed = Off, !.row = Off]

\* The loop is that recursion.
LEMMA StopIs ==
  ASSUME NEW u, NEW c, c \in u.caster
  PROVE  CastStopped(u, c)
         = (CHOOSE f : EndsOn(Silenced(u, c), SUBSET u.spectators[c], f))[u.spectators[c]]
  BY DEF CastStopped, FoldSet, MapThenFoldSet, EndsOn, Pick, Silenced

\* A finite set without one of its elements.
LEMMA OneLess ==
  ASSUME NEW s, IsFiniteSet(s), NEW x \in s
  PROVE  /\ IsFiniteSet(s \ {x})
         /\ Cardinality(s) \in Nat /\ Cardinality(s \ {x}) \in Nat
         /\ Cardinality(s \ {x}) + 1 = Cardinality(s)
<1>1. IsFiniteSet(s \ {x})
  BY FS_RemoveElement
<1>2. Cardinality(s \ {x}) = Cardinality(s) - 1
  BY FS_RemoveElement
<1>3. Cardinality(s) \in Nat /\ Cardinality(s \ {x}) \in Nat
  BY <1>1, FS_CardinalityType
<1> QED BY <1>1, <1>2, <1>3

\* What is taken was in the set.
LEMMA PickIn ==
  ASSUME NEW s, s # {}
  PROVE  Pick(s) \in s
  BY DEF Pick

\* The recursion has a solution on the sets of n spectators at most, ...
LEMMA SolvableStep ==
  ASSUME NEW g, NEW D, IsFiniteSet(D), NEW n \in Nat, NEW f, EndsOn(g, Smaller(D, n), f)
  PROVE  \E h : EndsOn(g, Smaller(D, n + 1), h)
<1> DEFINE h == [s \in Smaller(D, n + 1) |->
                   IF s = {} THEN g ELSE CastEnded(f[s \ {Pick(s)}], Pick(s))]
<1>1. ASSUME NEW s \in Smaller(D, n + 1), s # {}
      PROVE  /\ s \ {Pick(s)} \in Smaller(D, n)
             /\ s \ {Pick(s)} \in Smaller(D, n + 1)
  <2>1. s \subseteq D /\ Cardinality(s) <= n + 1 /\ IsFiniteSet(s) /\ Pick(s) \in s
    BY <1>1, FS_Subset, PickIn DEF Smaller
  <2>2. Cardinality(s \ {Pick(s)}) \in Nat /\ Cardinality(s \ {Pick(s)}) + 1 = Cardinality(s)
    BY <2>1, OneLess
  <2>3. Cardinality(s \ {Pick(s)}) <= n
    BY <2>1, <2>2
  <2>4. s \ {Pick(s)} \subseteq D /\ Cardinality(s \ {Pick(s)}) <= n + 1
    BY <2>1, <2>2, <2>3
  <2> QED BY <2>3, <2>4 DEF Smaller
<1>2. ASSUME NEW s \in Smaller(D, n)
      PROVE  h[s] = f[s]
  <2>1. s \in Smaller(D, n + 1)
    <3>1. s \subseteq D /\ Cardinality(s) <= n /\ IsFiniteSet(s)
      BY <1>2, FS_Subset DEF Smaller
    <3>2. Cardinality(s) \in Nat
      BY <3>1, FS_CardinalityType
    <3> QED BY <3>1, <3>2 DEF Smaller
  <2> QED BY <2>1 DEF EndsOn
<1>3. h = [s \in Smaller(D, n + 1) |-> IF s = {} THEN g ELSE CastEnded(h[s \ {Pick(s)}], Pick(s))]
  BY <1>1, <1>2
<1>4. QED BY <1>3 DEF EndsOn

\* ... and so on all.
LEMMA Solvable ==
  ASSUME NEW g, NEW D, IsFiniteSet(D)
  PROVE  \E f : EndsOn(g, SUBSET D, f)
<1> DEFINE Bad == {n \in Nat : ~\E f : EndsOn(g, Smaller(D, n), f)}
<1>1. 0 \notin Bad
  <2>1. Smaller(D, 0) = {{}}
    <3>1. ASSUME NEW s \in SUBSET D PROVE Cardinality(s) <= 0 <=> s = {}
      <4>1. IsFiniteSet(s) /\ Cardinality(s) \in Nat
        BY FS_Subset, FS_CardinalityType
      <4>2. Cardinality(s) = 0 <=> s = {}
        BY <4>1, FS_EmptySet
      <4> QED BY <4>1, <4>2
    <3> QED BY <3>1 DEF Smaller
  <2>2. EndsOn(g, {{}}, [s \in {{}} |-> g])
    BY DEF EndsOn
  <2> QED BY <2>1, <2>2
<1>2. Bad = {}
  <2>1. SUFFICES ASSUME Bad # {} PROVE FALSE
    OBVIOUS
  <2>2. PICK n \in Bad : \A m \in Bad : n <= m
    BY <2>1, LeastNumber
  <2>3. n # 0 /\ n - 1 \in Nat /\ n - 1 \notin Bad
    BY <1>1, <2>2
  <2>4. PICK f : EndsOn(g, Smaller(D, n - 1), f)
    BY <2>3
  <2>5. \E h : EndsOn(g, Smaller(D, (n - 1) + 1), h)
    BY <2>3, <2>4, SolvableStep
  <2>6. (n - 1) + 1 = n
    BY <2>2
  <2> QED BY <2>2, <2>5, <2>6
<1>3. Smaller(D, Cardinality(D)) = SUBSET D
  <2>1. \A s \in SUBSET D : Cardinality(s) <= Cardinality(D)
    BY FS_Subset
  <2> QED BY <2>1 DEF Smaller
<1>4. Cardinality(D) \in Nat
  BY FS_CardinalityType
<1>5. Cardinality(D) \notin Bad
  BY <1>2
<1> QED BY <1>3, <1>4, <1>5

\* Of those who watched g the spectators s have been told, and h is what is left.
Stopping(g, h, s) ==
  /\ h \in CastStates /\ Calm(g, h) /\ s \subseteq g.watching
  /\ h.watching = g.watching \ s /\ h.refs + Cardinality(s) = g.refs
  /\ h.life = g.life /\ h.client = g.client /\ h.owner = g.owner /\ h.caster = g.caster
  /\ h.listed = g.listed /\ h.spectators = g.spectators /\ h.row = g.row /\ h.of = g.of

\* ProtocolSpectator::onLiveCastStop
LEMMA OneEnded ==
  ASSUME NEW g, IsFiniteSet(g.watching), NEW h, NEW s, Stopping(g, h, s),
         NEW x \in g.watching \ s
  PROVE  Stopping(g, CastEnded(h, x), s \union {x})
<1>1. h \in CastStates /\ x \in h.watching /\ x \in Viewers /\ x \in Protocols
  BY DEF Stopping, CastStates, Protocols
<1>2. PICK r, n : r = h.watching \ {x} /\ n = h.refs - 1
  OBVIOUS
<1>3. r \in SUBSET Viewers /\ n \in Int
  BY <1>1, <1>2 DEF CastStates
<1>4. PICK v : v = [h EXCEPT !.watching = r, !.refs = n]
  OBVIOUS
<1>5. CastEnded(h, x) = Disconnected(v, x)
  BY <1>1, <1>4, <1>2 DEF CastEnded
<1>6. v \in CastStates
  BY <1>1, <1>4, <1>3 DEF CastStates
<1>7. /\ v.watching = h.watching \ {x} /\ v.refs = h.refs - 1
      /\ v.life = h.life /\ v.client = h.client /\ v.owner = h.owner /\ v.caster = h.caster
      /\ v.listed = h.listed /\ v.spectators = h.spectators /\ v.row = h.row /\ v.of = h.of
  BY <1>1, <1>4, <1>2 DEF CastStates
<1>8. Calm(h, v)
  <2>1. /\ v.io = h.io /\ v.queue = h.queue /\ v.buffer = h.buffer /\ v.written = h.written
        /\ v.seen = h.seen /\ v.since = h.since /\ v.tasks = h.tasks /\ v.conn = h.conn
        /\ v.begun = h.begun
    BY <1>1, <1>4 DEF CastStates
  <2> QED BY <1>7, <2>1 DEF Calm, Undisturbed, Open
<1>9. PICK w : w = Disconnected(v, x)
  OBVIOUS
<1>10. w \in CastStates /\ Calm(v, w) /\ LinkSame(v, w)
  BY <1>1, <1>6, <1>9, DisconnectedIs
<1>11. Calm(g, w)
  <2>1. Calm(g, h) /\ Calm(h, w)
    BY <1>8, <1>10, CalmTwice DEF Stopping
  <2> QED BY <2>1, CalmTwice
<1>12. Cardinality(s \union {x}) = Cardinality(s) + 1 /\ Cardinality(s) \in Nat
  <2>1. IsFiniteSet(s) /\ x \notin s
    BY FS_Subset DEF Stopping
  <2> QED BY <2>1, FS_AddElement, FS_CardinalityType
<1>13. w.refs + Cardinality(s \union {x}) = g.refs
  <2>1. h.refs \in Int /\ h.refs + Cardinality(s) = g.refs /\ w.refs = h.refs - 1
    BY <1>1, <1>7, <1>10 DEF Stopping, LinkSame, CastStates
  <2> QED BY <1>12, <2>1
<1>14. w.watching = g.watching \ (s \union {x}) /\ s \union {x} \subseteq g.watching
  BY <1>7, <1>10 DEF Stopping, LinkSame
<1>15. /\ w.life = g.life /\ w.client = g.client /\ w.owner = g.owner /\ w.caster = g.caster
       /\ w.listed = g.listed /\ w.spectators = g.spectators /\ w.row = g.row /\ w.of = g.of
  BY <1>7, <1>10 DEF Stopping, LinkSame
<1>16. Stopping(g, w, s \union {x})
  BY <1>10, <1>11, <1>13, <1>14, <1>15 DEF Stopping
<1> QED BY <1>5, <1>9, <1>16

\* The loop gets from one spectator to the next in that way.
LEMMA LoopTells ==
  ASSUME NEW g \in CastStates, NEW D, D = g.watching, IsFiniteSet(D),
         NEW f, EndsOn(g, SUBSET D, f), NEW S \in SUBSET D
  PROVE  Stopping(g, f[S], S)
<1> DEFINE Fine(s) == Stopping(g, f[s], s)
           Bad == {n \in Nat : \E s \in SUBSET D : Cardinality(s) = n /\ ~Fine(s)}
<1>1. \A s \in SUBSET D : f[s] = IF s = {} THEN g ELSE CastEnded(f[s \ {Pick(s)}], Pick(s))
  BY DEF EndsOn
<1>2. Fine({})
  <2>1. f[{}] = g
    BY <1>1
  <2>2. Calm(g, g)
    BY DEF Calm, Undisturbed
  <2>3. g.refs \in Int /\ Cardinality({}) = 0
    BY FS_EmptySet DEF CastStates
  <2>4. g.refs + Cardinality({}) = g.refs
    BY <2>3
  <2> QED BY <2>1, <2>2, <2>4 DEF Stopping
<1>3. ASSUME NEW s \in SUBSET D, s # {}, Fine(s \ {Pick(s)}) PROVE Fine(s)
  <2>1. PICK x : x = Pick(s)
    OBVIOUS
  <2>2. PICK r : r = s \ {x}
    OBVIOUS
  <2>3. x \in D \ r /\ s = r \union {x}
    BY <1>3, <2>1, <2>2, PickIn
  <2>4. f[s] = CastEnded(f[r], x)
    BY <1>1, <1>3, <2>1, <2>2
  <2>5. Stopping(g, f[r], r)
    BY <1>3, <2>1, <2>2
  <2>6. Stopping(g, CastEnded(f[r], x), r \union {x})
    BY <2>3, <2>5, OneEnded
  <2> QED BY <2>3, <2>4, <2>6
<1>4. SUFFICES ASSUME ~Fine(S) PROVE FALSE
  OBVIOUS
<1>5. Bad # {} /\ Bad \in SUBSET Nat
  <2>1. Cardinality(S) \in Nat
    BY FS_Subset, FS_CardinalityType
  <2> QED BY <1>4, <2>1
<1>6. PICK n \in Bad : \A m \in Bad : n <= m
  BY <1>5, LeastNumber
<1>7. PICK s \in SUBSET D : Cardinality(s) = n /\ ~Fine(s)
  BY <1>6
<1> HIDE DEF Fine
<1>8. s # {}
  BY <1>2, <1>7
<1> DEFINE r == s \ {Pick(s)}
<1>9. Pick(s) \in s /\ IsFiniteSet(s) /\ r \in SUBSET D
  BY <1>8, FS_Subset, PickIn
<1>10. Cardinality(r) \in Nat /\ Cardinality(r) + 1 = n
  BY <1>7, <1>9, OneLess
<1>11. ~Fine(r)
  BY <1>3, <1>7, <1>8
<1>12. Cardinality(r) \in Bad
  BY <1>9, <1>10, <1>11
<1>13. n <= Cardinality(r) /\ n \in Nat
  BY <1>6, <1>12
<1> QED BY <1>10, <1>13

\* The cast that ends, before its spectators are told.
LEMMA SilencedIs ==
  ASSUME NEW u \in CastStates, Linked(u), NEW c \in Casters, c \in u.caster
  PROVE  LET g == Silenced(u, c) IN
         /\ g \in CastStates /\ Calm(u, g)
         /\ g.life = u.life /\ g.client = u.client /\ g.owner = u.owner /\ g.refs = u.refs
         /\ g.watching = u.watching /\ g.of = u.of /\ g.caster = {} /\ g.listed = Off /\ g.row = Off
         /\ \A d \in Casters : g.spectators[d] = {}
<1>1. PICK sp, cs : sp = [u.spectators EXCEPT ![c] = {}] /\ cs = u.caster \ {c}
  OBVIOUS
<1>2. /\ u.caster = {c} /\ u.listed = c /\ u.spectators[c] = u.watching
      /\ \A d \in Casters \ {c} : u.spectators[d] = {}
  BY OneCast
<1>3. u.spectators \in [Casters -> SUBSET Viewers]
  BY DEF CastStates
<1>4. sp \in [Casters -> SUBSET Viewers] /\ (\A d \in Casters : sp[d] = {}) /\ cs = {}
  BY <1>1, <1>2, <1>3
<1>5. PICK g : g = [u EXCEPT !.spectators = sp, !.caster = cs, !.listed = Off, !.row = Off]
  OBVIOUS
<1>6. Silenced(u, c) = g
  BY <1>1, <1>5 DEF Silenced
<1>7. g \in CastStates
  BY <1>4, <1>5 DEF CastStates
<1>8. /\ g.life = u.life /\ g.client = u.client /\ g.owner = u.owner /\ g.refs = u.refs
      /\ g.watching = u.watching /\ g.of = u.of /\ g.caster = cs /\ g.listed = Off /\ g.row = Off
      /\ g.spectators = sp
  BY <1>5 DEF CastStates
<1>9. /\ g.io = u.io /\ g.queue = u.queue /\ g.buffer = u.buffer /\ g.written = u.written
      /\ g.seen = u.seen /\ g.since = u.since /\ g.tasks = u.tasks /\ g.conn = u.conn
      /\ g.begun = u.begun
  BY <1>5 DEF CastStates
<1>10. Calm(u, g)
  BY <1>8, <1>9 DEF Calm, Undisturbed, Open
<1> QED BY <1>4, <1>6, <1>7, <1>8, <1>10

\* What is left of the links when a cast has ended.
Ended(u, w) ==
  /\ w.caster = {} /\ w.listed = Off /\ w.watching = {}
  /\ w.life = u.life /\ w.client = u.client /\ w.owner = u.owner
  /\ w.refs + Cardinality(u.watching) = u.refs

\* ProtocolGame::stopLiveCast
LEMMA StopKeeps ==
  ASSUME NEW u, Casting(u), NEW c \in Casters, c \in u.caster
  PROVE  Casting(CastStopped(u, c)) /\ Ended(u, CastStopped(u, c)) /\ Calm(u, CastStopped(u, c))
<1>1. u \in CastStates /\ Linked(u) /\ IsFiniteSet(u.watching)
  BY DEF Casting, Linked
<1>2. u.spectators[c] = u.watching
  BY <1>1, OneCast
<1>3. PICK g : g = Silenced(u, c)
  OBVIOUS
<1>4. /\ g \in CastStates /\ Calm(u, g)
      /\ g.life = u.life /\ g.client = u.client /\ g.owner = u.owner /\ g.refs = u.refs
      /\ g.watching = u.watching /\ g.of = u.of /\ g.caster = {} /\ g.listed = Off /\ g.row = Off
      /\ \A d \in Casters : g.spectators[d] = {}
  BY <1>1, <1>3, SilencedIs
<1>5. PICK D : D = g.watching
  OBVIOUS
<1>6. PICK f : f = CHOOSE h : EndsOn(g, SUBSET D, h)
  OBVIOUS
<1>7. IsFiniteSet(D)
  BY <1>1, <1>4, <1>5
<1>8. EndsOn(g, SUBSET D, f)
  BY <1>6, <1>7, Solvable
<1>9. PICK w : w = f[D]
  OBVIOUS
<1>10. CastStopped(u, c) = w
  <2>1. u.spectators[c] = D
    BY <1>2, <1>4, <1>5
  <2> QED BY <1>3, <1>6, <1>9, <2>1, StopIs
<1>11. Stopping(g, w, D)
  BY <1>4, <1>5, <1>7, <1>8, <1>9, LoopTells
<1>12. w \in CastStates /\ Calm(u, w)
  <2>1. w \in CastStates /\ Calm(g, w)
    BY <1>11 DEF Stopping
  <2> QED BY <1>4, <2>1, CalmTwice
<1>13. /\ w.watching = {} /\ w.refs + Cardinality(u.watching) = u.refs
       /\ w.caster = {} /\ w.listed = Off /\ w.row = Off
       /\ w.life = u.life /\ w.client = u.client /\ w.owner = u.owner
       /\ \A d \in Casters : w.spectators[d] = {}
  BY <1>4, <1>5, <1>11 DEF Stopping
<1>14. Linked(w)
  <2>1. IsFiniteSet({}) /\ Cardinality({}) = 0 /\ Cardinality(u.watching) \in Nat
    BY <1>1, FS_EmptySet, FS_CardinalityType
  <2>2. w.refs \in Int /\ u.refs \in Int
    BY <1>1, <1>12 DEF CastStates
  <2>3. u.refs = (IF u.life = "cleaned" THEN 0 ELSE 1) + (IF u.client = Off THEN 0 ELSE 1)
                 + Cardinality(u.watching)
    BY <1>1 DEF Linked
  <2>4. w.refs = (IF w.life = "cleaned" THEN 0 ELSE 1) + (IF w.client = Off THEN 0 ELSE 1)
                 + Cardinality(w.watching)
    BY <1>13, <2>1, <2>2, <2>3
  <2>5. w.client # Off => w.client \in w.owner
    BY <1>1, <1>13 DEF Linked
  <2> QED BY <1>13, <2>1, <2>4, <2>5 DEF Linked
<1>15. Casting(w)
  BY <1>12, <1>14, CalmCasting
<1>16. Ended(u, w)
  BY <1>13 DEF Ended
<1> QED BY <1>10, <1>12, <1>15, <1>16

\* ProtocolGame::stopLiveCast of a client that may not cast
LEMMA StopAnyKeeps ==
  ASSUME NEW u, Casting(u), NEW c \in Casters
  PROVE  LET w == CastStopped(u, c) IN
         /\ Casting(w) /\ w.life = u.life /\ w.client = u.client /\ w.owner = u.owner
         /\ c \notin w.caster
<1>1. CASE c \in u.caster
  <2>1. PICK w : w = CastStopped(u, c)
    OBVIOUS
  <2>2. Casting(w) /\ Ended(u, w)
    BY <1>1, <2>1, StopKeeps
  <2> QED BY <2>1, <2>2 DEF Ended
<1>2. CASE c \notin u.caster
  BY <1>2 DEF CastStopped
<1> QED BY <1>1, <1>2

\* ProtocolGame::release
LEMMA ReleaseKeeps ==
  ASSUME LiveCastAssumption, NEW u, Casting(u), NEW c \in Casters
  PROVE  Casting(ClientReleased(u, c))
<1>1. PICK v : v = CastStopped(u, c)
  OBVIOUS
<1>2. Casting(v) /\ c \notin v.caster
  BY <1>1, StopAnyKeeps
<1>3. CASE ~(c \in v.owner /\ v.client = c)
  BY <1>1, <1>2, <1>3 DEF ClientReleased
<1>4. CASE c \in v.owner /\ v.client = c
  <2>1. v \in CastStates /\ Linked(v)
    BY <1>2 DEF Casting
  <2>2. PICK n, o : n = v.refs - 1 /\ o = v.owner \ {c}
    OBVIOUS
  <2>3. n \in Int /\ o \in SUBSET Casters
    BY <2>1, <2>2 DEF CastStates
  <2>4. PICK w : w = [v EXCEPT !.client = Off, !.refs = n, !.owner = o]
    OBVIOUS
  <2>5. ClientReleased(u, c) = w
    BY <1>1, <1>4, <2>2, <2>4 DEF ClientReleased
  <2>6. w \in CastStates
    BY <2>1, <2>3, <2>4 DEF CastStates
  <2>7. /\ w.client = Off /\ w.refs = n /\ w.owner = o /\ w.caster = v.caster
        /\ w.listed = v.listed /\ w.watching = v.watching /\ w.of = v.of /\ w.row = v.row
        /\ w.spectators = v.spectators /\ w.life = v.life
    BY <2>1, <2>4 DEF CastStates
  <2>8. Calm(v, w)
    <3>1. /\ w.io = v.io /\ w.queue = v.queue /\ w.buffer = v.buffer /\ w.written = v.written
          /\ w.seen = v.seen /\ w.since = v.since /\ w.tasks = v.tasks /\ w.conn = v.conn
          /\ w.begun = v.begun
      BY <2>1, <2>4 DEF CastStates
    <3> QED BY <2>7, <3>1 DEF Calm, Undisturbed, Open
  <2>9. Linked(w)
    <3>1. v.caster = {}
      BY <1>2, <1>4, <2>1 DEF Linked
    <3>2. Cardinality(v.watching) \in Nat /\ v.refs \in Int
      BY <2>1, FS_CardinalityType DEF Linked, CastStates
    <3>3. v.refs = (IF v.life = "cleaned" THEN 0 ELSE 1) + 1 + Cardinality(v.watching)
      <4>1. v.client # Off
        BY <1>4 DEF LiveCastAssumption
      <4> QED BY <2>1, <4>1 DEF Linked
    <3>4. w.refs = (IF w.life = "cleaned" THEN 0 ELSE 1) + (IF w.client = Off THEN 0 ELSE 1)
                   + Cardinality(w.watching)
      BY <2>2, <2>7, <3>2, <3>3
    <3> QED BY <2>1, <2>7, <3>1, <3>4 DEF Linked
  <2> QED BY <1>2, <2>5, <2>6, <2>8, <2>9, CalmCasting
<1> QED BY <1>3, <1>4

\* ProtocolGame::removeSpectator
LEMMA LeftKeeps ==
  ASSUME LiveCastAssumption, NEW u, Casting(u), NEW v \in Viewers
  PROVE  Casting(ViewerLeft(u, v))
<1>1. CASE v \notin u.watching
  BY <1>1 DEF ViewerLeft
<1>2. CASE v \in u.watching
  <2>1. u \in CastStates /\ Linked(u) /\ IsFiniteSet(u.watching)
    BY DEF Casting, Linked
  <2>2. PICK c \in Casters : c = u.of[v] /\ c \in u.caster
    BY <1>2, <2>1 DEF Linked, CastStates
  <2>3. /\ u.caster = {c} /\ u.listed = c /\ u.client = c /\ u.spectators[c] = u.watching
        /\ \A d \in Casters \ {c} : u.spectators[d] = {}
    BY <2>1, <2>2, OneCast
  <2>4. u.row # Off /\ c # Off
    <3>1. Cardinality(u.watching) \in Nat
      BY <2>1, FS_CardinalityType
    <3> QED BY <2>1, <2>3, <3>1 DEF Linked, LiveCastAssumption
  <2>5. PICK r, n : r = u.watching \ {v} /\ n = Cardinality(r)
    OBVIOUS
  <2>6. IsFiniteSet(r) /\ n \in Nat /\ n + 1 = Cardinality(u.watching) /\ Cardinality(u.watching) \in Nat
    BY <1>2, <2>1, <2>5, OneLess
  <2>7. PICK sp, m : sp = [u.spectators EXCEPT ![c] = r] /\ m = u.refs - 1
    OBVIOUS
  <2>8. /\ sp \in [Casters -> SUBSET Viewers] /\ m \in Int /\ r \in SUBSET Viewers
        /\ sp[c] = r /\ \A d \in Casters \ {c} : sp[d] = {}
    BY <2>1, <2>3, <2>5, <2>7 DEF CastStates
  <2>9. PICK w : w = [u EXCEPT !.spectators = sp, !.watching = r, !.refs = m, !.row = n]
    OBVIOUS
  <2>10. ViewerLeft(u, v) = w
    BY <1>2, <2>2, <2>3, <2>4, <2>5, <2>7, <2>9 DEF ViewerLeft
  <2>11. w \in CastStates
    BY <2>1, <2>6, <2>8, <2>9 DEF CastStates
  <2>12. /\ w.client = u.client /\ w.refs = m /\ w.owner = u.owner /\ w.caster = u.caster
         /\ w.listed = u.listed /\ w.watching = r /\ w.of = u.of /\ w.row = n
         /\ w.spectators = sp /\ w.life = u.life
    BY <2>1, <2>9 DEF CastStates
  <2>13. Calm(u, w)
    <3>1. /\ w.io = u.io /\ w.queue = u.queue /\ w.buffer = u.buffer /\ w.written = u.written
          /\ w.seen = u.seen /\ w.since = u.since /\ w.tasks = u.tasks /\ w.conn = u.conn
          /\ w.begun = u.begun
      BY <2>1, <2>9 DEF CastStates
    <3> QED BY <2>5, <2>12, <3>1 DEF Calm, Undisturbed, Open
  <2>14. Linked(w)
    <3>1. u.refs \in Int
      BY <2>1 DEF CastStates
    <3>2. w.refs = (IF w.life = "cleaned" THEN 0 ELSE 1) + (IF w.client = Off THEN 0 ELSE 1)
                   + Cardinality(w.watching)
      <4>1. u.refs = (IF u.life = "cleaned" THEN 0 ELSE 1) + (IF u.client = Off THEN 0 ELSE 1)
                     + Cardinality(u.watching)
        BY <2>1 DEF Linked
      <4> QED BY <2>5, <2>6, <2>7, <2>12, <3>1, <4>1
    <3>3. \A x \in u.watching : u.of[x] = c
      BY <2>1, <2>3 DEF Linked
    <3>4. \A d \in Casters : w.spectators[d] = {x \in w.watching : w.of[x] = d}
      BY <2>5, <2>8, <2>12, <3>3
    <3>5. \A x \in w.watching : w.of[x] \in w.caster
      BY <2>3, <2>5, <2>12, <3>3
    <3>6. w.row = IF w.listed = Off THEN Off ELSE Cardinality(w.watching)
      BY <2>3, <2>4, <2>5, <2>12
    <3>7. /\ w.caster = IF w.listed = Off THEN {} ELSE {w.listed}
          /\ w.caster \subseteq {w.client} /\ (w.client # Off => w.client \in w.owner)
      BY <2>1, <2>12 DEF Linked
    <3> QED BY <2>6, <2>12, <3>2, <3>4, <3>5, <3>6, <3>7 DEF Linked
  <2> QED BY <2>10, <2>11, <2>13, <2>14, CalmCasting
<1> QED BY <1>1, <1>2

\* ProtocolGame::connect
LEMMA CastConnect ==
  ASSUME LiveCastAssumption, CastInv, NEW c \in Casters, Connect(c)
  PROVE  CastInv'
<1>1. air \in CastStates /\ Linked(air) /\ air.client = Off /\ air.life = "in"
  BY DEF CastInv, Casting, Connect
<1>2. PICK b, o, n : b = air.begun \union {c} /\ o = air.owner \union {c} /\ n = air.refs + 1
  OBVIOUS
<1>3. b \in SUBSET Protocols /\ o \in SUBSET Casters /\ n \in Int
  BY <1>1, <1>2 DEF CastStates, Protocols
<1>4. PICK w : w = [air EXCEPT !.begun = b, !.owner = o, !.client = c, !.refs = n]
  OBVIOUS
<1>5. air' = w
  BY <1>2, <1>4 DEF Connect
<1>6. w \in CastStates
  BY <1>1, <1>3, <1>4, ZenonT(40) DEF CastStates
<1>7. /\ w.client = c /\ w.refs = n /\ w.owner = o /\ w.caster = air.caster
      /\ w.listed = air.listed /\ w.watching = air.watching /\ w.of = air.of /\ w.row = air.row
      /\ w.spectators = air.spectators /\ w.life = air.life
  BY <1>1, <1>4 DEF CastStates
<1>8. Calm(air, w)
  <2>1. /\ w.io = air.io /\ w.queue = air.queue /\ w.buffer = air.buffer
        /\ w.written = air.written /\ w.seen = air.seen /\ w.since = air.since
        /\ w.tasks = air.tasks /\ w.conn = air.conn /\ w.begun = b
    BY <1>1, <1>4 DEF CastStates
  <2>2. \A v \in Viewers : v \in b <=> v \in air.begun
    BY <1>2 DEF LiveCastAssumption
  <2> QED BY <1>7, <2>1, <2>2 DEF Calm, Undisturbed, Open
<1>9. Linked(w)
  <2>1. air.caster = {}
    BY <1>1 DEF Linked, LiveCastAssumption, CastStates
  <2>2. Cardinality(air.watching) \in Nat /\ air.refs \in Int /\ c # Off
    BY <1>1, FS_CardinalityType DEF Linked, CastStates, LiveCastAssumption
  <2>3. air.refs = 1 + Cardinality(air.watching)
    BY <1>1, <2>2 DEF Linked
  <2>4. w.refs = (IF w.life = "cleaned" THEN 0 ELSE 1) + (IF w.client = Off THEN 0 ELSE 1)
                 + Cardinality(w.watching)
    BY <1>1, <1>2, <1>7, <2>2, <2>3
  <2> QED BY <1>1, <1>2, <1>7, <2>1, <2>4 DEF Linked
<1>10. Casting(w)
  BY <1>6, <1>8, <1>9, CalmCasting DEF CastInv
<1> QED BY <1>5, <1>10 DEF CastInv

\* Only the player's life changes, and perhaps a reference less.
LEMMA LifeKeeps ==
  ASSUME NEW u, Casting(u), NEW x \in {"in", "removed", "cleaned"}, NEW n \in Int,
         n + (IF u.life = "cleaned" THEN 0 ELSE 1) = u.refs + (IF x = "cleaned" THEN 0 ELSE 1)
  PROVE  Casting([u EXCEPT !.life = x, !.refs = n])
<1>1. u \in CastStates /\ Linked(u)
  BY DEF Casting
<1>2. PICK w : w = [u EXCEPT !.life = x, !.refs = n]
  OBVIOUS
<1>3. w \in CastStates
  BY <1>1, <1>2 DEF CastStates
<1>4. /\ w.client = u.client /\ w.refs = n /\ w.owner = u.owner /\ w.caster = u.caster
      /\ w.listed = u.listed /\ w.watching = u.watching /\ w.of = u.of /\ w.row = u.row
      /\ w.spectators = u.spectators /\ w.life = x
  BY <1>1, <1>2 DEF CastStates
<1>5. Calm(u, w)
  <2>1. /\ w.io = u.io /\ w.queue = u.queue /\ w.buffer = u.buffer /\ w.written = u.written
        /\ w.seen = u.seen /\ w.since = u.since /\ w.tasks = u.tasks /\ w.conn = u.conn
        /\ w.begun = u.begun
    BY <1>1, <1>2 DEF CastStates
  <2> QED BY <1>4, <2>1 DEF Calm, Undisturbed, Open
<1>6. Linked(w)
  <2>1. Cardinality(u.watching) \in Nat /\ u.refs \in Int
    BY <1>1, FS_CardinalityType DEF Linked, CastStates
  <2>2. u.refs = (IF u.life = "cleaned" THEN 0 ELSE 1) + (IF u.client = Off THEN 0 ELSE 1)
                 + Cardinality(u.watching)
    BY <1>1 DEF Linked
  <2>3. w.refs = (IF w.life = "cleaned" THEN 0 ELSE 1) + (IF w.client = Off THEN 0 ELSE 1)
                 + Cardinality(w.watching)
    BY <1>4, <2>1, <2>2
  <2> QED BY <1>1, <1>4, <2>3 DEF Linked
<1> QED BY <1>2, <1>3, <1>5, <1>6, CalmCasting

\* Game::removeCreature, and Game::cleanup
LEMMA CastLife ==
  ASSUME CastInv, Die \/ Cleanup
  PROVE  CastInv'
<1>1. air \in CastStates /\ Casting(air) /\ air.refs \in Int
  BY DEF CastInv, Casting, CastStates
<1>2. CASE Die
  <2>1. PICK w : w = [air EXCEPT !.life = "removed", !.refs = air.refs]
    OBVIOUS
  <2>2. air' = w
    <3>1. PICK z : z = [air EXCEPT !.life = "removed"]
      OBVIOUS
    <3>2. z = w
      BY <1>1, <2>1, <3>1 DEF CastStates
    <3> QED BY <1>2, <3>1, <3>2 DEF Die
  <2>3. Casting(w)
    BY <1>1, <1>2, <2>1, LifeKeeps DEF Die
  <2> QED BY <2>2, <2>3 DEF CastInv
<1>3. CASE Cleanup
  <2>1. PICK n \in Int : n = air.refs - 1
    BY <1>1
  <2>2. PICK w : w = [air EXCEPT !.life = "cleaned", !.refs = n]
    OBVIOUS
  <2>3. air' = w
    BY <1>3, <2>1, <2>2 DEF Cleanup
  <2>4. PICK x \in {"in", "removed", "cleaned"} : x = "cleaned"
    OBVIOUS
  <2>5. n + (IF air.life = "cleaned" THEN 0 ELSE 1) = air.refs + (IF x = "cleaned" THEN 0 ELSE 1)
    BY <1>1, <1>3, <2>1, <2>4 DEF Cleanup
  <2>6. Casting(w)
    BY <1>1, <2>1, <2>2, <2>4, <2>5, LifeKeeps
  <2> QED BY <2>3, <2>6 DEF CastInv
<1> QED BY <1>2, <1>3

\* ProtocolGame::logout
LEMMA CastLogOff ==
  ASSUME CastInv, NEW c \in Casters, LogOff(c)
  PROVE  CastInv'
<1>1. PICK v : v = CastStopped(air, c)
  OBVIOUS
<1>2. Casting(v)
  BY <1>1, StopAnyKeeps DEF CastInv
<1>3. PICK u : u = Disconnected(v, c)
  OBVIOUS
<1>4. Casting(u)
  BY <1>2, <1>3, DisconnectedKeeps DEF Protocols
<1>5. u \in CastStates /\ u.refs \in Int
  BY <1>4 DEF Casting, CastStates
<1>6. PICK x : x = IF u.life = "in" THEN "removed" ELSE u.life
  OBVIOUS
<1>7. x \in {"in", "removed", "cleaned"} /\ (x = "cleaned" <=> u.life = "cleaned")
  BY <1>5, <1>6 DEF CastStates
<1>8. PICK w : w = [u EXCEPT !.life = x, !.refs = u.refs]
  OBVIOUS
<1>9. air' = w
  <2>1. air' = [u EXCEPT !.life = x]
    BY <1>1, <1>3, <1>6 DEF LogOff
  <2> QED BY <1>5, <1>8, <2>1 DEF CastStates
<1>10. Casting(w)
  BY <1>4, <1>5, <1>7, <1>8, LifeKeeps
<1> QED BY <1>9, <1>10 DEF CastInv

\* Player::stopLiveCast, and a connection that is lost
LEMMA CastStop ==
  ASSUME CastInv, NEW c \in Casters, StopCast(c)
  PROVE  CastInv'
BY StopAnyKeeps DEF CastInv, StopCast

LEMMA CastHangUp ==
  ASSUME CastInv, NEW p \in Protocols, HangUp(p)
  PROVE  CastInv'
BY DisconnectedKeeps DEF CastInv, HangUp

\* A task is posted.
LEMMA HandedKeeps ==
  ASSUME NEW u, Casting(u), NEW p \in Protocols, NEW x \in Errands, x # "login"
  PROVE  Casting(Handed(u, p, x))
<1>1. PICK w : w = Handed(u, p, x)
  OBVIOUS
<1>2. w \in CastStates /\ Calm(u, w) /\ LinkSame(u, w)
  BY <1>1, HandedIs DEF Casting
<1>3. Linked(w)
  BY <1>2, LinkedSame DEF Casting
<1> QED BY <1>1, <1>2, <1>3, CalmCasting

\* ProtocolSpectator::parsePacket and ProtocolGame::parsePacket
LEMMA CastPackets ==
  ASSUME CastInv, (\E v \in Viewers : ViewerPacket(v)) \/ (\E c \in Casters : ClientPacket(c))
  PROVE  CastInv'
<1>1. {"logout", "stop"} \subseteq Errands /\ "logout" # "login" /\ "stop" # "login"
  BY DEF Errands
<1>2. ASSUME NEW v \in Viewers, ViewerPacket(v) PROVE Casting(air')
  <2>1. v \in Protocols /\ Casting(air)
    BY DEF Protocols, CastInv
  <2>2. air' = Handed(air, v, "logout") \/ air' = Disconnected(air, v)
    BY <1>2 DEF ViewerPacket
  <2>3. Casting(Handed(air, v, "logout"))
    BY <1>1, <2>1, HandedKeeps
  <2>4. Casting(Disconnected(air, v))
    BY <2>1, DisconnectedKeeps
  <2> QED BY <2>2, <2>3, <2>4
<1>3. ASSUME NEW c \in Casters, ClientPacket(c) PROVE Casting(air')
  <2>1. c \in Protocols /\ Casting(air)
    BY DEF Protocols, CastInv
  <2>2. air' = Handed(air, c, "stop")
    BY <1>3 DEF ClientPacket
  <2>3. Casting(Handed(air, c, "stop"))
    BY <1>1, <2>1, HandedKeeps
  <2> QED BY <2>2, <2>3
<1> QED BY <1>2, <1>3 DEF CastInv

\* ProtocolSpectator::onRecvFirstMessage
LEMMA CastFirst ==
  ASSUME LiveCastAssumption, CastInv, NEW v \in Viewers, FirstPacket(v)
  PROVE  CastInv'
<1>1. /\ air \in CastStates /\ Linked(air) /\ v \notin air.begun /\ Flowing(air)
      /\ \A x \in air.watching : air.of[x] \in Casters
  BY DEF CastInv, Casting, FirstPacket, Flowing, Linked, CastStates
<1>2. PICK t : t = Append(air.tasks[v], "login")
  OBVIOUS
<1>3. t \in Seq(Errands) /\ Once(t) /\ v \notin air.watching /\ air.seen[v] = << >>
  <2>1. air.tasks[v] \in Seq(Errands) /\ "login" \in Errands
    BY <1>1 DEF CastStates, Protocols, Errands
  <2>2. ~Has(air.tasks[v]) /\ v \notin air.watching /\ air.seen[v] = << >>
    BY <1>1 DEF Flowing, LogsIn
  <2> QED BY <1>2, <2>1, <2>2, HasOnce
<1>4. PICK ts, b : ts = [air.tasks EXCEPT ![v] = t] /\ b = air.begun \union {v}
  OBVIOUS
<1>5. /\ ts \in [Protocols -> Seq(Errands)] /\ ts[v] = t
      /\ (\A q \in Protocols \ {v} : ts[q] = air.tasks[q])
      /\ b \in SUBSET Protocols
  BY <1>1, <1>3, <1>4 DEF CastStates, Protocols
<1>6. PICK w : w = [air EXCEPT !.tasks = ts, !.begun = b]
  OBVIOUS
<1>7. air' = w
  <2>1. air' = [Handed(air, v, "login") EXCEPT !.begun = @ \union {v}]
    BY DEF FirstPacket
  <2>2. Handed(air, v, "login") = [air EXCEPT !.tasks = ts]
    BY <1>2, <1>4 DEF Handed
  <2> QED BY <1>1, <1>4, <1>6, <2>1, <2>2 DEF CastStates
<1>8. w \in CastStates
  BY <1>1, <1>5, <1>6 DEF CastStates
<1>9. LinkSame(air, w)
  BY <1>1, <1>6 DEF CastStates, LinkSame
<1>10. /\ w.io = air.io /\ w.queue = air.queue /\ w.buffer = air.buffer
       /\ w.written = air.written /\ w.seen = air.seen /\ w.since = air.since
       /\ w.tasks = ts /\ w.conn = air.conn /\ w.begun = b
  BY <1>1, <1>6 DEF CastStates
<1>11. Undisturbed(air, w)
  BY <1>9, <1>10 DEF Undisturbed, LinkSame, Open
<1>12. (\A c \in Casters : Streams(w, c)) /\ (\A x \in Viewers : Follows(w, x))
  BY <1>1, <1>11, UndisturbedFollows
<1>13. \A x \in Viewers : LogsIn(w, x)
  <2>1. ASSUME NEW x \in Viewers, x # v PROVE LogsIn(w, x)
    <3>1. LogsIn(air, x) /\ w.tasks[x] = air.tasks[x] /\ (x \in w.begun <=> x \in air.begun)
      BY <1>1, <1>4, <1>5, <1>10, <2>1 DEF Flowing, Protocols
    <3> QED BY <1>9, <1>10, <3>1 DEF LogsIn, LinkSame
  <2>2. LogsIn(w, v)
    BY <1>3, <1>4, <1>5, <1>9, <1>10 DEF LogsIn, LinkSame
  <2> QED BY <2>1, <2>2
<1>14. \A c \in Casters : ~Has(w.tasks[c])
  <2>1. ASSUME NEW c \in Casters PROVE ~Has(w.tasks[c])
    <3>1. c \in Protocols \ {v}
      BY DEF LiveCastAssumption, Protocols
    <3> QED BY <1>1, <1>5, <1>10, <3>1 DEF Flowing
  <2> QED BY <2>1
<1>15. Linked(w)
  BY <1>1, <1>9, LinkedSame
<1>16. Casting(w)
  BY <1>8, <1>12, <1>13, <1>14, <1>15 DEF Casting
<1> QED BY <1>7, <1>16 DEF CastInv

\* The dispatcher takes the next task of a protocol.
LEMMA TaskTaken ==
  ASSUME NEW u, Casting(u), NEW p \in Protocols, u.tasks[p] # << >>
  PROVE  LET w == [u EXCEPT !.tasks[p] = Tail(@)] IN
         /\ Casting(w) /\ Head(u.tasks[p]) \in Errands
         /\ Head(u.tasks[p]) = "login" =>
              p \in Viewers /\ p \in w.begun /\ p \notin w.watching /\ w.seen[p] = << >> /\ ~Has(w.tasks[p])
<1>1. u \in CastStates /\ u.tasks \in [Protocols -> Seq(Errands)] /\ u.tasks[p] \in Seq(Errands)
  BY DEF Casting, CastStates
<1>2. PICK t : t = Tail(u.tasks[p])
  OBVIOUS
<1>3. /\ t \in Seq(Errands) /\ Head(u.tasks[p]) \in Errands
      /\ Has(t) => Has(u.tasks[p])
      /\ Once(u.tasks[p]) => Once(t)
      /\ Head(u.tasks[p]) = "login" => Has(u.tasks[p])
      /\ Head(u.tasks[p]) = "login" /\ Once(u.tasks[p]) => ~Has(t)
  BY <1>1, <1>2, HasOnce
<1>4. PICK ts : ts = [u.tasks EXCEPT ![p] = t]
  OBVIOUS
<1>5. /\ ts \in [Protocols -> Seq(Errands)] /\ ts[p] = t
      /\ \A q \in Protocols : /\ Has(ts[q]) => Has(u.tasks[q])
                              /\ Once(u.tasks[q]) => Once(ts[q])
  BY <1>1, <1>3, <1>4
<1>6. PICK w : w = [u EXCEPT !.tasks = ts]
  OBVIOUS
<1>7. [u EXCEPT !.tasks[p] = Tail(@)] = w
  BY <1>2, <1>4, <1>6
<1>8. w \in CastStates /\ w.tasks = ts
  BY <1>1, <1>5, <1>6 DEF CastStates
<1>9. LinkSame(u, w)
  BY <1>1, <1>6 DEF CastStates, LinkSame
<1>10. /\ w.io = u.io /\ w.queue = u.queue /\ w.buffer = u.buffer /\ w.written = u.written
       /\ w.seen = u.seen /\ w.since = u.since /\ w.conn = u.conn /\ w.begun = u.begun
  BY <1>1, <1>6 DEF CastStates
<1>11. Calm(u, w)
  BY <1>5, <1>8, <1>9, <1>10 DEF Calm, Undisturbed, Open, LinkSame
<1>12. Casting(w)
  BY <1>8, <1>9, <1>11, LinkedSame, CalmCasting DEF Casting
<1>13. ASSUME Head(u.tasks[p]) = "login"
       PROVE  p \in Viewers /\ p \in w.begun /\ p \notin w.watching /\ w.seen[p] = << >> /\ ~Has(w.tasks[p])
  <2>1. Has(u.tasks[p])
    BY <1>3, <1>13
  <2>2. p \in Viewers
    BY <2>1 DEF Casting, Protocols
  <2>3. LogsIn(u, p)
    BY <2>2 DEF Casting
  <2>4. p \in u.begun /\ p \notin u.watching /\ u.seen[p] = << >> /\ Once(u.tasks[p])
    BY <2>1, <2>3 DEF LogsIn
  <2> QED BY <1>3, <1>5, <1>8, <1>9, <1>10, <1>13, <2>2, <2>4 DEF LinkSame
<1> QED BY <1>3, <1>7, <1>12, <1>13

\* ProtocolSpectator::login that is accepted, v then being one of s who watch c
Joined(u, v, c, s) ==
  [u EXCEPT !.refs = @ + 1, !.watching = @ \union {v}, !.of[v] = c,
            !.spectators[c] = s, !.since[v] = u.written,
            !.row = IF @ = Off THEN Off ELSE Cardinality(s)]

LEMMA Joins ==
  ASSUME LiveCastAssumption, NEW u, Casting(u), NEW v \in Viewers, v \in u.begun, v \notin u.watching,
         u.seen[v] = << >>, ~Has(u.tasks[v]),
         NEW c, c = u.listed, c \in u.caster,
         NEW s, s = u.spectators[c] \union {v}
  PROVE  Casting(Joined(u, v, c, s))
<1>1. u \in CastStates /\ Linked(u) /\ c \in Casters /\ IsFiniteSet(u.watching)
  BY DEF Casting, Linked, CastStates
<1>2. /\ u.caster = {c} /\ u.client = c /\ u.spectators[c] = u.watching
      /\ \A d \in Casters \ {c} : u.spectators[d] = {}
  BY <1>1, OneCast
<1>3. s = u.watching \union {v}
  BY <1>2
<1>4. Cardinality(s) = Cardinality(u.watching) + 1 /\ IsFiniteSet(s) /\ Cardinality(u.watching) \in Nat
  BY <1>1, <1>3, FS_AddElement, FS_CardinalityType
<1>5. u.row # Off /\ c # Off
  BY <1>1, <1>2, <1>4 DEF Linked, LiveCastAssumption
<1>6. PICK n, m, f, sp, g : /\ n = u.refs + 1 /\ m = Cardinality(s) /\ f = [u.of EXCEPT ![v] = c]
                            /\ sp = [u.spectators EXCEPT ![c] = s] /\ g = [u.since EXCEPT ![v] = u.written]
  OBVIOUS
<1>7. /\ n \in Int /\ m \in Nat /\ f \in [Viewers -> Casters \union {Off}] /\ s \in SUBSET Viewers
      /\ sp \in [Casters -> SUBSET Viewers] /\ g \in [Viewers -> Nat]
  BY <1>1, <1>3, <1>4, <1>6, SMTT(20) DEF CastStates
<1>8. /\ f[v] = c /\ g[v] = u.written /\ sp[c] = s
      /\ (\A x \in Viewers \ {v} : f[x] = u.of[x] /\ g[x] = u.since[x])
      /\ \A d \in Casters \ {c} : sp[d] = {}
  BY <1>1, <1>2, <1>6 DEF CastStates
<1>9. PICK y : y = [u EXCEPT !.refs = n, !.watching = s, !.of = f]
  OBVIOUS
<1>10. /\ y \in CastStates
       /\ y.client = u.client /\ y.refs = n /\ y.owner = u.owner /\ y.caster = u.caster
       /\ y.listed = u.listed /\ y.watching = s /\ y.of = f /\ y.row = u.row
       /\ y.spectators = u.spectators /\ y.life = u.life
       /\ y.io = u.io /\ y.queue = u.queue /\ y.buffer = u.buffer /\ y.written = u.written
       /\ y.seen = u.seen /\ y.since = u.since /\ y.conn = u.conn /\ y.begun = u.begun
       /\ y.tasks = u.tasks
  BY <1>1, <1>7, <1>9 DEF CastStates
<1>11. PICK w : w = [y EXCEPT !.spectators = sp, !.since = g, !.row = m]
  OBVIOUS
<1>12. w \in CastStates
  BY <1>7, <1>10, <1>11 DEF CastStates
<1>13. /\ w.client = u.client /\ w.refs = n /\ w.owner = u.owner /\ w.caster = u.caster
       /\ w.listed = u.listed /\ w.watching = s /\ w.of = f /\ w.row = m
       /\ w.spectators = sp /\ w.life = u.life
  BY <1>10, <1>11 DEF CastStates
<1>14. /\ w.io = u.io /\ w.queue = u.queue /\ w.buffer = u.buffer /\ w.written = u.written
       /\ w.seen = u.seen /\ w.since = g /\ w.conn = u.conn /\ w.begun = u.begun
       /\ w.tasks = u.tasks
  BY <1>10, <1>11 DEF CastStates
<1>15. Joined(u, v, c, s) = w
  <2>1. Joined(u, v, c, s)
        = [u EXCEPT !.refs = u.refs + 1, !.watching = u.watching \union {v},
                    !.of = [u.of EXCEPT ![v] = c], !.spectators = [u.spectators EXCEPT ![c] = s],
                    !.since = [u.since EXCEPT ![v] = u.written],
                    !.row = IF u.row = Off THEN Off ELSE Cardinality(s)]
    BY <1>1 DEF Joined, CastStates
  <2>2. (IF u.row = Off THEN Off ELSE Cardinality(s)) = m /\ u.watching \union {v} = s
    BY <1>3, <1>5, <1>6
  <2>3. Joined(u, v, c, s)
        = [u EXCEPT !.refs = n, !.watching = s, !.of = f, !.spectators = sp, !.since = g, !.row = m]
    BY <1>6, <2>1, <2>2, Zenon
  <2> QED BY <1>1, <1>9, <1>11, <2>3 DEF CastStates
<1>16. Linked(w)
  <2>1. w.refs = (IF w.life = "cleaned" THEN 0 ELSE 1) + (IF w.client = Off THEN 0 ELSE 1)
                 + Cardinality(w.watching)
    <3>1. u.refs = (IF u.life = "cleaned" THEN 0 ELSE 1) + (IF u.client = Off THEN 0 ELSE 1)
                   + Cardinality(u.watching)
      BY <1>1 DEF Linked
    <3>2. u.refs \in Int
      BY <1>1 DEF CastStates
    <3>3. PICK k \in Nat, l \in Nat : k = Cardinality(u.watching) /\ l = Cardinality(w.watching) /\ l = k + 1
      BY <1>4, <1>13
    <3>4. w.refs = u.refs + 1 /\ w.life = u.life /\ w.client = u.client
      BY <1>6, <1>13
    <3> QED BY <3>1, <3>2, <3>3, <3>4
  <2>2. \A x \in w.watching : w.of[x] = c
    <3>1. ASSUME NEW x \in u.watching PROVE x \in Viewers \ {v} /\ u.of[x] = c
      <4>1. x \in Viewers
        BY <1>1 DEF CastStates
      <4>2. u.of[x] \in u.caster
        BY <1>1 DEF Linked
      <4> QED BY <1>2, <4>1, <4>2
    <3>2. ASSUME NEW x \in s PROVE f[x] = c
      <4>1. CASE x = v
        BY <1>8, <4>1
      <4>2. CASE x # v
        BY <1>3, <1>8, <3>1, <3>2, <4>2
      <4> QED BY <4>1, <4>2
    <3> QED BY <1>13, <3>2
  <2>3. ASSUME NEW d \in Casters PROVE w.spectators[d] = {x \in w.watching : w.of[x] = d}
    <3>1. CASE d = c
      <4>1. w.spectators[d] = s /\ w.watching = s
        BY <1>8, <1>13, <3>1
      <4> QED BY <2>2, <3>1, <4>1
    <3>2. CASE d # c
      <4>1. w.spectators[d] = {}
        BY <1>8, <1>13, <3>2
      <4> QED BY <2>2, <3>2, <4>1
    <3> QED BY <3>1, <3>2
  <2>4. w.row = IF w.listed = Off THEN Off ELSE Cardinality(w.watching)
    BY <1>5, <1>6, <1>13
  <2>5. /\ w.caster = IF w.listed = Off THEN {} ELSE {w.listed}
        /\ w.caster \subseteq {w.client} /\ (w.client # Off => w.client \in w.owner)
    BY <1>1, <1>13 DEF Linked
  <2>6. IsFiniteSet(w.watching) /\ \A x \in w.watching : w.of[x] \in w.caster
    BY <1>2, <1>4, <1>13, <2>2
  <2> QED BY <2>1, <2>3, <2>4, <2>5, <2>6 DEF Linked
<1>17. \A x \in Viewers : LogsIn(w, x)
  <2>1. ASSUME NEW x \in Viewers, x # v PROVE LogsIn(w, x)
    <3>1. LogsIn(u, x)
      BY DEF Casting
    <3>2. x \in w.watching <=> x \in u.watching
      BY <1>3, <1>13, <2>1
    <3> QED BY <1>14, <3>1, <3>2 DEF LogsIn
  <2>2. LogsIn(w, v)
    <3>1. LogsIn(u, v)
      BY DEF Casting
    <3> QED BY <1>14, <3>1 DEF LogsIn
  <2> QED BY <2>1, <2>2
<1>18. \A d \in Casters : Streams(w, d) /\ ~Has(w.tasks[d])
  BY <1>14 DEF Casting, Streams
<1>19. \A d, n1 : Underway(w, d, n1) <=> Underway(u, d, n1)
  BY <1>14 DEF Underway
<1>20. ASSUME NEW x \in Viewers, x # v, x \in w.watching, Open(w, x)
       PROVE  SeenBefore(w, x, w.of[x]) /\ NoGap(w, x, w.of[x])
  <2>1. x \in u.watching /\ Open(u, x) /\ w.of[x] = u.of[x] /\ w.since[x] = u.since[x]
    <3>1. x \in Viewers \ {v} /\ x \in u.watching
      BY <1>3, <1>13, <1>20
    <3>2. w.of[x] = u.of[x] /\ w.since[x] = u.since[x]
      BY <1>8, <1>13, <1>14, <3>1, Zenon
    <3> QED BY <1>14, <1>20, <3>1, <3>2 DEF Open
  <2>2. PICK d : d = u.of[x]
    OBVIOUS
  <2>3. SeenBefore(u, x, d) /\ NoGap(u, x, d)
    <3>1. Follows(u, x)
      BY DEF Casting
    <3> QED BY <2>1, <2>2, <3>1 DEF Follows
  <2>4. SeenBefore(w, x, d)
    BY <1>14, <2>3 DEF SeenBefore
  <2>5. (Open(w, d) <=> Open(u, d)) /\ \A k : Shows(w, x, k) <=> Shows(u, x, k)
    BY <1>14, <1>19, <2>1 DEF Open, Shows, Coming
  <2>6. NoGap(w, x, d)
    BY <1>14, <2>1, <2>3, <2>5 DEF NoGap
  <2> QED BY <2>1, <2>2, <2>4, <2>6
<1>21. SeenBefore(w, v, c) /\ NoGap(w, v, c)
  <2>1. w.seen[v] = << >> /\ DOMAIN << >> = {}
    BY <1>14
  <2>2. SeenBefore(w, v, c)
    BY <2>1 DEF SeenBefore, Rising, UpTo, Below, Ahead
  <2>3. PICK a \in Nat : a = u.written
    BY <1>1 DEF CastStates
  <2>4. w.since[v] = a /\ w.written = a
    BY <1>8, <1>14, <2>3
  <2>5. a + 1 .. a = {}
    OBVIOUS
  <2>6. NoGap(w, v, c)
    BY <2>4, <2>5 DEF NoGap
  <2> QED BY <2>2, <2>6
<1>22. \A x \in Viewers : Follows(w, x)
  BY <1>8, <1>13, <1>20, <1>21 DEF Follows
<1>23. Casting(w)
  BY <1>16, <1>17, <1>18, <1>22, <1>12 DEF Casting
<1> QED BY <1>15, <1>23

\* The dispatcher
LEMMA CastTask ==
  ASSUME LiveCastAssumption, CastInv, NEW p \in Protocols, RunTask(p)
  PROVE  CastInv'
<1>1. PICK t : t = Head(air.tasks[p])
  OBVIOUS
<1>2. PICK u : u = [air EXCEPT !.tasks[p] = Tail(@)]
  OBVIOUS
<1>3. /\ Casting(u) /\ t \in Errands
      /\ t = "login" =>
           p \in Viewers /\ p \in u.begun /\ p \notin u.watching /\ u.seen[p] = << >> /\ ~Has(u.tasks[p])
  BY <1>1, <1>2, TaskTaken DEF CastInv, RunTask
<1>4. CASE t = "login" /\ air' \in LoggedIn(u, p)
  <2>1. PICK w : w = Disconnected(u, p)
    OBVIOUS
  <2>2. Casting(w)
    BY <1>3, <2>1, DisconnectedKeeps
  <2>3. ASSUME air' # w PROVE Casting(air')
    <3>1. PICK c : c = u.listed
      OBVIOUS
    <3>2. PICK s : s = u.spectators[c] \union {p}
      OBVIOUS
    <3>3. /\ c \in u.caster
          /\ air' = Joined(u, p, c, s)
      BY <1>4, <2>1, <2>3, <3>1, <3>2 DEF LoggedIn, Joined
    <3> QED BY <1>3, <1>4, <3>1, <3>2, <3>3, Joins
  <2> QED BY <2>2, <2>3 DEF CastInv
<1>5. CASE t = "logout" /\ air' = Disconnected(ViewerLeft(u, p), p)
  <2>1. PICK v : v = ViewerLeft(u, p)
    OBVIOUS
  <2>2. Casting(v)
    <3>1. CASE p \in Viewers
      BY <1>3, <2>1, <3>1, LeftKeeps
    <3>2. CASE p \notin Viewers
      <4>1. p \notin u.watching
        BY <1>3, <3>2 DEF Casting, CastStates
      <4> QED BY <1>3, <2>1, <4>1 DEF ViewerLeft
    <3> QED BY <3>1, <3>2
  <2>3. Casting(Disconnected(v, p))
    BY <2>2, DisconnectedKeeps
  <2> QED BY <1>5, <2>1, <2>3 DEF CastInv
<1>6. CASE t = "stop" /\ air' = CastStopped(u, p)
  <2>1. CASE p \in Casters
    BY <1>3, <1>6, <2>1, StopAnyKeeps DEF CastInv
  <2>2. CASE p \notin Casters
    <3>1. p \notin u.caster
      BY <1>3, <2>2 DEF Casting, CastStates
    <3> QED BY <1>3, <1>6, <3>1 DEF CastInv, CastStopped
  <2> QED BY <2>1, <2>2
<1>7. CASE t = "release" /\ air' = IF p \in Casters THEN ClientReleased(u, p) ELSE ViewerLeft(u, p)
  <2>1. CASE p \in Casters
    BY <1>3, <1>7, <2>1, ReleaseKeeps DEF CastInv
  <2>2. CASE p \notin Casters
    <3>1. p \in Viewers
      BY <2>2 DEF Protocols
    <3> QED BY <1>3, <1>7, <2>2, <3>1, LeftKeeps DEF CastInv
  <2> QED BY <2>1, <2>2
<1> QED BY <1>1, <1>2, <1>4, <1>5, <1>6, <1>7 DEF RunTask

\* A list with one more at its end, ...
LEMMA Lengthened ==
  ASSUME NEW S, NEW s \in Seq(S), NEW x \in S, NEW r, r = Append(s, x)
  PROVE  /\ r \in Seq(S) /\ Len(s) \in Nat /\ DOMAIN s = 1..Len(s) /\ DOMAIN r = 1..(Len(s) + 1)
         /\ r[Len(s) + 1] = x /\ \A i \in DOMAIN s : i \in DOMAIN r /\ r[i] = s[i] /\ i < Len(s) + 1
         /\ \A i \in DOMAIN r : i \in DOMAIN s \/ i = Len(s) + 1
         /\ s = << >> <=> Len(s) = 0
OBVIOUS

\* ... and one with its first taken.
LEMMA QueueShorter ==
  ASSUME NEW S, NEW s \in Seq(S), s # << >>, NEW r, r = Tail(s)
  PROVE  /\ r \in Seq(S) /\ Len(s) \in Nat /\ DOMAIN s = 1..Len(s) /\ DOMAIN r = 1..(Len(s) - 1)
         /\ 1 \in DOMAIN s /\ Head(s) = s[1] /\ Head(s) \in S
         /\ \A i \in DOMAIN r : i + 1 \in DOMAIN s /\ i + 1 > 1 /\ r[i] = s[i + 1]
         /\ \A i \in DOMAIN s : i = 1 \/ (i - 1 \in DOMAIN r /\ s[i] = r[i - 1])
<1>1. Len(s) \in Nat /\ Len(s) >= 1 /\ DOMAIN s = 1..Len(s) /\ Head(s) = s[1] /\ s[1] \in S
  OBVIOUS
<1>2. r \in Seq(S) /\ DOMAIN r = 1..(Len(s) - 1) /\ \A i \in 1..(Len(s) - 1) : r[i] = s[i + 1]
  OBVIOUS
<1>3. \A i \in DOMAIN r : i + 1 \in DOMAIN s /\ i + 1 > 1 /\ r[i] = s[i + 1]
  BY <1>1, <1>2
<1>4. \A i \in DOMAIN s : i = 1 \/ (i - 1 \in DOMAIN r /\ s[i] = r[i - 1])
  BY <1>1, <1>2
<1> QED BY <1>1, <1>2, <1>3, <1>4

\* A handler more.
WithHandler(io, h, r) ==
  /\ r \in Seq(Handlers)
  /\ \A c, n : Posted(r, c, n) <=> Posted(io, c, n) \/ (Posts(h, c) /\ n \in ToSet(h.items))
  /\ \A s, q, c : Ahead(s, io, q, c) /\ (Posts(h, c) => Below(s, h.items)) => Ahead(s, r, q, c)
  /\ \A q, c : Attended(io, q, c) /\ h.client # c => Attended(r, q, c)
  /\ \A i \in DOMAIN r : (i \in DOMAIN io /\ r[i] = io[i]) \/ (i = Len(io) + 1 /\ r[i] = h)
  /\ \A i \in DOMAIN io : i < Len(io) + 1

LEMMA HandlerMore ==
  ASSUME NEW io \in Seq(Handlers), NEW h \in Handlers, NEW r, r = Append(io, h)
  PROVE  WithHandler(io, h, r)
<1>1. PICK l : l = Len(io) + 1
  OBVIOUS
<1>2. /\ r \in Seq(Handlers) /\ l \in DOMAIN r /\ r[l] = h
      /\ \A i \in DOMAIN io : i \in DOMAIN r /\ r[i] = io[i] /\ i < l
      /\ \A i \in DOMAIN r : i \in DOMAIN io \/ i = l
  <2>1. Len(io) + 1 \in 1..(Len(io) + 1)
    OBVIOUS
  <2> QED BY <1>1, <2>1, Lengthened
<1>3. ASSUME NEW c, NEW n
      PROVE  Posted(r, c, n) <=> Posted(io, c, n) \/ (Posts(h, c) /\ n \in ToSet(h.items))
  BY <1>2 DEF Posted
<1>4. ASSUME NEW s, NEW q, NEW c, Ahead(s, io, q, c), Posts(h, c) => Below(s, h.items)
      PROVE  Ahead(s, r, q, c)
  BY <1>2, <1>4 DEF Ahead
<1>5. ASSUME NEW q, NEW c, Attended(io, q, c), h.client # c
      PROVE  Attended(r, q, c)
  <2>1. \A i \in DOMAIN r : r[i].client = c => i \in DOMAIN io /\ r[i] = io[i]
    BY <1>2, <1>5
  <2> QED BY <1>5, <2>1 DEF Attended, Posts
<1>6. \A i \in DOMAIN r : (i \in DOMAIN io /\ r[i] = io[i]) \/ (i = l /\ r[i] = h)
  BY <1>2
<1>7. \A i \in DOMAIN r : (i \in DOMAIN io /\ r[i] = io[i]) \/ (i = Len(io) + 1 /\ r[i] = h)
  BY <1>1, <1>6
<1>8. \A i \in DOMAIN io : i < Len(io) + 1
  BY <1>1, <1>2
<1> QED BY <1>2, <1>3, <1>4, <1>5, <1>7, <1>8 DEF WithHandler

\* A message more is queued: it is written behind the others, or at once.
WithMessage(io, q, c, m, r, p) ==
  /\ r \in Seq(Handlers) /\ p \in Seq(CastMessages) /\ Attended(r, p, c)
  /\ \A n : Posted(r, c, n) \/ Queued(p, n)
            <=> Posted(io, c, n) \/ Queued(q, n) \/ (m.all /\ n \in ToSet(m.items))
  /\ \A s : Ahead(s, io, q, c) /\ Below(s, m.items) => Ahead(s, r, p, c)

LEMMA MessageMore ==
  ASSUME NEW io \in Seq(Handlers), NEW q \in Seq(CastMessages), NEW c \in Casters, NEW m \in CastMessages,
         NEW h, h = [do |-> "broadcast", client |-> c, items |-> m.items], Attended(io, q, c),
         NEW r, r = (IF q = << >> /\ m.all THEN Append(io, h) ELSE io),
         NEW p, p = Append(q, m)
  PROVE  WithMessage(io, q, c, m, r, p)
<1>1. PICK l : l = Len(q) + 1
  OBVIOUS
<1>2. /\ p \in Seq(CastMessages) /\ l \in DOMAIN p /\ p[l] = m /\ p # << >>
      /\ \A i \in DOMAIN q : i \in DOMAIN p /\ p[i] = q[i] /\ i < l
      /\ \A i \in DOMAIN p : i \in DOMAIN q \/ i = l
      /\ (q = << >> => l = 1) /\ (q # << >> => l > 1 /\ 1 \in DOMAIN q /\ p[1] = q[1])
  <2>1. Len(q) + 1 \in 1..(Len(q) + 1) /\ p # << >>
    OBVIOUS
  <2>2. /\ p \in Seq(CastMessages) /\ l \in DOMAIN p /\ p[l] = m
        /\ \A i \in DOMAIN q : i \in DOMAIN p /\ p[i] = q[i] /\ i < l
        /\ \A i \in DOMAIN p : i \in DOMAIN q \/ i = l
    BY <1>1, <2>1, Lengthened
  <2>3. /\ (q = << >> => l = 1) /\ (q # << >> => l > 1 /\ 1 \in DOMAIN q)
    BY <1>1
  <2> QED BY <2>1, <2>2, <2>3
<1>3. h \in Handlers /\ h.client = c /\ h.items = m.items /\ Posts(h, c)
  BY DEF Handlers, CastMessages, Posts
<1>4. CASE q = << >> /\ m.all
  <2>1. r = Append(io, h) /\ DOMAIN q = {} /\ l = 1
    BY <1>2, <1>4
  <2>2. WithHandler(io, h, r)
    BY <1>3, <2>1, HandlerMore
  <2>3. \A i \in DOMAIN io : io[i].client # c
    BY <1>4 DEF Attended
  <2>4. \A i \in DOMAIN r : (i \in DOMAIN io /\ r[i] = io[i]) \/ (i = Len(io) + 1 /\ r[i] = h)
    BY <2>2 DEF WithHandler
  <2>5. Attended(r, p, c)
    <3>1. \A i \in DOMAIN r : r[i].client = c => i = Len(io) + 1 /\ r[i] = h
      BY <2>3, <2>4
    <3>2. h.do = "broadcast" /\ p[1] = m
      BY <1>2, <2>1
    <3> QED BY <1>2, <1>3, <3>1, <3>2 DEF Attended, Posts
  <2>6. \A n : ~Queued(p, n) /\ ~Queued(q, n)
    BY <1>2, <2>1 DEF Queued
  <2>7. \A n : Posted(r, c, n) <=> Posted(io, c, n) \/ n \in ToSet(m.items)
    BY <1>3, <2>2 DEF WithHandler
  <2>8. ASSUME NEW s, Ahead(s, io, q, c), Below(s, m.items) PROVE Ahead(s, r, p, c)
    <3>1. Ahead(s, io, p, c)
      BY <1>2, <2>1, <2>8 DEF Ahead
    <3> QED BY <1>3, <2>2, <2>8, <3>1 DEF WithHandler
  <2>9. r \in Seq(Handlers)
    BY <2>2 DEF WithHandler
  <2> QED BY <1>2, <1>4, <2>5, <2>6, <2>7, <2>8, <2>9 DEF WithMessage
<1>5. CASE ~(q = << >> /\ m.all)
  <2>1. r = io
    BY <1>5
  <2>2. Attended(r, p, c)
    <3>1. \A i \in DOMAIN io : io[i].client = c => q # << >> /\ p[1] = q[1]
      BY <1>2 DEF Attended
    <3> QED BY <1>2, <2>1, <3>1 DEF Attended, Posts
  <2>3. ASSUME NEW n PROVE Queued(p, n) <=> Queued(q, n) \/ (m.all /\ n \in ToSet(m.items))
    <3>1. ASSUME Queued(p, n) PROVE Queued(q, n) \/ (m.all /\ n \in ToSet(m.items))
      BY <1>2, <3>1 DEF Queued
    <3>2. ASSUME Queued(q, n) PROVE Queued(p, n)
      BY <1>2, <3>2 DEF Queued
    <3>3. ASSUME m.all, n \in ToSet(m.items) PROVE Queued(p, n)
      BY <1>2, <1>5, <3>3 DEF Queued
    <3> QED BY <3>1, <3>2, <3>3
  <2>4. ASSUME NEW s, Ahead(s, io, q, c), Below(s, m.items) PROVE Ahead(s, r, p, c)
    BY <1>2, <2>1, <2>4 DEF Ahead
  <2> QED BY <1>2, <2>1, <2>2, <2>3, <2>4 DEF WithMessage
<1> QED BY <1>4, <1>5

\* Nothing of a client's stream is out of order with a message more.
LEMMA AscendingMore ==
  ASSUME NEW q \in Seq(CastMessages), NEW m \in CastMessages, NEW b, NEW n, Ascending(q, b, n),
         Rising(m.items), UpTo(m.items, n), Below(m.items, b), \A j \in DOMAIN q : Below(q[j].items, m.items)
  PROVE  Ascending(Append(q, m), b, n)
<1>1. PICK p : p = Append(q, m)
  OBVIOUS
<1>2. PICK l : l = Len(q) + 1
  OBVIOUS
<1>3. /\ l \in DOMAIN p /\ p[l] = m /\ ~(l < l)
      /\ \A i \in DOMAIN q : i \in DOMAIN p /\ p[i] = q[i] /\ i < l /\ ~(l < i)
      /\ \A i \in DOMAIN p : i \in DOMAIN q \/ i = l
  <2>1. \A i \in DOMAIN q : i < Len(q) + 1 /\ ~(Len(q) + 1 < i)
    OBVIOUS
  <2>2. Len(q) + 1 \in 1..(Len(q) + 1) /\ ~(Len(q) + 1 < Len(q) + 1)
    OBVIOUS
  <2> QED BY <1>1, <1>2, <2>1, <2>2, Lengthened
<1>4. \A j \in DOMAIN p : Rising(p[j].items) /\ UpTo(p[j].items, n) /\ Below(p[j].items, b)
  BY <1>3 DEF Ascending
<1>5. \A j, k \in DOMAIN p : j < k => Below(p[j].items, p[k].items)
  BY <1>3 DEF Ascending
<1> QED BY <1>1, <1>4, <1>5 DEF Ascending

\* Only the streams change.
PassesOn(u, w) ==
  /\ w \in CastStates /\ LinkSame(u, w)
  /\ w.conn = u.conn /\ w.tasks = u.tasks /\ w.begun = u.begun /\ w.since = u.since

\* Client d's stream is the same, but perhaps for what is written later.
SameStream(u, w, d) ==
  /\ w.queue[d] = u.queue[d] /\ w.buffer[d] = u.buffer[d]
  /\ Attended(u.io, u.queue[d], d) => Attended(w.io, u.queue[d], d)
  /\ \A n : Posted(w.io, d, n) <=> Posted(u.io, d, n)
  /\ \A s : Ahead(s, u.io, u.queue[d], d) => Ahead(s, w.io, u.queue[d], d)

LEMMA SameFollows ==
  ASSUME NEW u \in CastStates, NEW w, PassesOn(u, w), w.written = u.written,
         NEW d \in Casters, SameStream(u, w, d)
  PROVE  /\ Streams(u, d) => Streams(w, d)
         /\ \A v \in Viewers : w.seen[v] = u.seen[v] /\ u.of[v] = d /\ Follows(u, v) => Follows(w, v)
<1>1. ASSUME Streams(u, d) PROVE Streams(w, d)
  BY <1>1 DEF Streams, SameStream
<1>2. \A n : Underway(w, d, n) <=> Underway(u, d, n)
  BY DEF SameStream, Underway
<1>3. ASSUME NEW v \in Viewers, w.seen[v] = u.seen[v], u.of[v] = d, Follows(u, v)
      PROVE  Follows(w, v)
  <2>1. w.of[v] = d /\ w.watching = u.watching /\ w.conn = u.conn /\ w.since = u.since
    BY <1>3 DEF PassesOn, LinkSame
  <2>2. \A n : Shows(w, v, n) <=> Shows(u, v, n)
    BY <1>2, <1>3, <2>1 DEF Shows, Coming, SameStream, Open
  <2>3. SeenBefore(u, v, d) => SeenBefore(w, v, d)
    BY <1>3 DEF SeenBefore, SameStream
  <2>4. NoGap(u, v, d) => NoGap(w, v, d)
    BY <2>1, <2>2 DEF NoGap, Open
  <2> QED BY <1>3, <2>1, <2>3, <2>4 DEF Follows, Open
<1> QED BY <1>1, <1>3

\* What remains of the invariant when only the streams change.
LEMMA PassedCasting ==
  ASSUME NEW u, Casting(u), NEW w, PassesOn(u, w),
         \A v \in Viewers \ u.watching : w.seen[v] = u.seen[v],
         \A v \in Viewers : Follows(w, v), \A d \in Casters : Streams(w, d)
  PROVE  Casting(w)
<1>1. \A v \in Viewers : LogsIn(w, v)
  BY DEF Casting, LogsIn, PassesOn, LinkSame
<1>2. Linked(w)
  BY LinkedSame DEF Casting, PassesOn
<1> QED BY <1>1, <1>2 DEF Casting, PassesOn

\* Connection::send of message m, b being left in the buffer
Pushed(u, c, m, b) == [Sent(u, c, m) EXCEPT !.buffer[c] = b]
Handler(c, m) == [do |-> "broadcast", client |-> c, items |-> m.items]
IsPushed(u, w, c, m, b) ==
  /\ PassesOn(u, w) /\ w.written = u.written /\ w.seen = u.seen
  /\ w.buffer[c] = b /\ \A d \in Casters \ {c} : w.buffer[d] = u.buffer[d] /\ w.queue[d] = u.queue[d]
  /\ w.queue[c] = IF Open(u, c) THEN Append(u.queue[c], m) ELSE u.queue[c]
  /\ w.io = IF Open(u, c) /\ u.queue[c] = << >> /\ m.all THEN Append(u.io, Handler(c, m)) ELSE u.io

LEMMA PushedIs ==
  ASSUME NEW u \in CastStates, NEW c \in Casters, NEW m \in CastMessages, NEW b \in CastMessages
  PROVE  IsPushed(u, Pushed(u, c, m, b), c, m, b)
<1>1. PICK q : q = IF Open(u, c) THEN Append(u.queue[c], m) ELSE u.queue[c]
  OBVIOUS
<1>2. PICK io : io = IF Open(u, c) /\ u.queue[c] = << >> /\ m.all THEN Append(u.io, Handler(c, m)) ELSE u.io
  OBVIOUS
<1>3. q \in Seq(CastMessages)
  BY <1>1 DEF CastStates
<1>4. io \in Seq(Handlers)
  <2>1. Handler(c, m) \in Handlers /\ u.io \in Seq(Handlers)
    BY DEF Handler, Handlers, CastMessages, CastStates
  <2> QED BY <1>2, <2>1
<1>5. PICK qs, bs : qs = [u.queue EXCEPT ![c] = q] /\ bs = [u.buffer EXCEPT ![c] = b]
  OBVIOUS
<1>6. /\ qs \in [Casters -> Seq(CastMessages)] /\ bs \in [Casters -> CastMessages]
      /\ qs[c] = q /\ bs[c] = b /\ \A d \in Casters \ {c} : qs[d] = u.queue[d] /\ bs[d] = u.buffer[d]
  BY <1>3, <1>5 DEF CastStates
<1>7. PICK w : w = [u EXCEPT !.queue = qs, !.io = io, !.buffer = bs]
  OBVIOUS
<1>8. /\ w \in CastStates /\ w.queue = qs /\ w.io = io /\ w.buffer = bs
      /\ w.written = u.written /\ w.seen = u.seen
      /\ w.conn = u.conn /\ w.tasks = u.tasks /\ w.begun = u.begun /\ w.since = u.since
  BY <1>4, <1>6, <1>7 DEF CastStates
<1>9. LinkSame(u, w)
  BY <1>7 DEF CastStates, LinkSame
<1>10. IsPushed(u, w, c, m, b)
  BY <1>1, <1>2, <1>6, <1>8, <1>9 DEF IsPushed, PassesOn
<1>11. Sent(u, c, m) = [u EXCEPT !.queue = qs, !.io = io]
  <2>1. PICK y : y = [u EXCEPT !.queue[c] = Append(@, m)]
    OBVIOUS
  <2>2. CASE ~Open(u, c)
    <3>1. qs = u.queue /\ io = u.io
      BY <1>1, <1>2, <1>5, <2>2 DEF CastStates
    <3> QED BY <2>2, <3>1 DEF Sent, CastStates
  <2>3. CASE Open(u, c)
    <3>1. y = [u EXCEPT !.queue = qs] /\ y.io = u.io
      BY <1>1, <1>5, <2>1, <2>3 DEF CastStates
    <3>2. y \in CastStates
      BY <1>6, <3>1 DEF CastStates
    <3>3. CASE u.queue[c] = << >> /\ m.all
      <4>1. Sent(u, c, m) = [y EXCEPT !.io = Append(@, Handler(c, m))]
        BY <2>1, <2>3, <3>3 DEF Sent, Handler
      <4>2. Sent(u, c, m) = [y EXCEPT !.io = io]
        BY <1>2, <2>3, <3>1, <3>3, <4>1
      <4> QED BY <3>1, <4>2 DEF CastStates
    <3>4. CASE ~(u.queue[c] = << >> /\ m.all)
      <4>1. Sent(u, c, m) = y
        BY <2>1, <2>3, <3>4 DEF Sent
      <4>2. io = u.io
        BY <1>2, <3>4
      <4> QED BY <3>1, <4>1, <4>2 DEF CastStates
    <3> QED BY <3>3, <3>4
  <2> QED BY <2>2, <2>3
<1>12. Pushed(u, c, m, b) = w
  <2>1. PICK y : y = Sent(u, c, m)
    OBVIOUS
  <2>2. y = [u EXCEPT !.queue = qs, !.io = io]
    BY <1>11, <2>1
  <2>3. y.buffer = u.buffer
    BY <2>2 DEF CastStates
  <2>4. Pushed(u, c, m, b) = [y EXCEPT !.buffer = bs]
    BY <1>5, <2>1, <2>3 DEF Pushed
  <2> QED BY <1>7, <2>2, <2>4 DEF CastStates
<1> QED BY <1>10, <1>12

\* Of an empty message nothing is to be shown, and it is in nobody's way.
LEMMA BlankIs ==
  /\ Blank \in CastMessages /\ ~Blank.all /\ Rising(Blank.items)
  /\ \A n : UpTo(Blank.items, n) /\ n \notin ToSet(Blank.items)
  /\ \A s : Below(s, Blank.items) /\ Below(Blank.items, s)
<1>1. Blank.items = << >> /\ DOMAIN << >> = {} /\ Blank.all = FALSE /\ << >> \in Seq(Nat)
  BY DEF Blank
<1> QED BY <1>1 DEF Blank, CastMessages, Rising, UpTo, ToSet, Below

\* A client's messages are those of another order, or the buffer is emptied.
Parted(u, c, m, b) == (m = u.buffer[c] /\ b = Blank) \/ (m = Blank /\ b = u.buffer[c])

\* What is sent stays in order.
LEMMA PushedStreams ==
  ASSUME NEW u \in CastStates, NEW c \in Casters, NEW m \in CastMessages, NEW b \in CastMessages, Parted(u, c, m, b),
         Streams(u, c), NEW w, IsPushed(u, w, c, m, b)
  PROVE  /\ Streams(w, c)
         /\ \A n : Coming(w, c, n) <=> Coming(u, c, n)
         /\ \A v \in Viewers : SeenBefore(u, v, c) => SeenBefore(w, v, c)
<1>1. PICK q \in Seq(CastMessages), n \in Nat, s \in Seq(Nat) : q = u.queue[c] /\ n = u.written /\ s = u.buffer[c].items
  BY DEF CastStates, CastMessages
<1>2. Attended(u.io, q, c) /\ Ascending(q, s, n)
  BY <1>1 DEF Streams
<1>3. /\ Rising(m.items) /\ UpTo(m.items, n) /\ Below(m.items, b.items)
      /\ \A j \in DOMAIN q : Below(q[j].items, m.items)
  BY <1>1, <1>2, BlankIs DEF Parted, Ascending
<1>4. Ascending(q, b.items, n)
  <2>1. CASE b = Blank
    BY <1>2, <2>1, BlankIs DEF Ascending
  <2>2. CASE b = u.buffer[c]
    BY <1>1, <1>2, <2>2
  <2> QED BY <2>1, <2>2 DEF Parted
<1>5. /\ w.written = n /\ w.seen = u.seen /\ w.conn = u.conn /\ w.buffer[c] = b
      /\ w.queue[c] = (IF Open(u, c) THEN Append(q, m) ELSE q)
      /\ w.io = (IF Open(u, c) /\ q = << >> /\ m.all THEN Append(u.io, Handler(c, m)) ELSE u.io)
  BY <1>1 DEF IsPushed, PassesOn
<1>6. Open(w, c) <=> Open(u, c)
  BY <1>5 DEF Open
<1>7. \A x : Below(x, s) => Below(x, b.items) /\ Below(x, m.items)
  BY <1>1, BlankIs DEF Parted
<1>8. \A k : /\ u.buffer[c].all /\ k \in ToSet(s)
                <=> (m.all /\ k \in ToSet(m.items)) \/ (b.all /\ k \in ToSet(b.items))
  BY <1>1, BlankIs DEF Parted
<1>9. CASE ~Open(u, c)
  <2>1. w.queue[c] = q /\ w.io = u.io
    BY <1>5, <1>9
  <2>2. Streams(w, c)
    BY <1>2, <1>4, <1>5, <2>1 DEF Streams
  <2>3. \A k : Coming(w, c, k) <=> Coming(u, c, k)
    BY <1>1, <1>6, <1>9, <2>1 DEF Coming, Underway
  <2>4. \A v \in Viewers : SeenBefore(u, v, c) => SeenBefore(w, v, c)
    BY <1>1, <1>5, <1>7, <2>1 DEF SeenBefore
  <2> QED BY <2>2, <2>3, <2>4
<1>10. CASE Open(u, c)
  <2>1. PICK p, r : p = Append(q, m) /\ r = IF q = << >> /\ m.all THEN Append(u.io, Handler(c, m)) ELSE u.io
    OBVIOUS
  <2>2. w.queue[c] = p /\ w.io = r
    BY <1>5, <1>10, <2>1
  <2>3. PICK h : h = Handler(c, m)
    OBVIOUS
  <2>4. u.io \in Seq(Handlers) /\ h = [do |-> "broadcast", client |-> c, items |-> m.items]
    BY <2>3 DEF CastStates, Handler
  <2>5. /\ Attended(r, p, c)
        /\ \A k : Posted(r, c, k) \/ Queued(p, k)
                  <=> Posted(u.io, c, k) \/ Queued(q, k) \/ (m.all /\ k \in ToSet(m.items))
        /\ \A x : Ahead(x, u.io, q, c) /\ Below(x, m.items) => Ahead(x, r, p, c)
    <3>1. WithMessage(u.io, q, c, m, r, p)
      BY <1>2, <2>1, <2>3, <2>4, MessageMore
    <3> QED BY <3>1 DEF WithMessage
  <2>6. Ascending(p, b.items, n)
    BY <1>3, <1>4, <2>1, AscendingMore
  <2>7. Streams(w, c)
    BY <1>5, <2>2, <2>5, <2>6 DEF Streams
  <2>8. \A k : Coming(w, c, k) <=> Coming(u, c, k)
    <3>1. \A k : Underway(w, c, k) <=> Underway(u, c, k) \/ (m.all /\ k \in ToSet(m.items))
      BY <1>1, <2>2, <2>5 DEF Underway
    <3> QED BY <1>1, <1>5, <1>6, <1>8, <1>10, <3>1 DEF Coming
  <2>9. \A v \in Viewers : SeenBefore(u, v, c) => SeenBefore(w, v, c)
    BY <1>1, <1>5, <1>7, <2>2, <2>5 DEF SeenBefore
  <2> QED BY <2>7, <2>8, <2>9
<1> QED BY <1>9, <1>10

LEMMA PushedKeeps ==
  ASSUME NEW u, Casting(u), NEW c \in Casters, NEW m \in CastMessages, NEW b \in CastMessages, Parted(u, c, m, b)
  PROVE  Casting(Pushed(u, c, m, b)) /\ IsPushed(u, Pushed(u, c, m, b), c, m, b)
<1>1. PICK w : w = Pushed(u, c, m, b)
  OBVIOUS
<1>2. u \in CastStates /\ \A d \in Casters : Streams(u, d)
  BY DEF Casting
<1>3. IsPushed(u, w, c, m, b)
  BY <1>1, <1>2, PushedIs
<1>4. PassesOn(u, w) /\ w.written = u.written /\ w.seen = u.seen
  BY <1>3 DEF IsPushed
<1>5. /\ Streams(w, c)
      /\ \A n : Coming(w, c, n) <=> Coming(u, c, n)
      /\ \A v \in Viewers : SeenBefore(u, v, c) => SeenBefore(w, v, c)
  BY <1>2, <1>3, PushedStreams
<1>6. ASSUME NEW d \in Casters, d # c PROVE SameStream(u, w, d)
  <2>1. w.queue[d] = u.queue[d] /\ w.buffer[d] = u.buffer[d]
    BY <1>3, <1>6 DEF IsPushed
  <2>2. CASE w.io = u.io
    BY <2>1, <2>2 DEF SameStream
  <2>3. CASE w.io = Append(u.io, Handler(c, m))
    <3>1. PICK h : h = Handler(c, m)
      OBVIOUS
    <3>2. h \in Handlers /\ h.client = c /\ u.io \in Seq(Handlers)
      BY <1>2, <3>1 DEF Handler, Handlers, CastMessages, CastStates
    <3>3. WithHandler(u.io, h, w.io)
      BY <2>3, <3>1, <3>2, HandlerMore
    <3>4. ~Posts(h, d)
      BY <1>6, <3>2 DEF Posts
    <3> QED BY <1>6, <2>1, <3>2, <3>3, <3>4 DEF SameStream, WithHandler
  <2> QED BY <1>3, <2>2, <2>3 DEF IsPushed
<1>7. ASSUME NEW v \in Viewers PROVE Follows(w, v)
  <2>1. Follows(u, v) /\ w.seen[v] = u.seen[v]
    BY <1>4 DEF Casting
  <2>2. CASE u.of[v] \in Casters \ {c}
    BY <1>2, <1>4, <1>6, <2>1, <2>2, SameFollows
  <2>3. CASE u.of[v] = c
    <3>1. w.of[v] = c /\ w.watching = u.watching /\ w.conn = u.conn /\ w.since = u.since
      BY <1>4, <2>3 DEF PassesOn, LinkSame
    <3>2. \A n : Shows(w, v, n) <=> Shows(u, v, n)
      BY <1>5, <2>1, <2>3, <3>1 DEF Shows
    <3>3. NoGap(u, v, c) => NoGap(w, v, c)
      BY <1>4, <3>1, <3>2 DEF NoGap, Open
    <3> QED BY <1>5, <2>1, <2>3, <3>1, <3>3 DEF Follows, Open
  <2>4. CASE u.of[v] \notin Casters
    <3>1. v \notin w.watching
      BY <1>2, <1>4, <2>4 DEF Casting, Linked, CastStates, PassesOn, LinkSame
    <3> QED BY <3>1 DEF Follows
  <2> QED BY <2>2, <2>3, <2>4
<1>8. \A d \in Casters : Streams(w, d)
  BY <1>2, <1>4, <1>5, <1>6, SameFollows
<1>9. \A v \in Viewers \ u.watching : w.seen[v] = u.seen[v]
  BY <1>4
<1>10. Casting(w)
  BY <1>4, <1>7, <1>8, <1>9, PassedCasting
<1> QED BY <1>1, <1>3, <1>10

\* OutputMessagePool::sendAll, and ProtocolGameBase::sendPing
LEMMA CastSweep ==
  ASSUME CastInv, NEW c \in Casters, Sweep(c)
  PROVE  CastInv'
<1>1. PICK m : m = air.buffer[c]
  OBVIOUS
<1>2. Casting(air) /\ m \in CastMessages /\ Parted(air, c, m, Blank)
  BY <1>1 DEF CastInv, Casting, CastStates, Parted
<1>3. air' = Pushed(air, c, m, Blank)
  BY <1>1 DEF Sweep, Swept, Pushed
<1> QED BY <1>2, <1>3, BlankIs, PushedKeeps DEF CastInv

LEMMA CastPing ==
  ASSUME CastInv, NEW c \in Casters, Ping(c)
  PROVE  CastInv'
<1>1. PICK b : b = air.buffer[c]
  OBVIOUS
<1>2. Casting(air) /\ b \in CastMessages /\ Parted(air, c, Blank, b)
  BY <1>1 DEF CastInv, Casting, CastStates, Parted
<1>3. PICK y : y = Sent(air, c, Blank)
  OBVIOUS
<1>4. y = [y EXCEPT !.buffer[c] = b]
  <2>1. CASE y = air
    BY <1>1, <1>2, <2>1 DEF Casting, CastStates
  <2>2. CASE y # air
    <3>1. y = [air EXCEPT !.queue[c] = Append(@, Blank)]
      BY <1>3, <2>2, BlankIs DEF Sent
    <3>2. PICK qs : qs = [air.queue EXCEPT ![c] = Append(@, Blank)]
      OBVIOUS
    <3>3. y = [air EXCEPT !.queue = qs]
      BY <1>2, <3>1, <3>2 DEF Casting, CastStates
    <3>4. y.buffer = air.buffer /\ air.buffer \in [Casters -> CastMessages]
      BY <1>2, <3>3 DEF Casting, CastStates
    <3>5. [y.buffer EXCEPT ![c] = b] = y.buffer
      BY <1>1, <3>4
    <3> QED BY <1>2, <3>3, <3>5 DEF Casting, CastStates
  <2> QED BY <2>1, <2>2
<1>5. air' = Pushed(air, c, Blank, b)
  BY <1>3, <1>4 DEF Ping, Pushed
<1> QED BY <1>2, <1>5, BlankIs, PushedKeeps DEF CastInv

\* The next item goes behind all others.
WithItem(it, n, s) ==
  /\ s \in Seq(Nat) /\ Rising(s) /\ UpTo(s, n + 1)
  /\ \A k : k \in ToSet(s) <=> k \in ToSet(it) \/ k = n + 1
  /\ \A x \in Seq(Nat) : Below(x, it) /\ UpTo(x, n) => Below(x, s)

LEMMA ItemMore ==
  ASSUME NEW it \in Seq(Nat), NEW n \in Nat, Rising(it), UpTo(it, n), NEW s, s = Append(it, n + 1)
  PROVE  WithItem(it, n, s)
<1>1. PICK l, m \in Nat : l = Len(it) + 1 /\ m = n + 1
  OBVIOUS
<1>2. m \in Nat /\ n < m /\ ~(l < l)
  BY <1>1
<1>3. /\ s \in Seq(Nat) /\ l \in DOMAIN s /\ s[l] = m
      /\ \A i \in DOMAIN it : i \in DOMAIN s /\ s[i] = it[i] /\ it[i] \in Nat /\ i < l /\ ~(l < i)
      /\ \A i \in DOMAIN s : i \in DOMAIN it \/ i = l
  <2>1. \A i \in DOMAIN it : it[i] \in Nat /\ i < Len(it) + 1 /\ ~(Len(it) + 1 < i)
    OBVIOUS
  <2>2. Len(it) + 1 \in 1..(Len(it) + 1)
    OBVIOUS
  <2> QED BY <1>1, <1>2, <2>1, <2>2, Lengthened
<1>4. \A i \in DOMAIN it : it[i] \in Nat /\ it[i] < m /\ it[i] <= m
  BY <1>2, <1>3, <1>1 DEF UpTo
<1>5. Rising(s)
  BY <1>2, <1>3, <1>4 DEF Rising
<1>6. UpTo(s, m)
  BY <1>2, <1>3, <1>4 DEF UpTo
<1>7. \A k : k \in ToSet(s) <=> k \in ToSet(it) \/ k = m
  BY <1>3 DEF ToSet
<1>8. ASSUME NEW x \in Seq(Nat), Below(x, it), UpTo(x, n) PROVE Below(x, s)
  <2>1. \A i \in DOMAIN x : x[i] \in Nat /\ x[i] < m
    BY <1>1, <1>8 DEF UpTo
  <2> QED BY <1>3, <1>8, <2>1 DEF Below
<1> QED BY <1>1, <1>3, <1>5, <1>6, <1>7, <1>8 DEF WithItem

\* What was shown up to n was up to n + 1.
LEMMA UpToNext ==
  ASSUME NEW x \in Seq(Nat), NEW n \in Nat, UpTo(x, n)
  PROVE  UpTo(x, n + 1)
BY DEF UpTo

LEMMA AscendingNext ==
  ASSUME NEW q \in Seq(CastMessages), NEW s \in Seq(Nat), NEW n \in Nat, Ascending(q, s, n)
  PROVE  Ascending(q, s, n + 1)
<1>1. UpTo(s, n + 1)
  BY UpToNext DEF Ascending
<1>2. ASSUME NEW j \in DOMAIN q PROVE UpTo(q[j].items, n + 1)
  <2>1. PICK m \in CastMessages : m = q[j]
    OBVIOUS
  <2>2. m.items \in Seq(Nat) /\ UpTo(m.items, n)
    BY <2>1 DEF CastMessages, Ascending
  <2> QED BY <2>1, <2>2, UpToNext
<1> QED BY <1>1, <1>2 DEF Ascending

\* Nothing is shown before it is written.
LEMMA ShownWritten ==
  ASSUME NEW u \in CastStates, NEW v \in Viewers, NEW c \in Casters, Streams(u, c), SeenBefore(u, v, c),
         NEW n, n \in ToSet(u.seen[v]) \/ Underway(u, c, n)
  PROVE  n <= u.written
<1>1. PICK q \in Seq(CastMessages), t \in Nat : q = u.queue[c] /\ t = u.written
  BY DEF CastStates
<1>2. Attended(u.io, q, c) /\ Ascending(q, u.buffer[c].items, t)
  BY <1>1 DEF Streams
<1>3. \A j \in DOMAIN q : UpTo(q[j].items, t)
  BY <1>2 DEF Ascending
<1>4. CASE n \in ToSet(u.seen[v])
  BY <1>4 DEF SeenBefore, UpTo, ToSet
<1>5. CASE Queued(q, n)
  BY <1>1, <1>3, <1>5 DEF Queued, UpTo, ToSet
<1>6. CASE Posted(u.io, c, n)
  <2>1. PICK i \in DOMAIN u.io : Posts(u.io[i], c) /\ n \in ToSet(u.io[i].items)
    BY <1>6 DEF Posted
  <2>2. q # << >> /\ u.io[i].items = q[1].items
    BY <1>2, <2>1 DEF Attended, Posts
  <2>3. 1 \in DOMAIN q
    BY <2>2
  <2> QED BY <1>1, <1>3, <2>1, <2>2, <2>3 DEF UpTo, ToSet
<1> QED BY <1>1, <1>4, <1>5, <1>6 DEF Underway

\* ProtocolGame::writeToOutputBuffer, when it fits
Added(u, c) ==
  [u EXCEPT !.written = @ + 1,
            !.buffer[c] = [items |-> Append(@.items, u.written + 1), all |-> @.all \/ c \in u.caster]]

IsAdded(u, w, c) ==
  /\ PassesOn(u, w) /\ w.written = u.written + 1 /\ w.seen = u.seen /\ w.io = u.io /\ w.queue = u.queue
  /\ w.buffer[c].items = Append(u.buffer[c].items, u.written + 1)
  /\ w.buffer[c].all \in BOOLEAN /\ (w.buffer[c].all <=> u.buffer[c].all \/ c \in u.caster)
  /\ \A d \in Casters \ {c} : w.buffer[d] = u.buffer[d]

LEMMA AddedIs ==
  ASSUME NEW u \in CastStates, NEW c \in Casters
  PROVE  IsAdded(u, Added(u, c), c)
<1>1. PICK n \in Nat, it \in Seq(Nat) : n = u.written /\ it = u.buffer[c].items
  BY DEF CastStates, CastMessages
<1>2. PICK s : s = Append(it, n + 1)
  OBVIOUS
<1>3. PICK a : a = (u.buffer[c].all \/ c \in u.caster)
  OBVIOUS
<1>4. s \in Seq(Nat) /\ a \in BOOLEAN /\ n + 1 \in Nat
  <2>1. n + 1 \in Nat
    OBVIOUS
  <2>2. u.buffer[c].all \in BOOLEAN
    BY DEF CastStates, CastMessages
  <2> QED BY <1>2, <1>3, <2>1, <2>2
<1>5. PICK m : m = [items |-> s, all |-> a]
  OBVIOUS
<1>6. m \in CastMessages /\ m.items = s /\ m.all = a
  BY <1>4, <1>5 DEF CastMessages
<1>7. PICK bs : bs = [u.buffer EXCEPT ![c] = m]
  OBVIOUS
<1>8. bs \in [Casters -> CastMessages] /\ bs[c] = m /\ \A d \in Casters \ {c} : bs[d] = u.buffer[d]
  BY <1>6, <1>7 DEF CastStates
<1>9. PICK k \in Nat : k = n + 1
  BY <1>4
<1>10. PICK w : w = [u EXCEPT !.written = k, !.buffer = bs]
  OBVIOUS
<1>11. /\ w \in CastStates /\ w.written = k /\ w.buffer = bs /\ w.io = u.io /\ w.queue = u.queue
       /\ w.seen = u.seen /\ w.conn = u.conn /\ w.tasks = u.tasks /\ w.begun = u.begun /\ w.since = u.since
  BY <1>8, <1>10 DEF CastStates
<1>12. LinkSame(u, w)
  BY <1>10 DEF CastStates, LinkSame
<1>13. Added(u, c) = w
  <2>1. Added(u, c) = [u EXCEPT !.written = u.written + 1,
                                !.buffer = [u.buffer EXCEPT ![c] =
                                  [items |-> Append(u.buffer[c].items, u.written + 1),
                                   all |-> u.buffer[c].all \/ c \in u.caster]]]
    BY DEF Added, CastStates
  <2> QED BY <1>1, <1>2, <1>3, <1>5, <1>7, <1>9, <1>10, <2>1, Zenon
<1>14. IsAdded(u, w, c)
  BY <1>1, <1>2, <1>3, <1>4, <1>6, <1>8, <1>9, <1>11, <1>12 DEF IsAdded, PassesOn
<1> QED BY <1>13, <1>14

LEMMA AddedKeeps ==
  ASSUME NEW u, Casting(u), NEW c \in Casters, u.client = c, NEW w, IsAdded(u, w, c)
  PROVE  Casting(w)
<1>1. u \in CastStates /\ Linked(u) /\ Flowing(u)
  BY DEF Casting, Flowing
<1>2. PICK n \in Nat, it \in Seq(Nat) : n = u.written /\ it = u.buffer[c].items
  BY <1>1 DEF CastStates, CastMessages
<1>3. PICK s : n = u.written /\ it = u.buffer[c].items /\ s = Append(it, n + 1)
  BY <1>2
<1>4. /\ PassesOn(u, w) /\ w.written = n + 1 /\ w.seen = u.seen /\ w.io = u.io /\ w.queue = u.queue
      /\ w.buffer[c].items = s /\ (w.buffer[c].all <=> u.buffer[c].all \/ c \in u.caster)
      /\ \A d \in Casters \ {c} : w.buffer[d] = u.buffer[d]
  BY <1>3 DEF IsAdded
<1>5. \A d \in Casters : Attended(u.io, u.queue[d], d) /\ Ascending(u.queue[d], u.buffer[d].items, n)
  BY <1>1, <1>3 DEF Flowing, Streams
<1>6. /\ s \in Seq(Nat) /\ Rising(s) /\ UpTo(s, n + 1)
      /\ \A k : k \in ToSet(s) <=> k \in ToSet(it) \/ k = n + 1
      /\ \A x \in Seq(Nat) : Below(x, it) /\ UpTo(x, n) => Below(x, s)
  <2>1. Rising(it) /\ UpTo(it, n)
    BY <1>3, <1>5 DEF Ascending
  <2>2. WithItem(it, n, s)
    BY <1>3, <2>1, ItemMore
  <2> QED BY <2>2 DEF WithItem
<1>7. ASSUME NEW d \in Casters PROVE Streams(w, d)
  <2>1. PICK q \in Seq(CastMessages), b \in CastMessages : q = u.queue[d] /\ b = u.buffer[d]
    BY <1>1 DEF CastStates
  <2>2. b.items \in Seq(Nat) /\ Ascending(q, b.items, n + 1) /\ Ascending(q, b.items, n)
    BY <1>5, <2>1, AscendingNext DEF CastMessages
  <2>3. CASE d # c
    BY <1>4, <1>5, <2>1, <2>2, <2>3 DEF Streams
  <2>4. CASE d = c
    <3>1. b.items = it
      BY <1>3, <2>1, <2>4
    <3>2. ASSUME NEW j \in DOMAIN q PROVE Below(q[j].items, s)
      <4>1. PICK m \in CastMessages : m = q[j]
        OBVIOUS
      <4>2. m.items \in Seq(Nat) /\ UpTo(m.items, n) /\ Below(m.items, it)
        BY <2>2, <3>1, <4>1 DEF CastMessages, Ascending
      <4> QED BY <1>6, <4>1, <4>2
    <3>3. Ascending(q, s, n + 1)
      BY <1>6, <2>2, <3>2 DEF Ascending
    <3> QED BY <1>4, <1>5, <2>1, <2>4, <3>3 DEF Streams
  <2> QED BY <2>3, <2>4
<1>8. ASSUME NEW v \in Viewers, v \in w.watching, Open(w, v)
      PROVE  SeenBefore(w, v, w.of[v]) /\ NoGap(w, v, w.of[v])
  <2>1. v \in u.watching /\ Open(u, v) /\ w.of[v] = u.of[v] /\ w.since[v] = u.since[v] /\ w.conn = u.conn
    BY <1>4, <1>8 DEF PassesOn, LinkSame, Open
  <2>2. u.of[v] = c /\ c \in u.caster
    BY <1>1, <2>1 DEF Linked
  <2>3. SeenBefore(u, v, c) /\ NoGap(u, v, c) /\ Streams(u, c)
    BY <1>1, <2>1, <2>2 DEF Flowing, Follows
  <2>4. PICK x \in Seq(Nat) : x = u.seen[v]
    BY <1>1 DEF CastStates
  <2>5. Rising(x) /\ UpTo(x, n) /\ Below(x, it) /\ Ahead(x, u.io, u.queue[c], c)
    BY <1>3, <2>3, <2>4 DEF SeenBefore
  <2>6. SeenBefore(w, v, c)
    BY <1>4, <1>6, <2>4, <2>5, UpToNext DEF SeenBefore
  <2>7. PICK a \in Nat : a = u.since[v]
    BY <1>1 DEF CastStates
  <2>8. (Open(w, c) <=> Open(u, c)) /\ \A k : Underway(w, c, k) <=> Underway(u, c, k)
    BY <1>4, <2>1 DEF Open, Underway
  <2>9. NoGap(w, v, c)
    <3>1. CASE Open(u, c)
      <4>1. \A k \in a + 1 .. n : Shows(u, v, k)
        BY <1>3, <2>3, <2>7, <3>1 DEF NoGap
      <4>2. \A k : Shows(u, v, k) => Shows(w, v, k)
        <5>1. \A k : k \in ToSet(u.buffer[c].items) => k \in ToSet(w.buffer[c].items)
          BY <1>3, <1>4, <1>6
        <5>2. u.buffer[c].all => w.buffer[c].all
          BY <1>4
        <5> QED BY <1>4, <2>1, <2>2, <2>8, <5>1, <5>2 DEF Shows, Coming
      <4>3. Shows(w, v, n + 1)
        BY <1>4, <1>6, <2>1, <2>2, <2>8, <3>1 DEF Shows, Coming
      <4>4. \A k \in a + 1 .. n + 1 : k \in a + 1 .. n \/ k = n + 1
        OBVIOUS
      <4>5. \A k \in a + 1 .. n + 1 : Shows(w, v, k)
        BY <4>1, <4>2, <4>3, <4>4
      <4>6. \A k \in a + 1 .. n + 1 : \A l \in a + 1 .. k : l \in a + 1 .. n + 1
        OBVIOUS
      <4> QED BY <1>4, <2>1, <2>7, <4>5, <4>6 DEF NoGap
    <3>2. CASE ~Open(u, c)
      <4>1. \A k : Shows(w, v, k) <=> Shows(u, v, k)
        BY <1>4, <2>1, <2>2, <2>8, <3>2 DEF Shows, Coming
      <4>2. \A k : Shows(u, v, k) => k <= n
        BY <1>1, <1>3, <2>2, <2>3, <3>2, ShownWritten DEF Shows, Coming
      <4>3. \A k \in a + 1 .. n + 1 : k <= n => k \in a + 1 .. n
        OBVIOUS
      <4>4. \A k \in a + 1 .. n : Shows(u, v, k) => \A l \in a + 1 .. k : Shows(u, v, l)
        BY <1>3, <2>3, <2>7 DEF NoGap
      <4>5. \A k \in a + 1 .. n + 1 : Shows(w, v, k) => \A l \in a + 1 .. k : Shows(w, v, l)
        BY <4>1, <4>2, <4>3, <4>4
      <4> QED BY <1>4, <2>1, <2>7, <2>8, <3>2, <4>5 DEF NoGap
    <3> QED BY <3>1, <3>2
  <2> QED BY <2>1, <2>2, <2>6, <2>9
<1>9. \A v \in Viewers : Follows(w, v)
  BY <1>8 DEF Follows
<1>10. \A v \in Viewers \ u.watching : w.seen[v] = u.seen[v]
  BY <1>4
<1> QED BY <1>4, <1>7, <1>9, <1>10, PassedCasting

\* ProtocolGame::writeToOutputBuffer keeps what is sent in order, for the player's client.
LEMMA WroteKeeps ==
  ASSUME NEW u, Casting(u), NEW c \in Casters, u.client = c, NEW fits \in BOOLEAN
  PROVE  Casting(Wrote(u, c, fits))
<1>1. PICK m : m = u.buffer[c]
  OBVIOUS
<1>2. PICK v : v = IF fits THEN u ELSE Pushed(u, c, m, Blank)
  OBVIOUS
<1>3. Casting(v) /\ v.client = c
  <2>1. CASE fits
    BY <1>2, <2>1
  <2>2. CASE ~fits
    <3>1. m \in CastMessages /\ Parted(u, c, m, Blank)
      BY <1>1 DEF Casting, CastStates, Parted
    <3>2. Casting(Pushed(u, c, m, Blank)) /\ IsPushed(u, Pushed(u, c, m, Blank), c, m, Blank)
      BY <3>1, BlankIs, PushedKeeps
    <3> QED BY <1>2, <2>2, <3>2 DEF IsPushed, PassesOn, LinkSame
  <2> QED BY <2>1, <2>2
<1>4. PICK w : w = Added(v, c)
  OBVIOUS
<1>5. IsAdded(v, w, c)
  BY <1>3, <1>4, AddedIs DEF Casting
<1>6. Casting(w)
  BY <1>3, <1>5, AddedKeeps
<1>7. Wrote(u, c, fits) = w
  BY <1>1, <1>2, <1>4 DEF Wrote, Added, Pushed
<1> QED BY <1>6, <1>7

LEMMA CastWrite ==
  ASSUME CastInv, NEW c \in Casters, Write(c)
  PROVE  CastInv'
<1>1. PICK fits \in BOOLEAN : air' = Wrote(air, c, fits)
  BY DEF Write
<1> QED BY <1>1, WroteKeeps DEF CastInv, Write

\* ProtocolGame::startLiveCast
LEMMA StartedKeeps ==
  ASSUME LiveCastAssumption, NEW u, Casting(u), NEW c \in Casters, u.client = c, c \notin u.caster
  PROVE  Casting(CastStarted(u, c)) /\ CastStarted(u, c).client = c
<1>1. u \in CastStates /\ Linked(u) /\ c # Off
  BY DEF Casting, LiveCastAssumption
<1>2. u.caster = {} /\ u.listed = Off /\ u.row = Off /\ u.watching = {}
  BY <1>1 DEF Linked
<1>3. PICK cs : cs = {c}
  OBVIOUS
<1>4. PICK w : w = [u EXCEPT !.caster = cs, !.listed = c, !.row = 0]
  OBVIOUS
<1>5. cs \in SUBSET Casters /\ u.caster \union {c} = cs
  BY <1>2, <1>3
<1>6. CastStarted(u, c) = w
  <2>1. CastStarted(u, c) = [u EXCEPT !.caster = u.caster \union {c},
                                      !.listed = IF u.listed = Off THEN c ELSE u.listed,
                                      !.row = IF u.row = Off THEN 0 ELSE u.row]
    BY <1>1 DEF CastStarted, CastStates
  <2>2. (IF u.listed = Off THEN c ELSE u.listed) = c /\ (IF u.row = Off THEN 0 ELSE u.row) = 0
    BY <1>2
  <2> QED BY <1>4, <1>5, <2>1, <2>2
<1>7. w \in CastStates
  BY <1>1, <1>4, <1>5 DEF CastStates
<1>8. /\ w.life = u.life /\ w.refs = u.refs /\ w.client = c /\ w.owner = u.owner /\ w.caster = cs
      /\ w.listed = c /\ w.spectators = u.spectators /\ w.row = 0 /\ w.watching = {} /\ w.of = u.of
  BY <1>1, <1>2, <1>4 DEF CastStates
<1>9. Calm(u, w)
  <2>1. /\ w.io = u.io /\ w.queue = u.queue /\ w.buffer = u.buffer /\ w.written = u.written
        /\ w.seen = u.seen /\ w.since = u.since /\ w.conn = u.conn /\ w.tasks = u.tasks /\ w.begun = u.begun
    BY <1>1, <1>4 DEF CastStates
  <2> QED BY <1>2, <1>8, <2>1 DEF Calm, Undisturbed, Open
<1>10. Linked(w)
  <2>1. \A d \in Casters : w.spectators[d] = {x \in w.watching : w.of[x] = d}
    BY <1>1, <1>2, <1>8 DEF Linked
  <2>2. Cardinality(w.watching) = 0 /\ IsFiniteSet(w.watching)
    BY <1>8, FS_EmptySet
  <2>3. w.refs = (IF w.life = "cleaned" THEN 0 ELSE 1) + (IF w.client = Off THEN 0 ELSE 1)
                 + Cardinality(w.watching)
    BY <1>1, <1>2, <1>8 DEF Linked
  <2>4. w.client \in w.owner
    BY <1>1, <1>8 DEF Linked
  <2> QED BY <1>1, <1>3, <1>8, <2>1, <2>2, <2>3, <2>4 DEF Linked
<1>11. Casting(w)
  BY <1>7, <1>9, <1>10, CalmCasting
<1> QED BY <1>6, <1>8, <1>11

LEMMA CastStart ==
  ASSUME LiveCastAssumption, CastInv, NEW c \in Casters, StartCast(c)
  PROVE  CastInv'
<1>1. PICK u : u = CastStarted(air, c)
  OBVIOUS
<1>2. PICK fits \in BOOLEAN : air' = Wrote(u, c, fits)
  BY <1>1 DEF StartCast
<1>3. Casting(u) /\ u.client = c
  BY <1>1, StartedKeeps DEF CastInv, StartCast
<1> QED BY <1>2, <1>3, WroteKeeps DEF CastInv

\* Connection::onWriteOperation waits for its turn.
LEMMA CastWriteEnds ==
  ASSUME CastInv, NEW c \in Casters, WriteEnds(c)
  PROVE  CastInv'
<1>1. air \in CastStates /\ Casting(air) /\ Streams(air, c)
  BY DEF CastInv, Casting
<1>2. PICK h : h = [do |-> "written", client |-> c]
  OBVIOUS
<1>3. h \in Handlers /\ h.client = c /\ h.do = "written" /\ \A d : ~Posts(h, d)
  BY <1>2 DEF Handlers, Posts
<1>4. PICK r : r = Append(air.io, h)
  OBVIOUS
<1>5. air.io \in Seq(Handlers)
  BY <1>1 DEF CastStates
<1>6. WithHandler(air.io, h, r)
  BY <1>3, <1>4, <1>5, HandlerMore
<1>7. PICK w : w = [air EXCEPT !.io = r]
  OBVIOUS
<1>8. air' = w
  BY <1>2, <1>4, <1>7 DEF WriteEnds
<1>9. /\ w \in CastStates /\ w.io = r /\ w.queue = air.queue /\ w.buffer = air.buffer
      /\ w.written = air.written /\ w.seen = air.seen
      /\ w.conn = air.conn /\ w.tasks = air.tasks /\ w.begun = air.begun /\ w.since = air.since
  BY <1>1, <1>6, <1>7 DEF CastStates, WithHandler
<1>10. PassesOn(air, w)
  BY <1>1, <1>7, <1>9 DEF CastStates, LinkSame, PassesOn
<1>11. Attended(r, air.queue[c], c)
  <2>1. Attended(air.io, air.queue[c], c) /\ air.queue[c] # << >>
    BY <1>1 DEF Streams, WriteEnds
  <2>2. \A i \in DOMAIN air.io : ~(air.io[i].do = "written" /\ air.io[i].client = c)
    BY DEF WriteEnds
  <2>3. PICK l : l = Len(air.io) + 1
    OBVIOUS
  <2>4. /\ \A i \in DOMAIN r : (i \in DOMAIN air.io /\ r[i] = air.io[i]) \/ (i = l /\ r[i] = h)
        /\ \A i \in DOMAIN air.io : i < l
    BY <1>6, <2>3 DEF WithHandler
  <2>5. \A i, j \in DOMAIN r : r[i].client = c /\ r[j].client = c =>
          /\ r[i].do = r[j].do => i = j
          /\ r[i].do = "broadcast" /\ r[j].do = "written" => i < j
    BY <1>3, <2>1, <2>2, <2>4 DEF Attended
  <2>6. \A i \in DOMAIN r : Posts(r[i], c) => r[i].items = air.queue[c][1].items
    BY <1>3, <2>1, <2>4 DEF Attended
  <2> QED BY <2>1, <2>5, <2>6 DEF Attended
<1>12. ASSUME NEW d \in Casters PROVE SameStream(air, w, d)
  <2>1. Attended(air.io, air.queue[d], d) => Attended(r, air.queue[d], d)
    <3>1. CASE d = c
      BY <1>11, <3>1
    <3>2. CASE d # c
      BY <1>3, <1>6, <3>2 DEF WithHandler
    <3> QED BY <3>1, <3>2
  <2>2. \A n : Posted(r, d, n) <=> Posted(air.io, d, n)
    BY <1>3, <1>6 DEF WithHandler
  <2>3. \A s, q : Ahead(s, air.io, q, d) => Ahead(s, r, q, d)
    BY <1>3, <1>6 DEF WithHandler
  <2> QED BY <1>9, <2>1, <2>2, <2>3 DEF SameStream
<1>13. \A d \in Casters : Streams(w, d)
  BY <1>1, <1>9, <1>10, <1>12, SameFollows DEF Casting
<1>14. ASSUME NEW v \in Viewers PROVE Follows(w, v)
  <2>1. Follows(air, v)
    BY <1>1 DEF Casting
  <2>2. CASE air.of[v] \in Casters
    BY <1>1, <1>9, <1>10, <1>12, <2>1, <2>2, SameFollows
  <2>3. CASE air.of[v] \notin Casters
    <3>1. v \notin w.watching
      BY <1>1, <1>10, <2>3 DEF Casting, Linked, CastStates, PassesOn, LinkSame
    <3> QED BY <3>1 DEF Follows
  <2> QED BY <2>2, <2>3
<1>15. Casting(w)
  BY <1>1, <1>9, <1>10, <1>13, <1>14, PassedCasting
<1> QED BY <1>8, <1>15 DEF CastInv

\* A handler less: the first.
WithoutHandler(io, h, r) ==
  /\ r \in Seq(Handlers) /\ h \in Handlers
  /\ \A c, n : Posted(io, c, n) <=> Posted(r, c, n) \/ (Posts(h, c) /\ n \in ToSet(h.items))
  /\ \A s, q, c : Ahead(s, io, q, c) => Ahead(s, r, q, c) /\ (Posts(h, c) => Below(s, h.items))
  /\ \A q, c : Attended(io, q, c) => Attended(r, q, c)
  /\ \A q, c : Attended(io, q, c) /\ h.client = c /\ h.do = "written" => \A i \in DOMAIN r : r[i].client # c
  /\ \A q, c : Attended(io, q, c) /\ Posts(h, c) =>
                 /\ q # << >> /\ h.items = q[1].items
                 /\ \A i \in DOMAIN r : ~Posts(r[i], c)

LEMMA HandlerLess ==
  ASSUME NEW io \in Seq(Handlers), io # << >>, NEW h, h = Head(io), NEW r, r = Tail(io)
  PROVE  WithoutHandler(io, h, r)
<1>1. /\ r \in Seq(Handlers) /\ 1 \in DOMAIN io /\ h = io[1] /\ h \in Handlers
      /\ \A i \in DOMAIN r : i + 1 \in DOMAIN io /\ i + 1 > 1 /\ r[i] = io[i + 1] /\ i \in Int
      /\ \A i \in DOMAIN io : i = 1 \/ (i - 1 \in DOMAIN r /\ io[i] = r[i - 1])
  BY QueueShorter
<1>2. ASSUME NEW c, NEW n
      PROVE  Posted(io, c, n) <=> Posted(r, c, n) \/ (Posts(h, c) /\ n \in ToSet(h.items))
  BY <1>1 DEF Posted
<1>3. ASSUME NEW s, NEW q, NEW c, Ahead(s, io, q, c)
      PROVE  Ahead(s, r, q, c) /\ (Posts(h, c) => Below(s, h.items))
  BY <1>1, <1>3 DEF Ahead
<1>4. ASSUME NEW q, NEW c, Attended(io, q, c)
      PROVE  Attended(r, q, c)
  <2>1. \A i \in DOMAIN r : r[i].client = c => q # << >>
    BY <1>1, <1>4 DEF Attended
  <2>2. \A i, j \in DOMAIN r : r[i].client = c /\ r[j].client = c =>
          /\ r[i].do = r[j].do => i = j
          /\ r[i].do = "broadcast" /\ r[j].do = "written" => i < j
    <3> SUFFICES ASSUME NEW i \in DOMAIN r, NEW j \in DOMAIN r, r[i].client = c, r[j].client = c
                 PROVE  /\ r[i].do = r[j].do => i = j
                        /\ r[i].do = "broadcast" /\ r[j].do = "written" => i < j
      OBVIOUS
    <3>1. i \in Int /\ j \in Int /\ i + 1 \in DOMAIN io /\ j + 1 \in DOMAIN io /\ r[i] = io[i + 1] /\ r[j] = io[j + 1]
      BY <1>1
    <3>2. /\ r[i].do = r[j].do => i + 1 = j + 1
          /\ r[i].do = "broadcast" /\ r[j].do = "written" => i + 1 < j + 1
      BY <1>4, <3>1 DEF Attended
    <3> QED BY <3>1, <3>2
  <2>3. \A i \in DOMAIN r : Posts(r[i], c) => r[i].items = q[1].items
    BY <1>1, <1>4 DEF Attended
  <2> QED BY <2>1, <2>2, <2>3 DEF Attended
<1>5. ASSUME NEW q, NEW c, Attended(io, q, c), h.client = c, h.do = "written", NEW i \in DOMAIN r
      PROVE  r[i].client # c
  <2> SUFFICES ASSUME r[i].client = c PROVE FALSE
    OBVIOUS
  <2>1. PICK k \in DOMAIN io : k = i + 1 /\ k > 1 /\ r[i] = io[k]
    BY <1>1
  <2>2. io[k].do = "broadcast" \/ io[k].do = "written"
    BY DEF Handlers
  <2>3. k \in Int /\ k # 1 /\ ~(k < 1)
    BY <1>1, <2>1
  <2> QED BY <1>1, <1>5, <2>1, <2>2, <2>3 DEF Attended
<1>6. ASSUME NEW q, NEW c, Attended(io, q, c), Posts(h, c)
      PROVE  /\ q # << >> /\ h.items = q[1].items
             /\ \A i \in DOMAIN r : ~Posts(r[i], c)
  <2>1. q # << >> /\ h.items = q[1].items
    BY <1>1, <1>6 DEF Attended, Posts
  <2>2. ASSUME NEW i \in DOMAIN r, Posts(r[i], c) PROVE FALSE
    <3>1. PICK k \in DOMAIN io : k > 1 /\ r[i] = io[k]
      BY <1>1
    <3>2. k # 1
      BY <3>1
    <3> QED BY <1>1, <1>6, <2>2, <3>1, <3>2 DEF Attended, Posts
  <2> QED BY <2>1, <2>2
<1> QED BY <1>1, <1>2, <1>3, <1>4, <1>5, <1>6 DEF WithoutHandler

\* One list behind another.
WithItems(x, y, n, z) ==
  /\ z \in Seq(Nat) /\ Rising(z) /\ UpTo(z, n)
  /\ \A k : k \in ToSet(z) <=> k \in ToSet(x) \/ k \in ToSet(y)
  /\ \A s : Below(x, s) /\ Below(y, s) => Below(z, s)

LEMMA ItemsMore ==
  ASSUME NEW x \in Seq(Nat), NEW y \in Seq(Nat), NEW n \in Nat, Rising(x), Rising(y), UpTo(x, n), UpTo(y, n),
         Below(x, y)
  PROVE  WithItems(x, y, n, x \o y)
<1>1. PICK z : z = x \o y
  OBVIOUS
<1>2. PICK a \in Nat, b \in Nat : a = Len(x) /\ b = Len(y)
  OBVIOUS
<1>3. /\ z \in Seq(Nat) /\ DOMAIN z = 1..(a + b) /\ DOMAIN x = 1..a /\ DOMAIN y = 1..b
      /\ \A i \in 1..(a + b) : z[i] = IF i <= a THEN x[i] ELSE y[i - a]
  BY <1>1, <1>2
<1>4. ASSUME NEW i \in DOMAIN z
      PROVE  /\ i \in Int
             /\ \/ i \in DOMAIN x /\ i <= a /\ z[i] = x[i]
                \/ i - a \in DOMAIN y /\ i > a /\ z[i] = y[i - a]
  <2>1. i \in 1..(a + b)
    BY <1>3
  <2>2. CASE i <= a
    <3>1. i \in 1..a
      BY <2>1, <2>2
    <3>2. z[i] = x[i]
      BY <1>3, <2>1, <2>2, Zenon
    <3>3. i \in DOMAIN x /\ i \in Int
      BY <1>3, <2>1, <3>1
    <3> QED BY <2>2, <3>2, <3>3, Zenon
  <2>3. CASE i > a
    <3>1. i - a \in 1..b /\ ~(i <= a)
      BY <2>1, <2>3
    <3>2. z[i] = y[i - a]
      BY <1>3, <2>1, <3>1, Zenon
    <3>3. i - a \in DOMAIN y /\ i \in Int
      BY <1>3, <2>1, <3>1
    <3> QED BY <2>3, <3>2, <3>3, Zenon
  <2> QED BY <2>1, <2>2, <2>3
<1>5. ASSUME NEW i \in DOMAIN x PROVE i \in DOMAIN z /\ z[i] = x[i]
  <2>1. i \in 1..(a + b) /\ i <= a
    BY <1>3
  <2> QED BY <1>3, <2>1, Zenon
<1>6. ASSUME NEW i \in DOMAIN y PROVE i + a \in DOMAIN z /\ z[i + a] = y[i]
  <2>1. i + a \in 1..(a + b) /\ ~(i + a <= a) /\ (i + a) - a = i
    BY <1>3
  <2>2. z[i + a] = y[(i + a) - a]
    BY <1>3, <2>1, Zenon
  <2> QED BY <1>3, <2>1, <2>2
<1>7. Rising(z)
  <2> SUFFICES ASSUME NEW i \in DOMAIN z, NEW j \in DOMAIN z, i < j PROVE z[i] < z[j]
    BY DEF Rising
  <2>1. i \in Int /\ j \in Int
    BY <1>4
  <2>2. CASE i <= a /\ j <= a
    <3>1. i \in DOMAIN x /\ z[i] = x[i] /\ j \in DOMAIN x /\ z[j] = x[j]
      BY <1>4, <2>1, <2>2
    <3> QED BY <3>1 DEF Rising
  <2>3. CASE i <= a /\ j > a
    <3>1. i \in DOMAIN x /\ z[i] = x[i]
      BY <1>4, <2>1, <2>3
    <3>2. j - a \in DOMAIN y /\ z[j] = y[j - a]
      BY <1>4, <2>1, <2>3
    <3>3. x[i] < y[j - a]
      BY <3>1, <3>2, Zenon DEF Below
    <3> QED BY <3>1, <3>2, <3>3, Zenon
  <2>4. CASE i > a
    <3>1. j > a /\ i - a < j - a
      BY <2>1, <2>4
    <3>2. i - a \in DOMAIN y /\ z[i] = y[i - a]
      BY <1>4, <2>1, <2>4
    <3>3. j - a \in DOMAIN y /\ z[j] = y[j - a]
      BY <1>4, <2>1, <3>1
    <3>4. y[i - a] < y[j - a]
      BY <3>1, <3>2, <3>3, Zenon DEF Rising
    <3> QED BY <3>2, <3>3, <3>4, Zenon
  <2> QED BY <2>1, <2>2, <2>3, <2>4
<1>8. ASSUME NEW i \in DOMAIN z PROVE (\E k \in DOMAIN x : z[i] = x[k]) \/ (\E k \in DOMAIN y : z[i] = y[k])
  BY <1>4, Zenon
<1>9. UpTo(z, n)
  BY <1>8 DEF UpTo
<1>10. ASSUME NEW k PROVE k \in ToSet(z) <=> k \in ToSet(x) \/ k \in ToSet(y)
  <2>1. k \in ToSet(z) => k \in ToSet(x) \/ k \in ToSet(y)
    BY <1>8, Zenon DEF ToSet
  <2>2. k \in ToSet(x) => k \in ToSet(z)
    BY <1>5, Zenon DEF ToSet
  <2>3. k \in ToSet(y) => k \in ToSet(z)
    BY <1>6, Zenon DEF ToSet
  <2> QED BY <2>1, <2>2, <2>3
<1>11. ASSUME NEW s, Below(x, s), Below(y, s) PROVE Below(z, s)
  BY <1>8, <1>11, Zenon DEF Below
<1>12. WithItems(x, y, n, z)
  BY <1>3, <1>7, <1>9, <1>10, <1>11 DEF WithItems
<1> QED BY <1>1, <1>12

\* The first handler, one of client c, has run; items, the first of what was on its way
\* behind what was seen, are handed to those who watch him.
Delivers(u, w, c, items) ==
  /\ PassesOn(u, w) /\ w.written = u.written /\ w.buffer = u.buffer
  /\ \A d \in Casters \ {c} : w.queue[d] = u.queue[d]
  /\ u.io # << >> /\ w.io = Tail(u.io) /\ Head(u.io).client = c
  /\ \A v \in Viewers :
       w.seen[v] = IF v \in u.spectators[c] /\ Open(u, v) THEN u.seen[v] \o items ELSE u.seen[v]
  /\ Streams(w, c)
  /\ \A n : Underway(u, c, n) <=> Underway(w, c, n) \/ n \in ToSet(items)
  /\ items \in Seq(Nat) /\ Rising(items) /\ UpTo(items, u.written) /\ Below(items, u.buffer[c].items)
  /\ Ahead(items, w.io, w.queue[c], c)
  /\ \A s : Ahead(s, u.io, u.queue[c], c) => Below(s, items) /\ Ahead(s, w.io, w.queue[c], c)

LEMMA DeliversKeeps ==
  ASSUME NEW u, Casting(u), NEW c \in Casters, NEW w, NEW items, Delivers(u, w, c, items)
  PROVE  Casting(w)
<1>1. u \in CastStates /\ Linked(u) /\ PassesOn(u, w) /\ w.written = u.written /\ w.buffer = u.buffer
  BY DEF Casting, Delivers
<1>2. PICK h : h = Head(u.io)
  OBVIOUS
<1>3. WithoutHandler(u.io, h, w.io) /\ h.client = c
  BY <1>1, <1>2, HandlerLess DEF Delivers, CastStates
<1>4. ASSUME NEW d \in Casters, d # c PROVE SameStream(u, w, d)
  <2>1. w.queue[d] = u.queue[d] /\ w.buffer[d] = u.buffer[d] /\ ~Posts(h, d)
    BY <1>1, <1>3, <1>4 DEF Delivers, Posts
  <2> QED BY <1>3, <2>1 DEF SameStream, WithoutHandler
<1>5. ASSUME NEW d \in Casters PROVE Streams(w, d)
  <2>1. CASE d = c
    BY <2>1 DEF Delivers
  <2>2. CASE d # c
    BY <1>1, <1>4, <2>2, SameFollows DEF Casting
  <2> QED BY <2>1, <2>2
<1>6. ASSUME NEW v \in Viewers, v \in w.watching, Open(w, v)
      PROVE  Follows(w, v)
  <2>1. /\ v \in u.watching /\ Open(u, v) /\ w.of = u.of /\ w.since = u.since /\ w.conn = u.conn
        /\ u.of[v] \in Casters /\ Follows(u, v)
    BY <1>1, <1>6 DEF PassesOn, LinkSame, Open, Casting, Linked, CastStates
  <2>2. CASE u.of[v] # c
    <3>1. v \notin u.spectators[c]
      BY <1>1, <2>2 DEF Linked
    <3>2. w.seen[v] = u.seen[v]
      BY <3>1 DEF Delivers
    <3> QED BY <1>1, <1>4, <2>1, <2>2, <3>2, SameFollows
  <2>3. CASE u.of[v] = c
    <3>1. v \in u.spectators[c]
      BY <1>1, <2>1, <2>3 DEF Linked
    <3>2. PICK x \in Seq(Nat), n \in Nat, b \in Seq(Nat) : x = u.seen[v] /\ n = u.written /\ b = u.buffer[c].items
      BY <1>1 DEF CastStates, CastMessages
    <3>3. PICK z : z = x \o items
      OBVIOUS
    <3>4. w.seen[v] = z
      BY <2>1, <3>1, <3>2, <3>3 DEF Delivers
    <3>5. /\ Rising(x) /\ UpTo(x, n) /\ Below(x, b) /\ Ahead(x, u.io, u.queue[c], c) /\ NoGap(u, v, c)
      BY <2>1, <2>3, <3>2 DEF Follows, SeenBefore
    <3>6. /\ items \in Seq(Nat) /\ Rising(items) /\ UpTo(items, n) /\ Below(items, b)
          /\ Ahead(items, w.io, w.queue[c], c) /\ Below(x, items) /\ Ahead(x, w.io, w.queue[c], c)
      BY <3>2, <3>5 DEF Delivers
    <3>7. WithItems(x, items, n, z)
      BY <3>3, <3>5, <3>6, ItemsMore
    <3>8. Ahead(z, w.io, w.queue[c], c) /\ Below(z, b)
      BY <3>5, <3>6, <3>7 DEF WithItems, Ahead
    <3>9. SeenBefore(w, v, c)
      BY <1>1, <3>2, <3>4, <3>7, <3>8 DEF SeenBefore, WithItems
    <3>10. \A k : Shows(w, v, k) <=> Shows(u, v, k)
      <4>1. \A k : k \in ToSet(w.seen[v]) <=> k \in ToSet(u.seen[v]) \/ k \in ToSet(items)
        BY <3>2, <3>4, <3>7 DEF WithItems
      <4>2. \A k : Underway(u, c, k) <=> Underway(w, c, k) \/ k \in ToSet(items)
        BY DEF Delivers
      <4> QED BY <1>1, <2>1, <2>3, <4>1, <4>2 DEF Shows, Coming, Open
    <3>11. NoGap(w, v, c)
      BY <1>1, <2>1, <3>5, <3>10 DEF NoGap, Open
    <3> QED BY <2>1, <2>3, <3>9, <3>11 DEF Follows
  <2> QED BY <2>2, <2>3
<1>7. \A v \in Viewers : Follows(w, v)
  BY <1>6 DEF Follows
<1>8. ASSUME NEW v \in Viewers \ u.watching PROVE w.seen[v] = u.seen[v]
  <2>1. v \notin u.spectators[c]
    BY <1>1 DEF Linked
  <2> QED BY <2>1 DEF Delivers
<1> QED BY <1>1, <1>5, <1>7, <1>8, PassedCasting

\* Taking the first handler, and perhaps what was written from the queue.
Taken(u, c, q, sn) == [u EXCEPT !.io = Tail(u.io), !.queue[c] = q, !.seen = sn]

IsTaken(u, w, c, q, sn) ==
  /\ PassesOn(u, w) /\ w.written = u.written /\ w.buffer = u.buffer /\ w.seen = sn
  /\ w.queue[c] = q /\ \A d \in Casters \ {c} : w.queue[d] = u.queue[d]
  /\ w.io = Tail(u.io)

LEMMA TakenIs ==
  ASSUME NEW u \in CastStates, u.io # << >>, NEW c \in Casters, NEW q \in Seq(CastMessages),
         NEW sn \in [Viewers -> Seq(Nat)]
  PROVE  IsTaken(u, Taken(u, c, q, sn), c, q, sn)
<1>1. PICK r \in Seq(Handlers) : r = Tail(u.io)
  <2>1. u.io \in Seq(Handlers)
    BY DEF CastStates
  <2>2. Tail(u.io) \in Seq(Handlers)
    BY <2>1, QueueShorter
  <2> QED BY <2>2
<1>2. PICK qs : qs = [u.queue EXCEPT ![c] = q]
  OBVIOUS
<1>3. qs \in [Casters -> Seq(CastMessages)] /\ qs[c] = q /\ \A d \in Casters \ {c} : qs[d] = u.queue[d]
  BY <1>2 DEF CastStates
<1>4. PICK w : w = [u EXCEPT !.io = r, !.queue = qs, !.seen = sn]
  OBVIOUS
<1>5. Taken(u, c, q, sn) = w
  BY <1>1, <1>2, <1>4 DEF Taken
<1>6. /\ w \in CastStates /\ w.io = r /\ w.queue = qs /\ w.seen = sn /\ w.buffer = u.buffer
      /\ w.written = u.written /\ w.conn = u.conn /\ w.tasks = u.tasks /\ w.begun = u.begun /\ w.since = u.since
  BY <1>1, <1>3, <1>4 DEF CastStates
<1>7. LinkSame(u, w)
  BY <1>4 DEF CastStates, LinkSame
<1> QED BY <1>1, <1>3, <1>5, <1>6, <1>7 DEF PassesOn, IsTaken

\* What those who watch have seen with the items.
Shown(u, c, items) ==
  [v \in Viewers |-> IF v \in u.spectators[c] /\ Open(u, v) THEN u.seen[v] \o items ELSE u.seen[v]]

LEMMA ShownIs ==
  ASSUME NEW u \in CastStates, NEW c \in Casters, NEW items \in Seq(Nat)
  PROVE  Shown(u, c, items) \in [Viewers -> Seq(Nat)]
<1>1. ASSUME NEW v \in Viewers
      PROVE  (IF v \in u.spectators[c] /\ Open(u, v) THEN u.seen[v] \o items ELSE u.seen[v]) \in Seq(Nat)
  <2>1. PICK x \in Seq(Nat) : x = u.seen[v]
    BY DEF CastStates
  <2>2. x \o items \in Seq(Nat)
    OBVIOUS
  <2> QED BY <2>1, <2>2
<1> QED BY <1>1 DEF Shown

\* Connection::broadcastMessage, run by the network thread
LEMMA BroadcastKeeps ==
  ASSUME NEW u, Casting(u), u.io # << >>, NEW h, h = Head(u.io), h.do = "broadcast"
  PROVE  Casting(Broadcast([u EXCEPT !.io = Tail(@)], h.client, h.items))
<1>1. u \in CastStates /\ Linked(u)
  BY DEF Casting
<1>2. WithoutHandler(u.io, h, Tail(u.io)) /\ h \in Handlers
  <2>1. u.io \in Seq(Handlers)
    BY <1>1 DEF CastStates
  <2>2. WithoutHandler(u.io, h, Tail(u.io))
    BY <2>1, HandlerLess
  <2> QED BY <2>2 DEF WithoutHandler
<1>3. PICK c \in Casters, items \in Seq(Nat) : c = h.client /\ items = h.items
  BY <1>2 DEF Handlers
<1>4. PICK q \in Seq(CastMessages), n \in Nat, b \in Seq(Nat) : q = u.queue[c] /\ n = u.written /\ b = u.buffer[c].items
  BY <1>1 DEF CastStates, CastMessages
<1>5. Posts(h, c) /\ Attended(u.io, q, c) /\ Ascending(q, b, n)
  BY <1>3, <1>4 DEF Posts, Casting, Streams
<1>6. PICK r : r = Tail(u.io)
  OBVIOUS
<1>7. q # << >> /\ items = q[1].items /\ (\A i \in DOMAIN r : ~Posts(r[i], c)) /\ Attended(r, q, c)
  BY <1>2, <1>3, <1>5, <1>6 DEF WithoutHandler
<1>8. 1 \in DOMAIN q
  BY <1>7
<1>9. PICK sn \in [Viewers -> Seq(Nat)] : sn = Shown(u, c, items)
  BY <1>1, ShownIs
<1>10. PICK w : w = Taken(u, c, q, sn)
  OBVIOUS
<1>11. /\ PassesOn(u, w) /\ w.written = n /\ w.buffer = u.buffer /\ w.seen = sn
       /\ w.queue[c] = q /\ (\A d \in Casters \ {c} : w.queue[d] = u.queue[d])
       /\ w.io = r
  <2>1. IsTaken(u, w, c, q, sn)
    BY <1>1, <1>10, TakenIs
  <2> QED BY <1>4, <1>6, <2>1 DEF IsTaken
<1>12. Streams(w, c)
  BY <1>4, <1>5, <1>7, <1>11 DEF Streams
<1>13. Rising(items) /\ UpTo(items, n) /\ Below(items, b) /\ Ahead(items, r, q, c)
  <2>1. Rising(items) /\ UpTo(items, n) /\ Below(items, b)
    BY <1>5, <1>7, <1>8 DEF Ascending
  <2>2. \A j \in DOMAIN q : j > 1 => Below(items, q[j].items)
    BY <1>5, <1>7, <1>8 DEF Ascending
  <2> QED BY <1>7, <2>1, <2>2 DEF Ahead
<1>14. \A k : Underway(u, c, k) <=> Underway(w, c, k) \/ k \in ToSet(items)
  <2>1. \A k : Posted(u.io, c, k) <=> Posted(r, c, k) \/ k \in ToSet(items)
    BY <1>2, <1>3, <1>5, <1>6 DEF WithoutHandler
  <2> QED BY <1>4, <1>11, <2>1 DEF Underway
<1>15. \A s : Ahead(s, u.io, q, c) => Below(s, items) /\ Ahead(s, r, q, c)
  BY <1>2, <1>3, <1>5, <1>6 DEF WithoutHandler
<1>16. \A v \in Viewers :
         w.seen[v] = IF v \in u.spectators[c] /\ Open(u, v) THEN u.seen[v] \o items ELSE u.seen[v]
  <2>1. ASSUME NEW v \in Viewers
        PROVE  Shown(u, c, items)[v] = IF v \in u.spectators[c] /\ Open(u, v) THEN u.seen[v] \o items ELSE u.seen[v]
    BY Zenon DEF Shown
  <2> QED BY <1>9, <1>11, <2>1, Zenon
<1>17. Delivers(u, w, c, items)
  BY <1>3, <1>4, <1>6, <1>11, <1>12, <1>13, <1>14, <1>15, <1>16 DEF Delivers
<1>18. Casting(w)
  BY <1>17, DeliversKeeps
<1>19. Broadcast([u EXCEPT !.io = Tail(@)], c, items) = w
  <2>1. PICK y : y = [u EXCEPT !.io = r]
    OBVIOUS
  <2>2. y.seen = u.seen /\ y.spectators = u.spectators /\ y.conn = u.conn
    BY <1>1, <2>1 DEF CastStates
  <2>3. Broadcast(y, c, items) = [y EXCEPT !.seen = sn]
    BY <1>9, <2>2 DEF Broadcast, Shown, Open
  <2>4. w = [u EXCEPT !.io = r, !.queue = u.queue, !.seen = sn]
    <3>1. [u.queue EXCEPT ![c] = q] = u.queue
      BY <1>1, <1>4 DEF CastStates
    <3> QED BY <1>6, <1>10, <3>1 DEF Taken
  <2>5. [y EXCEPT !.seen = sn] = [u EXCEPT !.io = r, !.queue = u.queue, !.seen = sn]
    BY <1>1, <2>1 DEF CastStates
  <2> QED BY <1>6, <2>1, <2>3, <2>4, <2>5
<1> QED BY <1>3, <1>18, <1>19

\* A message less: the first, that is written.
WithoutMessage(q, p) ==
  /\ p \in Seq(CastMessages) /\ q # << >> /\ (p # << >> => p[1] \in CastMessages /\ 1 \in DOMAIN p)
  /\ \A b, n : Ascending(q, b, n) => Ascending(p, b, n)
  /\ \A k : Queued(q, k) <=> Queued(p, k) \/ (p # << >> /\ p[1].all /\ k \in ToSet(p[1].items))
  /\ \A s, io, c : Ahead(s, io, q, c) => Ahead(s, io, p, c) /\ (p # << >> => Below(s, p[1].items))

LEMMA MessageLess ==
  ASSUME NEW q \in Seq(CastMessages), q # << >>, NEW p, p = Tail(q)
  PROVE  WithoutMessage(q, p)
<1>1. /\ p \in Seq(CastMessages) /\ 1 \in DOMAIN q
      /\ \A i \in DOMAIN p : i + 1 \in DOMAIN q /\ i + 1 > 1 /\ p[i] = q[i + 1]
      /\ \A i \in DOMAIN q : i = 1 \/ (i - 1 \in DOMAIN p /\ q[i] = p[i - 1])
  BY QueueShorter
<1>2. \A i \in DOMAIN p : i \in Int /\ i >= 1
  BY <1>1
<1>3. \A i \in DOMAIN q : i \in Int /\ i >= 1
  OBVIOUS
<1>4. p # << >> => p[1] \in CastMessages /\ 1 \in DOMAIN p
  BY <1>1
<1>5. ASSUME NEW b, NEW n, Ascending(q, b, n) PROVE Ascending(p, b, n)
  <2>1. \A j \in DOMAIN p : Rising(p[j].items) /\ UpTo(p[j].items, n) /\ Below(p[j].items, b)
    BY <1>1, <1>5 DEF Ascending
  <2>2. ASSUME NEW j \in DOMAIN p, NEW k \in DOMAIN p, j < k PROVE Below(p[j].items, p[k].items)
    <3>1. j + 1 \in DOMAIN q /\ k + 1 \in DOMAIN q /\ p[j] = q[j + 1] /\ p[k] = q[k + 1] /\ j + 1 < k + 1
      BY <1>1, <1>2, <2>2
    <3> QED BY <1>5, <3>1 DEF Ascending
  <2> QED BY <1>5, <2>1, <2>2 DEF Ascending
<1>6. ASSUME NEW k
      PROVE  Queued(q, k) <=> Queued(p, k) \/ (p # << >> /\ p[1].all /\ k \in ToSet(p[1].items))
  <2>1. ASSUME Queued(q, k) PROVE Queued(p, k) \/ (p # << >> /\ p[1].all /\ k \in ToSet(p[1].items))
    <3>1. PICK j \in DOMAIN q : j > 1 /\ q[j].all /\ k \in ToSet(q[j].items)
      BY <2>1 DEF Queued
    <3>2. PICK i \in DOMAIN p : i = j - 1 /\ p[i] = q[j]
      BY <1>1, <1>3, <3>1
    <3>3. p # << >> /\ (i > 1 \/ i = 1)
      BY <1>2, <3>2
    <3> QED BY <3>1, <3>2, <3>3 DEF Queued
  <2>2. ASSUME Queued(p, k) PROVE Queued(q, k)
    <3>1. PICK i \in DOMAIN p : i > 1 /\ p[i].all /\ k \in ToSet(p[i].items)
      BY <2>2 DEF Queued
    <3> QED BY <1>1, <3>1 DEF Queued
  <2>3. ASSUME p # << >>, p[1].all, k \in ToSet(p[1].items) PROVE Queued(q, k)
    <3>1. PICK i \in DOMAIN p : i = 1
      BY <1>4, <2>3
    <3> QED BY <1>1, <2>3, <3>1 DEF Queued
  <2> QED BY <2>1, <2>2, <2>3
<1>7. ASSUME NEW s, NEW io, NEW c, Ahead(s, io, q, c)
      PROVE  Ahead(s, io, p, c) /\ (p # << >> => Below(s, p[1].items))
  <2>1. ASSUME NEW i \in DOMAIN p PROVE Below(s, p[i].items)
    BY <1>1, <1>7 DEF Ahead
  <2> QED BY <1>4, <1>7, <2>1 DEF Ahead
<1> QED BY <1>1, <1>4, <1>5, <1>6, <1>7 DEF WithoutMessage

\* The next message of a queue is begun.
Resumed(u, c) ==
  IF u.queue[c] # << >> /\ Head(u.queue[c]).all THEN Broadcast(u, c, Head(u.queue[c]).items) ELSE u

\* Connection::onWriteOperation, without an error
LEMMA WrittenKeeps ==
  ASSUME NEW u, Casting(u), u.io # << >>, NEW h, h = Head(u.io), h.do = "written"
  PROVE  Casting(NextWritten([u EXCEPT !.io = Tail(@)], h.client))
<1>1. u \in CastStates /\ Linked(u) /\ u.io \in Seq(Handlers)
  BY DEF Casting, CastStates
<1>2. PICK r : r = Tail(u.io)
  OBVIOUS
<1>3. WithoutHandler(u.io, h, r)
  BY <1>1, <1>2, HandlerLess
<1>4. PICK c \in Casters : c = h.client
  BY <1>3 DEF WithoutHandler, Handlers
<1>5. PICK q \in Seq(CastMessages), n \in Nat, b \in Seq(Nat) : q = u.queue[c] /\ n = u.written /\ b = u.buffer[c].items
  BY <1>1 DEF CastStates, CastMessages
<1>6. Attended(u.io, q, c) /\ Ascending(q, b, n)
  BY <1>5 DEF Casting, Streams
<1>7. q # << >>
  <2>1. 1 \in DOMAIN u.io /\ u.io[1] = h
    BY <1>1
  <2> QED BY <1>4, <1>6, <2>1 DEF Attended
<1>8. (\A i \in DOMAIN r : r[i].client # c) /\ ~Posts(h, c)
  BY <1>3, <1>4, <1>6 DEF WithoutHandler, Posts
<1>9. PICK p : p = Tail(q)
  OBVIOUS
<1>10. WithoutMessage(q, p)
  BY <1>7, <1>9, MessageLess
<1>11. p \in Seq(CastMessages) /\ Ascending(p, b, n) /\ (p # << >> => p[1] \in CastMessages /\ 1 \in DOMAIN p)
  BY <1>6, <1>10 DEF WithoutMessage
<1>12. PICK items : items = IF p # << >> /\ p[1].all THEN p[1].items ELSE << >>
  OBVIOUS
<1>13. /\ items \in Seq(Nat) /\ Rising(items) /\ UpTo(items, n) /\ Below(items, b)
       /\ \A k : Queued(q, k) <=> Queued(p, k) \/ k \in ToSet(items)
       /\ \A s : Ahead(s, u.io, q, c) => Below(s, items)
       /\ \A j \in DOMAIN p : j > 1 => Below(items, p[j].items)
  <2>1. CASE p # << >> /\ p[1].all
    <3>1. items = p[1].items /\ 1 \in DOMAIN p
      BY <1>11, <1>12, <2>1
    <3>2. items \in Seq(Nat) /\ Rising(items) /\ UpTo(items, n) /\ Below(items, b)
      BY <1>11, <2>1, <3>1 DEF CastMessages, Ascending
    <3>3. \A j \in DOMAIN p : j > 1 => Below(items, p[j].items)
      BY <1>11, <3>1 DEF Ascending
    <3>4. \A k : Queued(q, k) <=> Queued(p, k) \/ k \in ToSet(items)
      BY <1>10, <2>1, <3>1 DEF WithoutMessage
    <3>5. \A s : Ahead(s, u.io, q, c) => Below(s, items)
      BY <1>10, <2>1, <3>1 DEF WithoutMessage
    <3> QED BY <3>2, <3>3, <3>4, <3>5
  <2>2. CASE ~(p # << >> /\ p[1].all)
    <3>1. items = Blank.items
      BY <1>12, <2>2 DEF Blank
    <3>2. Blank.items \in Seq(Nat)
      BY BlankIs DEF CastMessages
    <3>3. \A k : Queued(q, k) <=> Queued(p, k)
      BY <1>10, <2>2 DEF WithoutMessage
    <3> QED BY <3>1, <3>2, <3>3, BlankIs
  <2> QED BY <2>1, <2>2
<1>14. PICK sn \in [Viewers -> Seq(Nat)] : sn = Shown(u, c, items)
  BY <1>1, <1>13, ShownIs
<1>15. PICK w : w = Taken(u, c, p, sn)
  OBVIOUS
<1>16. /\ PassesOn(u, w) /\ w.written = n /\ w.buffer = u.buffer /\ w.seen = sn
       /\ w.queue[c] = p /\ (\A d \in Casters \ {c} : w.queue[d] = u.queue[d])
       /\ w.io = r
  <2>1. IsTaken(u, w, c, p, sn)
    BY <1>1, <1>11, <1>15, TakenIs
  <2> QED BY <1>2, <1>5, <2>1 DEF IsTaken
<1>17. Streams(w, c)
  <2>1. Attended(r, p, c)
    BY <1>8 DEF Attended, Posts
  <2> QED BY <1>5, <1>11, <1>16, <2>1 DEF Streams
<1>18. Ahead(items, r, p, c)
  BY <1>8, <1>13 DEF Ahead, Posts
<1>19. \A k : Underway(u, c, k) <=> Underway(w, c, k) \/ k \in ToSet(items)
  <2>1. \A k : ~Posted(u.io, c, k) /\ ~Posted(r, c, k)
    BY <1>3, <1>8 DEF WithoutHandler, Posted, Posts
  <2> QED BY <1>5, <1>13, <1>16, <2>1 DEF Underway
<1>20. \A s : Ahead(s, u.io, q, c) => Below(s, items) /\ Ahead(s, r, p, c)
  BY <1>3, <1>10, <1>13 DEF WithoutHandler, WithoutMessage
<1>21. \A v \in Viewers :
         w.seen[v] = IF v \in u.spectators[c] /\ Open(u, v) THEN u.seen[v] \o items ELSE u.seen[v]
  <2>1. ASSUME NEW v \in Viewers
        PROVE  Shown(u, c, items)[v] = IF v \in u.spectators[c] /\ Open(u, v) THEN u.seen[v] \o items ELSE u.seen[v]
    BY Zenon DEF Shown
  <2> QED BY <1>14, <1>16, <2>1, Zenon
<1>22. Below(items, b) /\ UpTo(items, n) /\ Rising(items) /\ items \in Seq(Nat)
  BY <1>13
<1>23. Delivers(u, w, c, items)
  BY <1>2, <1>4, <1>5, <1>16, <1>17, <1>18, <1>19, <1>20, <1>21, <1>22 DEF Delivers
<1>24. Casting(w)
  BY <1>23, DeliversKeeps
<1>25. NextWritten([u EXCEPT !.io = Tail(@)], c) = w
  <2>1. PICK qs : qs = [u.queue EXCEPT ![c] = p]
    OBVIOUS
  <2>2. PICK y : y = [u EXCEPT !.io = r, !.queue = qs]
    OBVIOUS
  <2>3. w = [y EXCEPT !.seen = sn]
    BY <1>1, <1>2, <1>15, <2>1, <2>2 DEF Taken, CastStates
  <2>4. qs[c] = p /\ y.queue = qs /\ y.seen = u.seen /\ y.spectators = u.spectators /\ y.conn = u.conn
    BY <1>1, <2>1, <2>2 DEF CastStates
  <2>5. [[u EXCEPT !.io = Tail(@)] EXCEPT !.queue[c] = Tail(@)] = y
    <3>1. PICK z : z = [u EXCEPT !.io = r]
      OBVIOUS
    <3>2. z.queue = u.queue
      BY <1>1, <3>1 DEF CastStates
    <3>3. [z EXCEPT !.queue[c] = Tail(@)] = [z EXCEPT !.queue = qs]
      BY <1>5, <1>9, <2>1, <3>2
    <3> QED BY <1>1, <1>2, <2>2, <3>1, <3>3 DEF CastStates
  <2>6. NextWritten([u EXCEPT !.io = Tail(@)], c)
        = IF p # << >> /\ Head(p).all THEN Broadcast(y, c, Head(p).items) ELSE y
    <3>1. y.queue[c] = p
      BY <2>4
    <3>2. PICK z : z = [u EXCEPT !.io = Tail(@)]
      OBVIOUS
    <3>3. [z EXCEPT !.queue[c] = Tail(@)] = y
      BY <2>5, <3>2, Zenon
    <3>4. NextWritten(z, c) = Resumed([z EXCEPT !.queue[c] = Tail(@)], c)
      BY Zenon DEF NextWritten, Resumed
    <3>5. NextWritten(z, c) = Resumed(y, c)
      BY <3>3, <3>4, Zenon
    <3>6. Resumed(y, c) = IF p # << >> /\ Head(p).all THEN Broadcast(y, c, Head(p).items) ELSE y
      BY <3>1, Zenon DEF Resumed
    <3> QED BY <3>2, <3>5, <3>6, Zenon
  <2>7. CASE p # << >> /\ p[1].all
    <3>1. Head(p) = p[1] /\ items = p[1].items
      BY <1>11, <1>12, <2>7
    <3>2. Broadcast(y, c, items) = [y EXCEPT !.seen = sn]
      BY <1>14, <2>4 DEF Broadcast, Shown, Open
    <3> QED BY <2>3, <2>6, <2>7, <3>1, <3>2
  <2>8. CASE ~(p # << >> /\ p[1].all)
    <3>1. items = << >>
      BY <1>12, <2>8
    <3>2. \A v \in Viewers : u.seen[v] \in Seq(Nat)
      BY <1>1 DEF CastStates
    <3>3. \A v \in Viewers : u.seen[v] \o items = u.seen[v]
      BY <3>1, <3>2
    <3>4. sn = u.seen
      <4>1. \A v \in Viewers : sn[v] = u.seen[v]
        BY <1>16, <1>21, <3>3
      <4> QED BY <1>1, <4>1 DEF CastStates
    <3>5. [y EXCEPT !.seen = sn] = y
      BY <1>1, <2>2, <2>4, <3>4 DEF CastStates
    <3>6. p # << >> => Head(p) = p[1]
      BY <1>11
    <3> QED BY <2>3, <2>6, <2>8, <3>5, <3>6
  <2> QED BY <2>7, <2>8
<1> QED BY <1>4, <1>24, <1>25

\* The writing of a message to a closed connection fails, and the queue is emptied.
LEMMA FailedKeeps ==
  ASSUME NEW u, Casting(u), u.io # << >>, NEW h, h = Head(u.io), h.do = "written",
         NEW c \in Casters, c = h.client, ~Open(u, c)
  PROVE  Casting(Taken(u, c, << >>, u.seen))
<1>1. u \in CastStates /\ Linked(u) /\ u.io \in Seq(Handlers)
  BY DEF Casting, CastStates
<1>2. PICK r : r = Tail(u.io)
  OBVIOUS
<1>3. WithoutHandler(u.io, h, r)
  BY <1>1, <1>2, HandlerLess
<1>4. PICK q \in Seq(CastMessages), n \in Nat, b \in Seq(Nat) : q = u.queue[c] /\ n = u.written /\ b = u.buffer[c].items
  BY <1>1 DEF CastStates, CastMessages
<1>5. Attended(u.io, q, c) /\ Ascending(q, b, n)
  BY <1>4 DEF Casting, Streams
<1>6. (\A i \in DOMAIN r : r[i].client # c) /\ ~Posts(h, c) /\ \A d \in Casters \ {c} : ~Posts(h, d)
  BY <1>3, <1>5 DEF WithoutHandler, Posts
<1>7. PICK e \in Seq(CastMessages) : e = << >>
  <2>1. << >> \in Seq(CastMessages)
    OBVIOUS
  <2> QED BY <2>1
<1>8. DOMAIN e = {}
  BY <1>7
<1>9. PICK w : w = Taken(u, c, e, u.seen)
  OBVIOUS
<1>10. /\ PassesOn(u, w) /\ w.written = n /\ w.buffer = u.buffer /\ w.seen = u.seen
       /\ w.queue[c] = e /\ (\A d \in Casters \ {c} : w.queue[d] = u.queue[d])
       /\ w.io = r
  <2>1. u.seen \in [Viewers -> Seq(Nat)]
    BY <1>1 DEF CastStates
  <2>2. IsTaken(u, w, c, e, u.seen)
    BY <1>1, <1>9, <2>1, TakenIs
  <2> QED BY <1>2, <1>4, <2>2 DEF IsTaken
<1>11. ASSUME NEW d \in Casters, d # c PROVE SameStream(u, w, d)
  <2>1. w.queue[d] = u.queue[d] /\ w.buffer[d] = u.buffer[d] /\ ~Posts(h, d)
    BY <1>6, <1>10, <1>11
  <2> QED BY <1>3, <1>10, <2>1 DEF SameStream, WithoutHandler
<1>12. ASSUME NEW d \in Casters PROVE Streams(w, d)
  <2>1. CASE d = c
    <3>1. Attended(r, e, c)
      BY <1>6, <1>8 DEF Attended, Posts
    <3>2. Ascending(e, b, n)
      BY <1>5, <1>8 DEF Ascending
    <3> QED BY <1>4, <1>10, <2>1, <3>1, <3>2 DEF Streams
  <2>2. CASE d # c
    BY <1>1, <1>4, <1>10, <1>11, <2>2, SameFollows DEF Casting
  <2> QED BY <2>1, <2>2
<1>13. ASSUME NEW v \in Viewers, v \in w.watching, Open(w, v)
       PROVE  Follows(w, v)
  <2>1. /\ v \in u.watching /\ Open(u, v) /\ w.of = u.of /\ w.since = u.since /\ w.conn = u.conn
        /\ u.of[v] \in Casters /\ Follows(u, v)
    BY <1>1, <1>10, <1>13 DEF PassesOn, LinkSame, Open, Casting, Linked, CastStates
  <2>2. CASE u.of[v] # c
    BY <1>1, <1>4, <1>10, <1>11, <2>1, <2>2, SameFollows
  <2>3. CASE u.of[v] = c
    <3>1. PICK x \in Seq(Nat), a \in Nat : x = u.seen[v] /\ a = u.since[v]
      BY <1>1 DEF CastStates
    <3>2. /\ Rising(x) /\ UpTo(x, n) /\ Below(x, b) /\ Ahead(x, u.io, q, c) /\ NoGap(u, v, c)
      BY <1>4, <2>1, <2>3, <3>1 DEF Follows, SeenBefore
    <3>3. SeenBefore(w, v, c)
      <4>1. Ahead(x, r, e, c)
        BY <1>6, <1>8 DEF Ahead, Posts
      <4> QED BY <1>4, <1>10, <3>1, <3>2, <4>1 DEF SeenBefore
    <3> DEFINE S == {k \in Nat : k \in ToSet(x)}
               T == {k \in Nat : Queued(q, k)}
    <3>4. \A k \in S, l \in T : k < l
      <4>1. \A j \in DOMAIN q : j > 1 => Below(x, q[j].items)
        BY <3>2 DEF Ahead
      <4> QED BY <4>1 DEF Queued, Below, ToSet
    <3>5. \A k \in Nat : Shows(w, v, k) <=> k \in S
      <4>1. \A k : ~Underway(w, c, k)
        BY <1>6, <1>8, <1>10 DEF Underway, Posted, Queued, Posts
      <4>2. ~Open(w, c) /\ w.of[v] = c /\ w.seen[v] = x
        BY <1>10, <2>1, <2>3, <3>1 DEF Open
      <4>3. \A k : Shows(w, v, k) <=> k \in ToSet(x)
        BY <4>1, <4>2 DEF Shows, Coming
      <4> QED BY <4>3
    <3>6. \A k \in Nat : Shows(u, v, k) <=> k \in S \union T
      <4>1. \A k : ~Posted(u.io, c, k)
        <5>1. \A k : ~Posted(r, c, k)
          BY <1>6 DEF Posted, Posts
        <5>2. \A k : Posted(u.io, c, k) <=> Posted(r, c, k) \/ (Posts(h, c) /\ k \in ToSet(h.items))
          BY <1>3, Zenon DEF WithoutHandler
        <5> QED BY <1>6, <5>1, <5>2
      <4>2. \A k : Underway(u, c, k) <=> Queued(q, k)
        BY <1>4, <4>1 DEF Underway
      <4>3. \A k : Shows(u, v, k) <=> k \in ToSet(x) \/ Queued(q, k)
        BY <2>3, <3>1, <4>2 DEF Shows, Coming
      <4> QED BY <4>3
    <3> HIDE DEF S, T
    <3>7. \A k \in a + 1 .. n : k \in Nat /\ \A l \in a + 1 .. k : l \in Nat
      OBVIOUS
    <3>8. \A k \in a + 1 .. n : k \in S \union T => \A l \in a + 1 .. k : l \in S \union T
      BY <1>4, <3>1, <3>2, <3>6, <3>7 DEF NoGap
    <3>9. \A k \in a + 1 .. n : k \in S => \A l \in a + 1 .. k : l \in S
      BY <3>4, <3>8, FirstPart
    <3>10. NoGap(w, v, c)
      BY <1>4, <1>10, <2>1, <3>1, <3>5, <3>7, <3>9 DEF NoGap, Open
    <3> QED BY <2>1, <2>3, <3>3, <3>10 DEF Follows
  <2> QED BY <2>2, <2>3
<1>14. \A v \in Viewers : Follows(w, v)
  BY <1>13 DEF Follows
<1>15. Casting(w)
  BY <1>10, <1>12, <1>14, PassedCasting
<1> QED BY <1>7, <1>9, <1>15

\* Connection::onWriteOperation, with an error
LEMMA LostKeeps ==
  ASSUME NEW u, Casting(u), u.io # << >>, NEW h, h = Head(u.io), h.do = "written"
  PROVE  Casting(Disconnected([[u EXCEPT !.io = Tail(@)] EXCEPT !.queue[h.client] = << >>], h.client))
<1>1. u \in CastStates /\ u.io \in Seq(Handlers)
  BY DEF Casting, CastStates
<1>2. h \in Handlers
  <2>1. WithoutHandler(u.io, h, Tail(u.io))
    BY <1>1, HandlerLess
  <2> QED BY <2>1 DEF WithoutHandler
<1>3. PICK c \in Casters : c = h.client
  BY <1>2 DEF Handlers
<1>4. PICK z : z = Disconnected(u, c)
  OBVIOUS
<1>5. /\ Casting(z) /\ z.io = u.io /\ z.queue = u.queue /\ z.seen = u.seen /\ ~Open(z, c)
  BY <1>1, <1>4, DisconnectedKeeps, DisconnectedIs DEF Calm, Undisturbed, Protocols
<1>6. PICK w : w = Taken(z, c, << >>, z.seen)
  OBVIOUS
<1>7. Casting(w)
  BY <1>3, <1>5, <1>6, FailedKeeps
<1>8. PICK r, qs : r = Tail(u.io) /\ qs = [u.queue EXCEPT ![c] = << >>]
  OBVIOUS
<1>9. PICK y : y = [u EXCEPT !.io = r, !.queue = qs]
  OBVIOUS
<1>10. [[u EXCEPT !.io = Tail(@)] EXCEPT !.queue[c] = << >>] = y
  BY <1>1, <1>8, <1>9 DEF CastStates
<1>11. y.conn = u.conn /\ y.tasks = u.tasks
  BY <1>1, <1>9 DEF CastStates
<1>12. w = [z EXCEPT !.io = r, !.queue = qs]
  <2>1. z \in CastStates
    BY <1>5 DEF Casting
  <2> QED BY <1>5, <1>6, <1>8, <2>1 DEF Taken, CastStates
<1>13. Disconnected(y, c) = w
  <2>1. PICK ts, cn : ts = [u.tasks EXCEPT ![c] = Append(@, "release")] /\ cn = [u.conn EXCEPT ![c] = "closed"]
    OBVIOUS
  <2>2. CASE Open(u, c)
    <3>1. z = [u EXCEPT !.tasks = ts, !.conn = cn]
      BY <1>1, <1>4, <2>1, <2>2 DEF Disconnected, Handed, CastStates
    <3>2. Disconnected(y, c) = [[y EXCEPT !.tasks[c] = Append(@, "release")] EXCEPT !.conn[c] = "closed"]
      BY <1>11, <2>2 DEF Disconnected, Handed, Open
    <3>3. [[y EXCEPT !.tasks[c] = Append(@, "release")] EXCEPT !.conn[c] = "closed"]
          = [y EXCEPT !.tasks = ts, !.conn = cn]
      BY <1>1, <1>9, <1>11, <2>1 DEF CastStates
    <3>4. [y EXCEPT !.tasks = ts, !.conn = cn] = [u EXCEPT !.io = r, !.queue = qs, !.tasks = ts, !.conn = cn]
      BY <1>1, <1>9 DEF CastStates
    <3>5. [z EXCEPT !.io = r, !.queue = qs] = [u EXCEPT !.io = r, !.queue = qs, !.tasks = ts, !.conn = cn]
      BY <1>1, <3>1 DEF CastStates
    <3> QED BY <1>12, <3>2, <3>3, <3>4, <3>5, Zenon
  <2>3. CASE ~Open(u, c)
    <3>1. z = u
      BY <1>4, <2>3 DEF Disconnected
    <3>2. Disconnected(y, c) = y
      BY <1>11, <2>3 DEF Disconnected, Open
    <3> QED BY <1>9, <1>12, <3>1, <3>2
  <2> QED BY <2>2, <2>3
<1> QED BY <1>3, <1>7, <1>10, <1>13

\* io_service.run
LEMMA CastHandler ==
  ASSUME CastInv, RunHandler
  PROVE  CastInv'
<1>1. PICK h : h = Head(air.io)
  OBVIOUS
<1>2. PICK u : u = [air EXCEPT !.io = Tail(@)]
  OBVIOUS
<1>3. Casting(air) /\ air.io # << >>
  BY DEF CastInv, RunHandler
<1>4. CASE h.do = "broadcast" /\ air' = Broadcast(u, h.client, h.items)
  <2>1. Casting(Broadcast(u, h.client, h.items))
    BY <1>1, <1>2, <1>3, <1>4, BroadcastKeeps
  <2> QED BY <1>4, <2>1 DEF CastInv
<1>5. CASE h.do = "written" /\ air' = NextWritten(u, h.client)
  <2>1. Casting(NextWritten(u, h.client))
    BY <1>1, <1>2, <1>3, <1>5, WrittenKeeps
  <2> QED BY <1>5, <2>1 DEF CastInv
<1>6. CASE h.do = "written" /\ air' = Disconnected([u EXCEPT !.queue[h.client] = << >>], h.client)
  <2>1. Casting(Disconnected([[air EXCEPT !.io = Tail(@)] EXCEPT !.queue[h.client] = << >>], h.client))
    BY <1>1, <1>3, <1>6, LostKeeps
  <2>2. air' = Disconnected([[air EXCEPT !.io = Tail(@)] EXCEPT !.queue[h.client] = << >>], h.client)
    BY <1>2, <1>6, Zenon
  <2> QED BY <2>1, <2>2 DEF CastInv
<1> QED BY <1>1, <1>2, <1>4, <1>5, <1>6 DEF RunHandler

\* At first nobody watches and nothing was written.
LEMMA CastInvInit ==
  ASSUME LiveCastAssumption, LiveCastInit
  PROVE  CastInv
<1>1. /\ air \in CastStates
      /\ air.life = "in" /\ air.refs = 1 /\ air.client = Off /\ air.caster = {} /\ air.listed = Off
      /\ air.row = Off /\ air.watching = {} /\ air.begun = {} /\ air.io = << >> /\ air.written = 0
      /\ (\A c \in Casters : air.spectators[c] = {} /\ air.buffer[c] = Blank /\ air.queue[c] = << >>)
      /\ (\A v \in Viewers : air.seen[v] = << >>)
      /\ (\A p \in Protocols : air.tasks[p] = << >>)
  <2>1. Blank \in CastMessages /\ << >> \in Seq(Errands) /\ << >> \in Seq(CastMessages) /\ << >> \in Seq(Handlers)
        /\ << >> \in Seq(Nat)
    BY BlankIs
  <2> QED BY <2>1 DEF LiveCastInit, CastStates
<1>2. DOMAIN << >> = {}
  OBVIOUS
<1>3. Linked(air)
  <2>1. Cardinality({}) = 0 /\ IsFiniteSet({})
    BY FS_EmptySet
  <2> QED BY <1>1, <2>1 DEF Linked
<1>4. ASSUME NEW v \in Viewers PROVE LogsIn(air, v) /\ Follows(air, v)
  <2>1. air.tasks[v] = << >>
    BY <1>1 DEF Protocols
  <2> QED BY <1>1, <1>2, <2>1 DEF LogsIn, Follows, Has, Once
<1>5. ASSUME NEW c \in Casters PROVE Streams(air, c) /\ ~Has(air.tasks[c])
  <2>1. air.tasks[c] = << >>
    BY <1>1 DEF Protocols
  <2>2. Attended(air.io, air.queue[c], c)
    BY <1>1, <1>2 DEF Attended
  <2>3. Ascending(air.queue[c], air.buffer[c].items, air.written)
    BY <1>1, <1>2, BlankIs DEF Ascending
  <2> QED BY <1>2, <2>1, <2>2, <2>3 DEF Streams, Has
<1> QED BY <1>1, <1>3, <1>4, <1>5 DEF CastInv, Casting

LEMMA CastInvNext ==
  ASSUME LiveCastAssumption, CastInv, [LiveCastNext]_air
  PROVE  CastInv'
<1>1. ASSUME NEW c \in Casters,
             \/ Connect(c) \/ Write(c) \/ Ping(c) \/ Sweep(c) \/ StartCast(c) \/ StopCast(c) \/ LogOff(c)
             \/ ClientPacket(c) \/ WriteEnds(c)
      PROVE  CastInv'
  BY <1>1, CastConnect, CastWrite, CastPing, CastSweep, CastStart, CastStop, CastLogOff, CastPackets,
     CastWriteEnds
<1>2. ASSUME NEW v \in Viewers, FirstPacket(v) \/ ViewerPacket(v) PROVE CastInv'
  BY <1>2, CastFirst, CastPackets
<1>3. ASSUME NEW p \in Protocols, RunTask(p) \/ HangUp(p) PROVE CastInv'
  BY <1>3, CastTask, CastHangUp
<1>4. CASE Die \/ Cleanup \/ RunHandler
  BY <1>4, CastLife, CastHandler
<1>5. CASE UNCHANGED air
  BY <1>5 DEF CastInv
<1> QED BY <1>1, <1>2, <1>3, <1>4, <1>5 DEF LiveCastNext

LEMMA WatchersKnown ==
  ASSUME LiveCastAssumption, CastInv
  PROVE  WatchersAgree
<1>1. air \in CastStates /\ Linked(air)
  BY DEF CastInv, Casting
<1>2. air.caster \subseteq air.owner \intersect {air.client}
  BY <1>1 DEF Linked, CastStates, LiveCastAssumption
<1>3. ASSUME NEW c \in Casters
      PROVE  /\ air.spectators[c] = {v \in air.watching : air.of[v] = c}
             /\ air.spectators[c] # {} => c \in air.caster
  BY <1>1 DEF Linked
<1>4. air.refs = (IF air.life \in {"in", "removed"} THEN 1 ELSE 0)
                 + (IF air.client = Off THEN 0 ELSE 1) + Cardinality(air.watching)
  <2>1. air.life \in {"in", "removed"} <=> air.life # "cleaned"
    BY <1>1 DEF CastStates
  <2> QED BY <1>1, <2>1 DEF Linked
<1>5. air.row = IF air.listed = Off THEN Off ELSE Cardinality(air.spectators[air.listed])
  <2>1. CASE air.listed = Off
    BY <1>1, <2>1 DEF Linked
  <2>2. CASE air.listed # Off
    <3>1. PICK c \in Casters : c = air.listed
      BY <1>1, <2>2 DEF CastStates
    <3>2. c \in air.caster
      BY <1>1, <2>2, <3>1 DEF Linked
    <3>3. air.spectators[c] = air.watching
      BY <1>1, <3>2, OneCast
    <3> QED BY <1>1, <2>2, <3>1, <3>3 DEF Linked
  <2> QED BY <2>1, <2>2
<1> QED BY <1>1, <1>2, <1>3, <1>4, <1>5 DEF WatchersAgree, Linked

-----------------------------------------------------------------------------

\* A list behind another.
Behind(s, t, z) ==
  /\ DOMAIN z = 1..(Len(s) + Len(t)) /\ Len(z) = Len(s) + Len(t)
  /\ \A i \in 1..Len(s) : z[i] = s[i]
  /\ \A j \in 1..Len(t) : z[Len(s) + j] = t[j]

LEMMA BehindIs ==
  ASSUME NEW S, NEW s \in Seq(S), NEW t \in Seq(S)
  PROVE  s \o t \in Seq(S) /\ Behind(s, t, s \o t)
<1>1. PICK z : z = s \o t
  OBVIOUS
<1>2. /\ z \in Seq(S) /\ Len(z) = Len(s) + Len(t) /\ Len(s) \in Nat /\ Len(t) \in Nat
      /\ \A i \in 1..(Len(s) + Len(t)) : z[i] = IF i <= Len(s) THEN s[i] ELSE t[i - Len(s)]
  BY <1>1, ConcatProperties
<1>3. PICK a \in Nat, b \in Nat : a = Len(s) /\ b = Len(t)
  BY <1>2
<1>4. ASSUME NEW i \in 1..a PROVE z[i] = s[i]
  <2>1. i \in 1..(a + b) /\ i <= a
    OBVIOUS
  <2> QED BY <1>2, <1>3, <2>1, Zenon
<1>5. ASSUME NEW j \in 1..b PROVE z[a + j] = t[j]
  <2>1. a + j \in 1..(a + b) /\ ~(a + j <= a) /\ (a + j) - a = j
    OBVIOUS
  <2>2. z[a + j] = t[(a + j) - a]
    BY <1>2, <1>3, <2>1, Zenon
  <2> QED BY <2>1, <2>2
<1>6. DOMAIN z = 1..(a + b)
  BY <1>2, <1>3
<1> QED BY <1>1, <1>2, <1>3, <1>4, <1>5, <1>6 DEF Behind

\* Four lists, one behind another.
Chain(s, A, B, l, a, b, z) ==
  /\ a = Len(A) /\ b = Len(B) /\ DOMAIN z = 1..(a + b + 2)
  /\ z[1] = s /\ z[a + b + 2] = l
  /\ \A i \in 1..a : z[1 + i] = A[i]
  /\ \A j \in 1..b : z[1 + a + j] = B[j]

LEMMA Chained ==
  ASSUME NEW S, NEW s \in S, NEW A \in Seq(S), NEW B \in Seq(S), NEW l \in S
  PROVE  \E a \in Nat, b \in Nat : Chain(s, A, B, l, a, b, <<s>> \o (A \o B \o <<l>>))
<1>1. PICK a \in Nat, b \in Nat : a = Len(A) /\ b = Len(B)
  OBVIOUS
<1>2. PICK f, g : f = <<s>> /\ g = <<l>>
  OBVIOUS
<1>3. f \in Seq(S) /\ g \in Seq(S) /\ Len(f) = 1 /\ Len(g) = 1 /\ f[1] = s /\ g[1] = l
  BY <1>2
<1>4. PICK C : C = A \o B
  OBVIOUS
<1>5. C \in Seq(S) /\ Behind(A, B, C)
  BY <1>4, BehindIs
<1>6. PICK D : D = C \o g
  OBVIOUS
<1>7. D \in Seq(S) /\ Behind(C, g, D)
  BY <1>3, <1>5, <1>6, BehindIs
<1>8. PICK z : z = f \o D
  OBVIOUS
<1>9. Behind(f, D, z)
  BY <1>3, <1>7, <1>8, BehindIs
<1>10. /\ Len(C) = a + b /\ (\A i \in 1..a : C[i] = A[i]) /\ (\A j \in 1..b : C[a + j] = B[j])
  BY <1>1, <1>5 DEF Behind
<1>11. /\ Len(D) = a + b + 1 /\ (\A i \in 1..(a + b) : D[i] = C[i]) /\ D[a + b + 1] = l
  <2>1. 1 \in 1..1
    OBVIOUS
  <2> QED BY <1>3, <1>7, <1>10, <2>1 DEF Behind
<1>12. /\ DOMAIN z = 1..(a + b + 2) /\ z[1] = s
       /\ \A i \in 1..(a + b + 1) : z[1 + i] = D[i]
  <2>1. 1 \in 1..1 /\ 1 + (a + b + 1) = a + b + 2
    OBVIOUS
  <2> QED BY <1>3, <1>9, <1>11, <2>1 DEF Behind
<1>13. z[a + b + 2] = l
  <2>1. 1 + (a + b + 1) = a + b + 2 /\ a + b + 1 \in 1..(a + b + 1)
    OBVIOUS
  <2>2. z[1 + (a + b + 1)] = l
    BY <1>11, <1>12, <2>1
  <2> QED BY <2>1, <2>2
<1>14. ASSUME NEW i \in 1..a PROVE z[1 + i] = A[i]
  <2>1. i \in 1..(a + b) /\ i \in 1..(a + b + 1)
    OBVIOUS
  <2> QED BY <1>10, <1>11, <1>12, <2>1
<1>15. ASSUME NEW j \in 1..b PROVE z[1 + a + j] = B[j]
  <2>1. a + j \in 1..(a + b) /\ a + j \in 1..(a + b + 1) /\ 1 + (a + j) = 1 + a + j
    OBVIOUS
  <2>2. z[1 + (a + j)] = C[a + j]
    BY <1>11, <1>12, <2>1
  <2> QED BY <1>10, <2>1, <2>2
<1>16. Chain(s, A, B, l, a, b, z)
  BY <1>1, <1>12, <1>13, <1>14, <1>15 DEF Chain
<1> QED BY <1>2, <1>4, <1>6, <1>8, <1>16

\* What the chain is made of stands in it, each list at its place.
LEMMA ChainPlaces ==
  ASSUME NEW s, NEW A, NEW B, NEW l, NEW a \in Nat, NEW b \in Nat, NEW z, Chain(s, A, B, l, a, b, z),
         NEW i \in DOMAIN z
  PROVE  \/ i = 1 /\ z[i] = s
         \/ \E x \in 1..a : i = 1 + x /\ z[i] = A[x]
         \/ \E y \in 1..b : i = 1 + a + y /\ z[i] = B[y]
         \/ i = a + b + 2 /\ z[i] = l
<1>1. i \in 1..(a + b + 2)
  BY DEF Chain
<1>2. CASE i = 1
  BY <1>2 DEF Chain
<1>3. CASE i = a + b + 2
  BY <1>3 DEF Chain
<1>4. CASE 1 < i /\ i <= 1 + a
  <2>1. PICK x \in 1..a : i = 1 + x
    BY <1>1, <1>4
  <2> QED BY <2>1 DEF Chain
<1>5. CASE 1 + a < i /\ i < a + b + 2
  <2>1. i - (1 + a) \in 1..b /\ i = 1 + a + (i - (1 + a))
    BY <1>1, <1>5
  <2>2. PICK y \in 1..b : i = 1 + a + y
    BY <2>1
  <2> QED BY <2>2 DEF Chain
<1> QED BY <1>1, <1>2, <1>3, <1>4, <1>5

\* All items of a list of lists, and one of the first k.
Contents(z) == UNION {ToSet(z[i]) : i \in DOMAIN z}
Among(A, k, n) == \E x \in 1..k : n \in ToSet(A[x])

LEMMA ChainItems ==
  ASSUME NEW s, NEW A, NEW B, NEW l, NEW a \in Nat, NEW b \in Nat, NEW z, Chain(s, A, B, l, a, b, z),
         NEW n
  PROVE  n \in Contents(z) <=> n \in ToSet(s) \/ n \in ToSet(l) \/ Among(A, a, n) \/ Among(B, b, n)
<1>1. ASSUME NEW i \in DOMAIN z, n \in ToSet(z[i])
      PROVE  \/ n \in ToSet(s) \/ n \in ToSet(l)
             \/ \E x \in 1..a : n \in ToSet(A[x])
             \/ \E y \in 1..b : n \in ToSet(B[y])
  BY <1>1, ChainPlaces
<1>2. /\ 1 \in DOMAIN z /\ z[1] = s /\ a + b + 2 \in DOMAIN z /\ z[a + b + 2] = l
      /\ \A x \in 1..a : 1 + x \in DOMAIN z /\ z[1 + x] = A[x]
      /\ \A y \in 1..b : 1 + a + y \in DOMAIN z /\ z[1 + a + y] = B[y]
  BY DEF Chain
<1>3. ASSUME \/ n \in ToSet(s) \/ n \in ToSet(l)
             \/ \E x \in 1..a : n \in ToSet(A[x])
             \/ \E y \in 1..b : n \in ToSet(B[y])
      PROVE  \E i \in DOMAIN z : n \in ToSet(z[i])
  BY <1>2, <1>3
<1> QED BY <1>1, <1>3 DEF Contents, Among

\* In order are lists of which each rises and comes before those that follow.
Sorted(s, A, B, l, a, b) ==
  /\ Rising(s) /\ Rising(l) /\ Below(s, l)
  /\ \A x \in 1..a : Rising(A[x]) /\ Below(s, A[x]) /\ Below(A[x], l)
  /\ \A y \in 1..b : Rising(B[y]) /\ Below(s, B[y]) /\ Below(B[y], l)
  /\ \A x, y \in 1..a : x < y => Below(A[x], A[y])
  /\ \A x, y \in 1..b : x < y => Below(B[x], B[y])
  /\ \A x \in 1..a, y \in 1..b : Below(A[x], B[y])

LEMMA ChainRises ==
  ASSUME NEW s, NEW A, NEW B, NEW l, NEW a \in Nat, NEW b \in Nat, NEW z, Chain(s, A, B, l, a, b, z),
         Sorted(s, A, B, l, a, b)
  PROVE  AllRising(z)
<1>1. ASSUME NEW i \in DOMAIN z PROVE Rising(z[i])
  BY ChainPlaces DEF Sorted
<1>2. ASSUME NEW i \in DOMAIN z, NEW j \in DOMAIN z, i < j PROVE Below(z[i], z[j])
  <2>1. CASE i = 1 /\ z[i] = s
    <3>1. j # 1
      BY <1>2, <2>1 DEF Chain
    <3>2. \/ \E x \in 1..a : j = 1 + x /\ z[j] = A[x]
          \/ \E y \in 1..b : j = 1 + a + y /\ z[j] = B[y]
          \/ j = a + b + 2 /\ z[j] = l
      BY <3>1, ChainPlaces
    <3> QED BY <2>1, <3>2 DEF Sorted
  <2>2. ASSUME NEW x \in 1..a, i = 1 + x, z[i] = A[x] PROVE Below(z[i], z[j])
    <3>1. j # 1
      BY <1>2, <2>2
    <3>2. \/ \E y \in 1..a : j = 1 + y /\ z[j] = A[y]
          \/ \E y \in 1..b : j = 1 + a + y /\ z[j] = B[y]
          \/ j = a + b + 2 /\ z[j] = l
      BY <3>1, ChainPlaces
    <3>3. ASSUME NEW y \in 1..a, j = 1 + y, z[j] = A[y] PROVE Below(z[i], z[j])
      <4>1. x < y
        BY <1>2, <2>2, <3>3
      <4> QED BY <2>2, <3>3, <4>1 DEF Sorted
    <3> QED BY <2>2, <3>2, <3>3 DEF Sorted
  <2>3. ASSUME NEW x \in 1..b, i = 1 + a + x, z[i] = B[x] PROVE Below(z[i], z[j])
    <3>1. /\ j # 1
          /\ \A y \in 1..a : j # 1 + y
      BY <1>2, <2>3
    <3>2. \/ \E y \in 1..b : j = 1 + a + y /\ z[j] = B[y]
          \/ j = a + b + 2 /\ z[j] = l
      BY <3>1, ChainPlaces
    <3>3. ASSUME NEW y \in 1..b, j = 1 + a + y, z[j] = B[y] PROVE Below(z[i], z[j])
      <4>1. x < y
        BY <1>2, <2>3, <3>3
      <4> QED BY <2>3, <3>3, <4>1 DEF Sorted
    <3> QED BY <2>3, <3>2, <3>3 DEF Sorted
  <2>4. ~(i = a + b + 2)
    BY <1>2 DEF Chain
  <2> QED BY <2>1, <2>2, <2>3, <2>4, ChainPlaces
<1> QED BY <1>1, <1>2 DEF AllRising

-----------------------------------------------------------------------------

\* The lists on their way from a client.
Parts(u, c, A, B, l) ==
  /\ DOMAIN A = DOMAIN u.io /\ DOMAIN B = DOMAIN u.queue[c]
  /\ \A i \in DOMAIN u.io : A[i] = IF Posts(u.io[i], c) THEN u.io[i].items ELSE << >>
  /\ \A j \in DOMAIN u.queue[c] :
       B[j] = IF j > 1 /\ u.queue[c][j].all THEN u.queue[c][j].items ELSE << >>
  /\ l = IF Open(u, c) /\ u.buffer[c].all THEN u.buffer[c].items ELSE << >>

LEMMA OnItsWayIs ==
  ASSUME air \in CastStates, NEW c \in Casters
  PROVE  \E A, B \in Seq(Seq(Nat)), l \in Seq(Nat) :
           OnItsWay(c) = A \o B \o <<l>> /\ Parts(air, c, A, B, l)
<1>1. PICK q \in Seq(CastMessages), io \in Seq(Handlers), m \in CastMessages :
        q = air.queue[c] /\ io = air.io /\ m = air.buffer[c]
  BY DEF CastStates
<1>2. << >> \in Seq(Nat)
  OBVIOUS
<1>3. /\ Len(io) \in Nat /\ DOMAIN io = 1..Len(io) /\ Len(q) \in Nat /\ DOMAIN q = 1..Len(q)
      /\ (\A i \in DOMAIN io : io[i] \in Handlers) /\ (\A j \in DOMAIN q : q[j] \in CastMessages)
  OBVIOUS
<1> DEFINE X(i) == IF io[i].do = "broadcast" /\ io[i].client = c THEN io[i].items ELSE << >>
           Y(j) == IF j > 1 /\ q[j].all THEN q[j].items ELSE << >>
<1>4. \A i \in DOMAIN io : X(i) \in Seq(Nat)
  BY <1>2, <1>3 DEF Handlers
<1>5. \A j \in DOMAIN q : Y(j) \in Seq(Nat)
  BY <1>2, <1>3 DEF CastMessages
<1>6. PICK A : A = [i \in DOMAIN io |-> X(i)]
  OBVIOUS
<1>7. PICK B : B = [j \in DOMAIN q |-> Y(j)]
  OBVIOUS
<1>8. PICK l : l = IF Open(air, c) /\ m.all THEN m.items ELSE << >>
  OBVIOUS
<1>9. l \in Seq(Nat)
  BY <1>1, <1>2, <1>8 DEF CastMessages
<1>10. OnItsWay(c) = A \o B \o <<l>>
  BY <1>1, <1>6, <1>7, <1>8 DEF OnItsWay
<1>11. Parts(air, c, A, B, l)
  <2>1. DOMAIN A = DOMAIN io /\ DOMAIN B = DOMAIN q
    BY <1>6, <1>7
  <2>2. \A i \in DOMAIN io : A[i] = IF Posts(io[i], c) THEN io[i].items ELSE << >>
    BY <1>6, Zenon DEF Posts
  <2>3. \A j \in DOMAIN q : B[j] = IF j > 1 /\ q[j].all THEN q[j].items ELSE << >>
    BY <1>7, Zenon
  <2> QED BY <1>1, <1>8, <2>1, <2>2, <2>3, Zenon DEF Parts
<1> HIDE DEF X, Y
<1>12. A \in Seq(Seq(Nat))
  <2>1. A \in [1..Len(io) -> Seq(Nat)]
    BY <1>3, <1>4, <1>6
  <2> QED BY <1>3, <2>1, SeqDef
<1>13. B \in Seq(Seq(Nat))
  <2>1. B \in [1..Len(q) -> Seq(Nat)]
    BY <1>3, <1>5, <1>7
  <2> QED BY <1>3, <2>1, SeqDef
<1> QED BY <1>9, <1>10, <1>11, <1>12, <1>13

\* They come in the order in which they were written, behind what a spectator has seen.
LEMMA PartsSorted ==
  ASSUME NEW u \in CastStates, NEW v \in Viewers, NEW c \in Casters, Streams(u, c), SeenBefore(u, v, c),
         NEW A, NEW B, NEW l, NEW a \in Nat, NEW b \in Nat, Parts(u, c, A, B, l),
         DOMAIN A = 1..a, DOMAIN B = 1..b
  PROVE  Sorted(u.seen[v], A, B, l, a, b)
<1>1. PICK q \in Seq(CastMessages), io \in Seq(Handlers), s \in Seq(Nat), t \in Seq(Nat) :
        q = u.queue[c] /\ io = u.io /\ s = u.seen[v] /\ t = u.buffer[c].items
  BY DEF CastStates, CastMessages
<1>2. Attended(io, q, c) /\ Ascending(q, t, u.written)
  BY <1>1 DEF Streams
<1>3. Rising(s) /\ Below(s, t) /\ Ahead(s, io, q, c)
  BY <1>1 DEF SeenBefore
<1>4. /\ DOMAIN io = 1..a /\ DOMAIN q = 1..b
      /\ \A i \in 1..a : A[i] = IF Posts(io[i], c) THEN io[i].items ELSE << >>
      /\ \A j \in 1..b : B[j] = IF j > 1 /\ q[j].all THEN q[j].items ELSE << >>
      /\ l = t \/ l = << >>
  BY <1>1 DEF Parts
<1>5. /\ Rising(<< >>) /\ (\A r : Below(r, << >>) /\ Below(<< >>, r))
  <2>1. DOMAIN << >> = {}
    OBVIOUS
  <2> QED BY <2>1 DEF Rising, Below
<1>6. /\ Rising(t)
      /\ \A j \in 1..b : Rising(q[j].items) /\ Below(q[j].items, t)
      /\ \A j, k \in 1..b : j < k => Below(q[j].items, q[k].items)
  BY <1>2, <1>4 DEF Ascending
<1>7. \A j \in 1..b : j > 1 => Below(s, q[j].items)
  BY <1>3, <1>4 DEF Ahead
<1>8. ASSUME NEW i \in 1..a, Posts(io[i], c)
      PROVE  /\ 1 \in 1..b /\ A[i] = q[1].items /\ Below(s, A[i])
             /\ \A j \in 1..a : Posts(io[j], c) => i = j
  <2>1. io[i].client = c /\ io[i].do = "broadcast"
    BY <1>8 DEF Posts
  <2>2. q # << >>
    BY <1>2, <1>4, <2>1 DEF Attended
  <2>3. 1 \in 1..b
    BY <1>4, <2>2
  <2>4. A[i] = q[1].items
    BY <1>2, <1>4, <1>8 DEF Attended
  <2>5. Below(s, A[i])
    BY <1>3, <1>4, <1>8 DEF Ahead
  <2>6. ASSUME NEW j \in 1..a, Posts(io[j], c) PROVE i = j
    BY <1>2, <1>4, <2>1, <2>6 DEF Attended, Posts
  <2> QED BY <2>3, <2>4, <2>5, <2>6
<1>9. \A i \in 1..a : ~Posts(io[i], c) => A[i] = << >>
  BY <1>4
<1>10. \A j \in 1..b : B[j] = << >> \/ (j > 1 /\ B[j] = q[j].items)
  BY <1>4
<1>11. Rising(s) /\ Rising(l) /\ Below(s, l)
  BY <1>3, <1>4, <1>5, <1>6
<1>12. \A i \in 1..a : Rising(A[i]) /\ Below(s, A[i]) /\ Below(A[i], l)
  BY <1>4, <1>5, <1>6, <1>8, <1>9
<1>13. \A j \in 1..b : Rising(B[j]) /\ Below(s, B[j]) /\ Below(B[j], l)
  BY <1>4, <1>5, <1>6, <1>7, <1>10
<1>14. ASSUME NEW i \in 1..a, NEW j \in 1..a, i < j PROVE Below(A[i], A[j])
  <2>1. CASE ~Posts(io[i], c) \/ ~Posts(io[j], c)
    BY <1>5, <1>9, <2>1
  <2>2. CASE Posts(io[i], c) /\ Posts(io[j], c)
    <3>1. i = j
      BY <1>8, <2>2
    <3> QED BY <1>14, <3>1
  <2> QED BY <2>1, <2>2
<1>15. ASSUME NEW j \in 1..b, NEW k \in 1..b, j < k PROVE Below(B[j], B[k])
  BY <1>5, <1>6, <1>10, <1>15
<1>16. ASSUME NEW i \in 1..a, NEW j \in 1..b PROVE Below(A[i], B[j])
  <2>1. CASE ~Posts(io[i], c) \/ B[j] = << >>
    BY <1>5, <1>9, <2>1
  <2>2. CASE Posts(io[i], c) /\ j > 1 /\ B[j] = q[j].items
    <3>1. 1 \in 1..b /\ A[i] = q[1].items
      BY <1>8, <2>2
    <3>2. Below(q[1].items, q[j].items)
      BY <1>6, <2>2, <3>1
    <3> QED BY <2>2, <3>1, <3>2
  <2> QED BY <1>10, <2>1, <2>2
<1>17. Sorted(s, A, B, l, a, b)
  BY <1>11, <1>12, <1>13, <1>14, <1>15, <1>16 DEF Sorted
<1> QED BY <1>1, <1>17

\* They hold what is coming.
LEMMA PartsCome ==
  ASSUME NEW u \in CastStates, NEW c \in Casters,
         NEW A, NEW B, NEW l, NEW a \in Nat, NEW b \in Nat, Parts(u, c, A, B, l),
         DOMAIN A = 1..a, DOMAIN B = 1..b, NEW n
  PROVE  Coming(u, c, n) <=> n \in ToSet(l) \/ Among(A, a, n) \/ Among(B, b, n)
<1>1. n \notin ToSet(<< >>)
  <2>1. DOMAIN << >> = {}
    OBVIOUS
  <2> QED BY <2>1 DEF ToSet
<1>2. Posted(u.io, c, n) <=> Among(A, a, n)
  BY <1>1 DEF Posted, Parts, Among
<1>3. Queued(u.queue[c], n) <=> Among(B, b, n)
  BY <1>1 DEF Queued, Parts, Among
<1>4. Open(u, c) /\ u.buffer[c].all /\ n \in ToSet(u.buffer[c].items) <=> n \in ToSet(l)
  BY <1>1 DEF Parts
<1> QED BY <1>2, <1>3, <1>4 DEF Coming, Underway

\* What is shown was written.
LEMMA ComingWritten ==
  ASSUME NEW u \in CastStates, NEW v \in Viewers, NEW c \in Casters, Streams(u, c), SeenBefore(u, v, c),
         c = u.of[v], NEW n, Shows(u, v, n)
  PROVE  n \in Nat /\ n <= u.written
<1>1. PICK q \in Seq(CastMessages), io \in Seq(Handlers), m \in CastMessages, s \in Seq(Nat) :
        q = u.queue[c] /\ io = u.io /\ m = u.buffer[c] /\ s = u.seen[v]
  BY DEF CastStates
<1>2. \A r \in Seq(Nat) : \A x \in ToSet(r) : x \in Nat
  BY DEF ToSet
<1>3. CASE n \in ToSet(u.seen[v]) \/ Underway(u, c, n)
  <2>1. n <= u.written
    BY <1>3, ShownWritten
  <2>2. ASSUME Posted(io, c, n) PROVE n \in Nat
    <3>1. PICK i \in DOMAIN io : Posts(io[i], c) /\ n \in ToSet(io[i].items)
      BY <2>2 DEF Posted
    <3>2. io[i] \in Handlers
      OBVIOUS
    <3>3. io[i].items \in Seq(Nat)
      BY <3>1, <3>2 DEF Posts, Handlers
    <3> QED BY <1>2, <3>1, <3>3
  <2>3. ASSUME Queued(q, n) PROVE n \in Nat
    <3>1. PICK j \in DOMAIN q : n \in ToSet(q[j].items)
      BY <2>3 DEF Queued
    <3>2. q[j] \in CastMessages
      OBVIOUS
    <3>3. q[j].items \in Seq(Nat)
      BY <3>2 DEF CastMessages
    <3> QED BY <1>2, <3>1, <3>3
  <2>4. n \in ToSet(s) => n \in Nat
    BY <1>2
  <2> QED BY <1>1, <1>3, <2>1, <2>2, <2>3, <2>4 DEF Underway
<1>4. CASE n \in ToSet(m.items)
  <2>1. m.items \in Seq(Nat)
    BY DEF CastMessages
  <2>2. UpTo(m.items, u.written)
    BY <1>1 DEF Streams, Ascending
  <2> QED BY <1>2, <1>4, <2>1, <2>2, SMTT(20) DEF UpTo, ToSet
<1> QED BY <1>1, <1>3, <1>4 DEF Shows, Coming

\* Of what is shown, what was written since has no gap.
GapFree(N, T, a, w) ==
  /\ \A n \in N : a + 1 .. n \subseteq N
  /\ (\A n \in a + 1 .. w : n \in T) => N = a + 1 .. w

LEMMA NewOnes ==
  ASSUME NEW T, NEW a \in Nat, NEW w \in Nat, NEW N, N = {n \in T : n > a},
         \A n \in T : n \in Nat /\ n <= w,
         \A n \in a + 1 .. w : n \in T => \A k \in a + 1 .. n : k \in T
  PROVE  GapFree(N, T, a, w)
<1>1. \A n \in N : n \in T /\ n \in a + 1 .. w
  OBVIOUS
<1>2. ASSUME NEW n \in N, NEW k \in a + 1 .. n PROVE k \in N
  <2>1. k \in T
    BY <1>1
  <2>2. k > a
    BY <1>1
  <2> QED BY <2>1, <2>2
<1>3. ASSUME \A n \in a + 1 .. w : n \in T PROVE a + 1 .. w \subseteq N
  <2>1. \A n \in a + 1 .. w : n > a
    OBVIOUS
  <2> QED BY <1>3, <2>1
<1> QED BY <1>1, <1>2, <1>3 DEF GapFree

LEMMA SightsInOrder ==
  ASSUME LiveCastAssumption, CastInv
  PROVE  SeenInOrder
<1>1. air \in CastStates /\ Linked(air)
  BY DEF CastInv, Casting
<1>2. SUFFICES ASSUME NEW v \in air.watching, Open(air, v)
               PROVE  LET lists == <<air.seen[v]>> \o OnItsWay(air.of[v])
                          new == {n \in UNION {ToSet(lists[i]) : i \in DOMAIN lists} : n > air.since[v]}
                      IN /\ AllRising(lists)
                         /\ \A n \in new : air.since[v] + 1 .. n \subseteq new
                         /\ Open(air, air.of[v]) => new = air.since[v] + 1 .. air.written
  BY Zenon DEF SeenInOrder
<1> DEFINE z == <<air.seen[v]>> \o OnItsWay(air.of[v])
           N == {n \in Contents(z) : n > air.since[v]}
<1>3. v \in Viewers
  BY <1>1 DEF CastStates
<1>4. PICK c \in Casters : c = air.of[v]
  BY <1>1 DEF Linked, CastStates
<1>5. SeenBefore(air, v, c) /\ NoGap(air, v, c) /\ Streams(air, c)
  BY <1>2, <1>3, <1>4 DEF CastInv, Casting, Follows
<1>6. PICK A \in Seq(Seq(Nat)), B \in Seq(Seq(Nat)), l \in Seq(Nat) :
        OnItsWay(c) = A \o B \o <<l>> /\ Parts(air, c, A, B, l)
  BY <1>1, OnItsWayIs
<1>7. air.seen[v] \in Seq(Nat) /\ air.since[v] \in Nat /\ air.written \in Nat
  BY <1>1, <1>3 DEF CastStates
<1>8. PICK lists : lists = z
  OBVIOUS
<1>9. PICK a \in Nat, b \in Nat : Chain(air.seen[v], A, B, l, a, b, lists)
  BY <1>4, <1>6, <1>7, <1>8, Chained
<1>10. DOMAIN A = 1..a /\ DOMAIN B = 1..b
  <2>1. a = Len(A) /\ b = Len(B)
    BY <1>9 DEF Chain
  <2> QED BY <2>1
<1>11. PICK new : new = N
  OBVIOUS
<1>12. new = {n \in Contents(lists) : n > air.since[v]}
  BY <1>8, <1>11
<1> HIDE DEF z, N
<1>13. AllRising(lists)
  <2>1. Sorted(air.seen[v], A, B, l, a, b)
    BY <1>1, <1>3, <1>5, <1>6, <1>10, PartsSorted
  <2> QED BY <1>9, <2>1, ChainRises
<1>14. ASSUME NEW n PROVE n \in Contents(lists) <=> Shows(air, v, n)
  <2>1. n \in Contents(lists)
        <=> n \in ToSet(air.seen[v]) \/ n \in ToSet(l) \/ Among(A, a, n) \/ Among(B, b, n)
    BY <1>9, ChainItems
  <2>2. Coming(air, c, n) <=> n \in ToSet(l) \/ Among(A, a, n) \/ Among(B, b, n)
    BY <1>1, <1>6, <1>10, PartsCome
  <2> QED BY <1>4, <2>1, <2>2 DEF Shows
<1>15. PICK s \in Nat, w \in Nat, T \in SUBSET Contents(lists) :
         s = air.since[v] /\ w = air.written /\ T = Contents(lists)
  BY <1>7
<1>16. \A n \in T : n \in Nat /\ n <= w
  BY <1>1, <1>3, <1>4, <1>5, <1>14, <1>15, ComingWritten
<1>17. /\ \A n \in s + 1 .. w : n \in T => \A k \in s + 1 .. n : k \in T
       /\ Open(air, c) => \A n \in s + 1 .. w : n \in T
  BY <1>5, <1>14, <1>15 DEF NoGap
<1>18. /\ \A n \in new : s + 1 .. n \subseteq new
       /\ (\A n \in s + 1 .. w : n \in T) => new = s + 1 .. w
  <2>1. new = {n \in T : n > s}
    BY <1>12, <1>15
  <2>2. \A n \in s + 1 .. w : n \in T => \A k \in s + 1 .. n : k \in T
    BY <1>17
  <2>3. GapFree(new, T, s, w)
    BY <1>16, <2>1, <2>2, NewOnes
  <2> QED BY <2>3 DEF GapFree
<1>19. /\ AllRising(lists)
       /\ \A n \in new : air.since[v] + 1 .. n \subseteq new
       /\ Open(air, air.of[v]) => new = air.since[v] + 1 .. air.written
  BY <1>4, <1>13, <1>15, <1>17, <1>18
<1> QED BY <1>8, <1>11, <1>19 DEF z, N, Contents

\* CastKept: in every state of LiveCastSpec the spectators, the cast and the player know of
\* each other, and each spectator is sent what the client was sent, in its order, once,
\* without a gap (ProtocolGame's live cast, ProtocolSpectator, Connection::broadcastMessage).
THEOREM CastKeptHolds == LiveCastSpec => []CastKept
<1>1. LiveCastInit => CastInv
  BY CastInvInit, LiveCastAssumption
<1>2. CastInv /\ [LiveCastNext]_air => CastInv'
  BY CastInvNext, LiveCastAssumption
<1>3. CastInv => CastKept
  BY WatchersKnown, SightsInOrder, LiveCastAssumption DEF CastKept
<1> QED BY <1>1, <1>2, <1>3, PTL DEF LiveCastSpec
=============================================================================
