----------------------------- MODULE Connection -----------------------------
(***************************************************************************)
(* One client connection (engine/src/connection.cpp).  Completion handlers *)
(* run one at a time on the network thread; the dispatcher thread sends    *)
(* and disconnects through a weak pointer, and on shutdown closes the      *)
(* socket behind the connection's back (ConnectionManager::closeAll).      *)
(* connectionLock makes the body of each function atomic, with three       *)
(* exceptions that are steps of their own: what onAccept writes before the *)
(* lock, releaseConnection at the start of close(), and closeAll.          *)
(*                                                                         *)
(* The connection's fields are one record, and a function's body is an     *)
(* operator on that record, so that a handler that sends, closes and reads *)
(* again is the composition of those.  An asynchronous operation stays     *)
(* outstanding until its handler runs; it may have completed before that   *)
(* (ready), and then a close no longer turns it into an error.  A timer    *)
(* that has expired can no longer be cancelled (fired).                    *)
(***************************************************************************)
EXTENDS Naturals, Sequences

CONSTANT Messages    \* what the server may send, each once

VARIABLES conn,      \* the Connection object
          phase,     \* how far onAccept has come on the network thread
          midClose   \* close() calls past releaseConnection, before the lock

vars == <<conn, phase, midClose>>

Timers  == {"read", "write"}
Closers == {"timeout", "dispatcher"}
Elems(s) == {s[i] : i \in DOMAIN s}

Init ==
    /\ conn = [state |-> "PENDING", open |-> TRUE, managed |-> TRUE, alive |-> TRUE,
               protocol |-> FALSE, first |-> FALSE, hello |-> "none",
               readOp |-> "none", ready |-> {}, armed |-> {}, fired |-> {},
               queue |-> <<>>, writing |-> <<>>,
               accepted |-> <<>>, wire |-> <<>>, told |-> FALSE]
    /\ phase = "accepting"
    /\ midClose = {}
-----------------------------------------------------------------------------
(* Function bodies, as operators on the connection.                        *)

CloseSocket(c) ==
    IF c.open THEN [c EXCEPT !.open = FALSE, !.armed = {}] ELSE c

\* close(force): every call posts Protocol::release.
Close(c, force) ==
    LET d == [c EXCEPT !.managed = FALSE, !.state = "DISCONNECTED",
                       !.told = @ \/ c.protocol]
    IN  IF c.queue = <<>> \/ force THEN CloseSocket(d) ELSE d

InternalSend(c, m) ==
    [c EXCEPT !.armed = @ \cup {"write"}, !.writing = Append(@, m)]

\* send(): only the message that finds the queue empty starts a write.
Send_Always(c, m) ==
    IF c.state = "DISCONNECTED" THEN c
    ELSE InternalSend([c EXCEPT !.queue = Append(@, m), !.accepted = Append(@, m)], m)

Send(c, m) ==
    LET d == [c EXCEPT !.queue = Append(@, m), !.accepted = Append(@, m)]
    IN  IF c.state = "DISCONNECTED" THEN c
        ELSE IF c.queue = <<>> THEN InternalSend(d, m) ELSE d

\* readTimer.expires_from_now, async_wait and async_read.
StartRead_Untimed(c, what) == [c EXCEPT !.readOp = what]
StartRead(c, what) == [c EXCEPT !.readOp = what, !.armed = @ \cup {"read"}]

\* The handler of a read begins: the operation is over, its timer cancelled.
EndRead(c) ==
    [c EXCEPT !.readOp = "none", !.ready = @ \ {"read"}, !.armed = @ \ {"read"}]

\* onWriteOperation, for a write that succeeded and for one that failed.
EndWrite(c) ==
    [c EXCEPT !.writing = Tail(@), !.queue = Tail(@),
              !.ready = @ \ {"write"}, !.armed = @ \ {"write"}]

Written(c) ==
    LET d == [EndWrite(c) EXCEPT !.wire = Append(@, Head(c.writing))]
    IN  IF d.queue # <<>> THEN InternalSend(d, Head(d.queue))
        ELSE IF d.state = "DISCONNECTED" THEN CloseSocket(d) ELSE d

WriteFailed_StaysOpen(c) == [EndWrite(c) EXCEPT !.queue = <<>>]
WriteFailed(c) == Close([EndWrite(c) EXCEPT !.queue = <<>>], TRUE)
-----------------------------------------------------------------------------
(* The network thread: onAccept, in three steps.                           *)

NetworkFree == phase = "running" /\ "timeout" \notin midClose

\* A banned or too frequent address is closed at once.
Reject ==
    /\ phase = "accepting"
    /\ conn' = Close(conn, TRUE)
    /\ phase' = "running"
    /\ UNCHANGED midClose

\* accept(protocol): onConnect is posted before the state is written.
AcceptProtocol ==
    /\ phase = "accepting"
    /\ conn' = [conn EXCEPT !.protocol = TRUE]
    /\ phase' = "announced"
    /\ UNCHANGED midClose

SetStage ==
    /\ \/ phase = "announced" /\ conn' = [conn EXCEPT !.state = "STAGE2"]
       \/ phase = "accepting" /\ conn' = [conn EXCEPT !.state = "STAGE1"]
    /\ phase' = "staged"
    /\ UNCHANGED midClose

\* accept(), under the lock.
FirstRead ==
    /\ phase = "staged"
    /\ conn' = StartRead(conn, "header")
    /\ phase' = "running"
    /\ UNCHANGED midClose
-----------------------------------------------------------------------------
(* The socket and the timers.                                              *)

DataArrives ==
    /\ conn.open /\ conn.readOp # "none" /\ "read" \notin conn.ready
    /\ conn' = [conn EXCEPT !.ready = @ \cup {"read"}]
    /\ UNCHANGED <<phase, midClose>>

DataSent ==
    /\ conn.open /\ conn.writing # <<>> /\ "write" \notin conn.ready
    /\ conn' = [conn EXCEPT !.ready = @ \cup {"write"}]
    /\ UNCHANGED <<phase, midClose>>

TimerExpires(t) ==
    /\ t \in conn.armed
    /\ conn' = [conn EXCEPT !.armed = @ \ {t}, !.fired = @ \cup {t}]
    /\ UNCHANGED <<phase, midClose>>
-----------------------------------------------------------------------------
(* The network thread: completion handlers.                                *)

\* An operation fails when the socket is closed, or when the peer resets it.
ReadFails ==
    /\ NetworkFree
    /\ conn.readOp # "none" /\ "read" \notin conn.ready
    /\ conn' = Close(EndRead(conn), TRUE)
    /\ UNCHANGED <<phase, midClose>>

ReadDone(what) ==
    /\ NetworkFree
    /\ conn.readOp = what /\ "read" \in conn.ready
    /\ UNCHANGED <<phase, midClose>>

\* The state of a connection whose client has shown it speaks the protocol.
AfterHello(c) == IF c.hello = "done" /\ c.state = "STAGE2"
                 THEN [c EXCEPT !.state = "GAME"] ELSE c

\* Outcomes of parseHeader for an open connection: too many packets (game
\* protocol only), the server-name exchange, a bad size, or on to the body.
HeaderOutcomes(c) ==
    LET exchanging == c.hello # "done" /\ c.state = "STAGE2"
        \* the exchange is over, or this is no exchange but a packet
        passed == IF ~exchanging THEN {c}
                  ELSE IF c.hello = "none" THEN {[c EXCEPT !.hello = "done"]} ELSE {}
    IN  (IF c.protocol THEN {Close(c, FALSE)} ELSE {})
        \cup (IF ~exchanging THEN {}
              ELSE {Close(c, TRUE), StartRead([c EXCEPT !.hello = "name"], "header")}
                   \cup (IF c.hello = "name"
                         THEN {StartRead([c EXCEPT !.hello = "done"], "header")} ELSE {}))
        \cup UNION {{Close(AfterHello(d), TRUE), StartRead(AfterHello(d), "body")} : d \in passed}

ParseHeader ==
    /\ ReadDone("header")
    /\ IF conn.state = "DISCONNECTED" THEN conn' = EndRead(conn)
       ELSE conn' \in HeaderOutcomes(EndRead(conn))

\* What the protocol's parser may do to the connection before it returns:
\* nothing, disconnect, or send a last message and disconnect.
Parsed(c) ==
    {c, Close(c, FALSE)}
        \cup {Close(Send(c, m), FALSE) : m \in Messages \ Elems(c.accepted)}

\* The first message of a connection without a protocol makes one, if it can.
BodyOutcomes(c) ==
    LET told == [c EXCEPT !.protocol = TRUE, !.first = TRUE]
    IN  (IF ~c.protocol THEN {Close([c EXCEPT !.first = TRUE], TRUE)} ELSE {})
        \cup {StartRead(d, "header") : d \in Parsed(told)}

ParsePacket_Unguarded ==
    /\ ReadDone("body")
    /\ conn' \in BodyOutcomes(EndRead(conn))

ParsePacket ==
    /\ ReadDone("body")
    /\ IF conn.state = "DISCONNECTED" THEN conn' = EndRead(conn)
       ELSE conn' \in BodyOutcomes(EndRead(conn))

OnWriteOperation ==
    /\ NetworkFree
    /\ conn.writing # <<>>
    /\ IF "write" \in conn.ready THEN conn' = Written(conn) ELSE conn' = WriteFailed(conn)
    /\ UNCHANGED <<phase, midClose>>

\* handleTimeout holds only a weak pointer; it closes in two steps.
HandleTimeout(t) ==
    /\ NetworkFree
    /\ t \in conn.fired
    /\ conn' = [conn EXCEPT !.fired = @ \ {t}, !.managed = FALSE]
    /\ midClose' = IF conn.alive THEN midClose \cup {"timeout"} ELSE midClose
    /\ UNCHANGED phase
-----------------------------------------------------------------------------
(* The dispatcher thread, through Protocol::send and Protocol::disconnect. *)

\* Before the first packet only onConnect sends, and only its challenge.
Reachable == conn.alive /\ conn.protocol /\ (conn.first \/ conn.accepted = <<>>)

DispatcherSends(m) ==
    /\ Reachable /\ "dispatcher" \notin midClose
    /\ m \notin Elems(conn.accepted)
    /\ conn' = Send(conn, m)
    /\ UNCHANGED <<phase, midClose>>

DispatcherCloses ==
    /\ conn.alive /\ conn.first /\ conn.protocol /\ "dispatcher" \notin midClose
    /\ conn' = [conn EXCEPT !.managed = FALSE]
    /\ midClose' = midClose \cup {"dispatcher"}
    /\ UNCHANGED phase

IsForced_Never(who) == FALSE
IsForced(who) == who = "timeout"

CloseLocked(who) ==
    /\ who \in midClose
    /\ conn' = Close(conn, IsForced(who))
    /\ midClose' = midClose \ {who}
    /\ UNCHANGED phase

\* ConnectionManager::closeAll: only sockets, and only of managed connections.
CloseAll ==
    /\ conn.managed /\ "dispatcher" \notin midClose
    /\ conn' = [conn EXCEPT !.managed = FALSE, !.open = FALSE]
    /\ UNCHANGED <<phase, midClose>>

\* The last reference is gone; the destructor closes the socket.
Held == \/ conn.managed \/ phase # "running" \/ midClose # {}
        \/ conn.readOp # "none" \/ conn.writing # <<>>

Destroy ==
    /\ conn.alive /\ ~Held
    /\ conn' = [CloseSocket(conn) EXCEPT !.alive = FALSE, !.armed = {}]
    /\ UNCHANGED <<phase, midClose>>
-----------------------------------------------------------------------------
AcceptStep == Reject \/ AcceptProtocol \/ SetStage \/ FirstRead

Next ==
    \/ AcceptStep
    \/ DataArrives \/ DataSent
    \/ \E t \in Timers : TimerExpires(t) \/ HandleTimeout(t)
    \/ ReadFails \/ ParseHeader \/ ParsePacket \/ OnWriteOperation
    \/ \E m \in Messages : DispatcherSends(m)
    \/ DispatcherCloses \/ CloseAll
    \/ \E who \in Closers : CloseLocked(who)
    \/ Destroy

\* io_service.run executes every queued handler and every expired timer; the
\* peer owes nothing.  Freeing the object is part of dropping the last
\* reference, so it cannot be put off for ever.
Fairness ==
    /\ WF_vars(AcceptStep)
    /\ WF_vars(~conn.open /\ ReadFails)
    /\ WF_vars(ParseHeader) /\ WF_vars(ParsePacket)
    /\ WF_vars((~conn.open \/ "write" \in conn.ready) /\ OnWriteOperation)
    /\ \A t \in Timers : WF_vars(TimerExpires(t)) /\ WF_vars(HandleTimeout(t))
    /\ \A who \in Closers : WF_vars(CloseLocked(who))
    /\ SF_vars(Destroy)

Spec == Init /\ [][Next]_vars /\ Fairness
-----------------------------------------------------------------------------
Connections ==
    [state : {"PENDING", "STAGE1", "STAGE2", "GAME", "DISCONNECTED"},
     open : BOOLEAN, managed : BOOLEAN, alive : BOOLEAN,
     protocol : BOOLEAN, first : BOOLEAN, hello : {"none", "name", "done"},
     readOp : {"none", "header", "body"}, ready : SUBSET Timers,
     armed : SUBSET Timers, fired : SUBSET Timers,
     queue : Seq(Messages), writing : Seq(Messages),
     accepted : Seq(Messages), wire : Seq(Messages), told : BOOLEAN]

TypeOK ==
    /\ conn \in Connections
    /\ phase \in {"accepting", "announced", "staged", "running"}
    /\ midClose \subseteq Closers
    /\ "read" \in conn.ready => conn.readOp # "none"
    /\ "write" \in conn.ready => conn.writing # <<>>

(* At most one async_write is outstanding, it is for the front of the      *)
(* message queue, and there is one whenever the queue is not empty: the    *)
(* handler's pop_front never meets an empty list, whatever closed the      *)
(* socket meanwhile.                                                       *)
WriteMatchesQueue ==
    TypeOK /\ conn.writing = IF conn.queue = <<>> THEN <<>> ELSE <<Head(conn.queue)>>

(* The client receives a prefix of what was sent, in order, and a message  *)
(* is dropped only after the socket has been closed.                       *)
SentInOrder ==
    LET kept == conn.wire \o conn.queue
    IN  /\ kept = SubSeq(conn.accepted, 1, Len(kept))
        /\ conn.open => kept = conn.accepted

(* A connection that is in use has a timer running (or its time-out on the *)
(* way): a silent peer is noticed, whether it does not write or not read.  *)
NeverUntimed ==
    conn.open /\ phase = "running" /\ "timeout" \notin midClose =>
        /\ conn.state # "DISCONNECTED" =>
              conn.readOp # "none" /\ "read" \in conn.armed \cup conn.fired
        /\ conn.queue # <<>> => "write" \in conn.armed \cup conn.fired

(* A closed connection is freed, whatever its peer does: a graceful close  *)
(* waits for the queue, but only as long as the write timer.               *)
ClosedIsFreed == conn.state = "DISCONNECTED" ~> ~conn.alive

Life == INSTANCE ConnectionLife WITH
    life <- IF ~conn.alive THEN "gone"
            ELSE IF conn.state = "DISCONNECTED" THEN "closed" ELSE "open",
    attached <- conn.protocol,
    told <- conn.told

(* To its protocol the connection is the simple one of ConnectionLife: in  *)
(* particular no protocol is made for a connection that a time-out closed  *)
(* while its first packet was on the way, and a late hello reopens none.   *)
ImplementsLife == Life!LifeSpec
=============================================================================
