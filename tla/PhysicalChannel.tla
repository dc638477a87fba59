----------------------------- MODULE PhysicalChannel -----------------------------
(***************************************************************************)
(* The connection-oriented physical channels of pkg/channel: TCPChannel    *)
(* (tcp_channel.go) and QUICChannel (quic_channel.go), as a server that    *)
(* accepts and as a client that dials again.  A channel has one current    *)
(* connection; a QUIC channel also one current stream, which it replaces   *)
(* and clears apart from the connection.                                   *)
(*                                                                         *)
(* Four goroutines meet: the loop that accepts or dials, the readLoop in   *)
(* Read, the writeLoop in Write, and the caller of Close; a QUIC server    *)
(* has one more for each connection whose stream it awaits.  An action is  *)
(* what one of them does between two points where another may run: the     *)
(* critical sections of connLock and streamLock are atomic.                *)
(*                                                                         *)
(* The listener (Channel) resets the reassembly of its sessions each time  *)
(* it is told; lastFrom is what it has reassembled from since.  A frame is *)
(* handed up whether or not its connection is still the current one.       *)
(***************************************************************************)
EXTENDS Naturals

CONSTANTS
    Kind,       \* which channels: a set of <<"tcp" | "quic", "server" | "client">>
    Conn,       \* the connections there will be
    First,      \* the one a client has dialled in New
    None

ASSUME PhysicalAssumption ==
    /\ Kind \subseteq {"tcp", "quic"} \X {"server", "client"}
    /\ First \in Conn /\ None \notin Conn

VARIABLES
    kind,       \* which of Kind this channel is
    conn,       \* tcpChannel.conn, QUICChannel.connection
    stream,     \* QUICChannel.stream: the connection it belongs to
    link,       \* each connection: new, open, broken (by the peer), closed (by us)
    place,      \* where each goroutine is
    local,      \* the connection it has in hand
    streamer,   \* acceptStream of each connection
    closer,     \* where Close is
    lastFrom,   \* ghost: the connection whose frames the listener has parts of
    late        \* ghost: the last of them came up when another was current

heard == <<lastFrom, late>>
vars == <<kind, conn, stream, link, place, local, streamer, closer, heard>>

Worker == {"reader", "writer"}
Goroutine == Worker \cup {"loop"}

Tcp == kind[1] = "tcp"
Server == kind[2] = "server"
Done == closer # "open"

\* What Read and Write use.
Medium == IF Tcp THEN conn ELSE stream

Dead(c) == c # None /\ link[c] # "open"

TypeOK ==
    /\ kind \in Kind
    /\ conn \in Conn \cup {None} /\ stream \in Conn \cup {None}
    /\ link \in [Conn -> {"new", "open", "broken", "closed"}]
    /\ place \in [Goroutine -> {"idle", "looking", "busy", "got", "failed", "streamless",
                                "halfway", "telling", "ended"}]
    /\ local \in [Goroutine -> Conn \cup {None}]
    /\ streamer \in [Conn -> {"none", "waiting", "got", "telling", "ended"}]
    /\ closer \in {"open", "cancelled", "deaf", "streamless", "waiting", "returned"}
    /\ lastFrom \in Conn \cup {None} /\ late \in BOOLEAN
    /\ \A g \in Goroutine : place[g] \in {"busy", "got"} /\ g # "loop" => local[g] # None
    /\ Tcp => stream = None

\* A server has no connection yet, a client is made only if it could connect.
Dialled == IF Server THEN None ELSE First

NewTCPChannel == Tcp /\ conn = Dialled /\ stream = None
NewQUICChannel == ~Tcp /\ conn = Dialled /\ stream = Dialled

Init ==
    /\ kind \in Kind
    /\ NewTCPChannel \/ NewQUICChannel
    /\ link = [c \in Conn |-> IF c = Dialled THEN "open" ELSE "new"]
    /\ place = [g \in Goroutine |-> "idle"]
    /\ local = [g \in Goroutine |-> None]
    /\ streamer = [c \in Conn |-> "none"]
    /\ closer = "open"
    /\ lastFrom = None /\ late = FALSE

Go(g, where) == place' = [place EXCEPT ![g] = where]
GoWith(g, where, c) == Go(g, where) /\ local' = [local EXCEPT ![g] = c]
\* The loop starts over.  A client's waits for the context or a timer, which it has just
\* set: if the context is done already it ends.
Rest == IF Done /\ ~Server THEN "ended" ELSE "idle"
Drop(c) == link' = IF c = None THEN link ELSE [link EXCEPT ![c] = "closed"]

-----------------------------------------------------------------------------
(* acceptLoop and reconnectLoop.                                           *)

\* Mutant: the context is not looked at.
AcceptLoopGoesOn ==
    /\ Server /\ place["loop"] = "idle"
    /\ Go("loop", "busy")
    /\ UNCHANGED <<kind, conn, stream, link, local, streamer, closer, heard>>

AcceptLoopBegins ==
    /\ Server /\ place["loop"] = "idle"
    /\ Go("loop", IF Done THEN "ended" ELSE "busy")
    /\ UNCHANGED <<kind, conn, stream, link, local, streamer, closer, heard>>

\* Once a second; a QUIC client also replaces a connection that is dead.
ReconnectLoopBegins ==
    /\ ~Server /\ place["loop"] = "idle"
    /\ \/ Done /\ Go("loop", "ended")
       \/ /\ conn = None \/ (~Tcp /\ Dead(conn))
          /\ Go("loop", "busy")
    /\ UNCHANGED <<kind, conn, stream, link, local, streamer, closer, heard>>

\* Accept returns a connection that came before the listener was closed, Dial one
\* that was made; quic.Dial is given the context, net.DialTimeout is not.
Connect(c) ==
    /\ place["loop"] = "busy" /\ link[c] = "new"
    /\ IF Server THEN closer \in {"open", "cancelled"} ELSE Tcp \/ ~Done
    /\ link' = [link EXCEPT ![c] = "open"]
    /\ GoWith("loop", "got", c)
    /\ UNCHANGED <<kind, conn, stream, streamer, closer, heard>>

\* Mutant: a dial that fails ends the loop.
ConnectFailsForGood ==
    /\ place["loop"] = "busy"
    /\ Tcp \/ ~Server \/ Done
    /\ Go("loop", "ended")
    /\ UNCHANGED <<kind, conn, stream, link, local, streamer, closer, heard>>

\* A deadline, an error or, for a QUIC listener, only the context or Close.
ConnectFails ==
    /\ place["loop"] = "busy"
    /\ Tcp \/ ~Server \/ Done
    /\ Go("loop", Rest)
    /\ UNCHANGED <<kind, conn, stream, link, local, streamer, closer, heard>>

\* Mutant: the connection that is replaced stays open.
TcpStoreAcceptedOnly ==
    /\ Tcp /\ Server /\ place["loop"] = "got"
    /\ conn' = local["loop"]
    /\ GoWith("loop", "telling", None)
    /\ UNCHANGED <<kind, stream, link, streamer, closer, heard>>

TcpStoreAccepted ==
    /\ Tcp /\ Server /\ place["loop"] = "got"
    /\ Drop(conn)
    /\ conn' = local["loop"]
    /\ GoWith("loop", "telling", None)
    /\ UNCHANGED <<kind, stream, streamer, closer, heard>>

TcpStoreDialled ==
    /\ Tcp /\ ~Server /\ place["loop"] = "got"
    /\ conn' = local["loop"]
    /\ GoWith("loop", "telling", None)
    /\ UNCHANGED <<kind, stream, link, streamer, closer, heard>>

\* Mutant: the listener is told before the connection is stored.
QuicStoreStreamTold ==
    /\ ~Tcp /\ ~Server /\ place["loop"] = "halfway"
    /\ stream' = local["loop"]
    /\ GoWith("loop", "idle", None)
    /\ UNCHANGED <<kind, conn, link, streamer, closer, heard>>

\* reconnectLoop: the connection first, then the stream.
QuicStoreDialled ==
    /\ ~Tcp /\ ~Server /\ place["loop"] = "got"
    /\ \/ /\ Dead(local["loop"]) \/ Done        \* OpenStreamSync fails
          /\ Drop(local["loop"])
          /\ GoWith("loop", Rest, None)
          /\ UNCHANGED conn
       \/ /\ Drop(conn)
          /\ conn' = local["loop"]
          /\ Go("loop", "halfway") /\ UNCHANGED local
    /\ UNCHANGED <<kind, stream, streamer, closer, heard>>

QuicStoreStream ==
    /\ ~Tcp /\ ~Server /\ place["loop"] = "halfway"
    /\ stream' = local["loop"]
    /\ GoWith("loop", "telling", None)
    /\ UNCHANGED <<kind, conn, link, streamer, closer, heard>>

\* acceptLoop: the stream is left to a goroutine of its own.
QuicStoreAccepted ==
    /\ ~Tcp /\ Server /\ place["loop"] = "got"
    /\ Drop(conn)
    /\ conn' = local["loop"]
    /\ streamer' = [streamer EXCEPT ![local["loop"]] = "waiting"]
    /\ GoWith("loop", "idle", None)
    /\ UNCHANGED <<kind, stream, closer, heard>>

QuicAcceptStream(c) ==
    /\ streamer[c] = "waiting"
    /\ \/ /\ ~Dead(c) /\ ~Done
          /\ streamer' = [streamer EXCEPT ![c] = "got"]
       \/ /\ Dead(c) \/ Done
          /\ streamer' = [streamer EXCEPT ![c] = "ended"]
    /\ UNCHANGED <<kind, conn, stream, link, place, local, closer, heard>>

QuicStoreAcceptedStream(c) ==
    /\ streamer[c] = "got"
    /\ stream' = c
    /\ streamer' = [streamer EXCEPT ![c] = "telling"]
    /\ UNCHANGED <<kind, conn, link, place, local, closer, heard>>

StreamerTells(c) ==
    /\ streamer[c] = "telling"
    /\ streamer' = [streamer EXCEPT ![c] = "ended"]
    /\ lastFrom' = None /\ late' = FALSE
    /\ UNCHANGED <<kind, conn, stream, link, place, local, closer>>

\* notifyConnectionLost, notifyConnectionEstablished, by whoever has to.
Tell(g) ==
    /\ place[g] = "telling"
    /\ lastFrom' = None /\ late' = FALSE
    /\ Go(g, IF g = "loop" THEN Rest ELSE "idle")
    /\ UNCHANGED <<kind, conn, stream, link, local, streamer, closer>>

-----------------------------------------------------------------------------
(* Read and Write.                                                         *)

\* The context is looked at before the connection.
Look(w) ==
    /\ place[w] = "idle"
    /\ ~Done
    /\ Go(w, "looking")
    /\ UNCHANGED <<kind, conn, stream, link, local, streamer, closer, heard>>

\* Mutant: nobody asks whether there is one.
PickUnchecked(w) ==
    /\ place[w] = "looking"
    /\ GoWith(w, "busy", Medium)
    /\ UNCHANGED <<kind, conn, stream, link, streamer, closer, heard>>

\* The connection, or the stream, is read under its lock and used without.
Pick(w) ==
    /\ place[w] = "looking"
    /\ Medium # None
    /\ GoWith(w, "busy", Medium)
    /\ UNCHANGED <<kind, conn, stream, link, streamer, closer, heard>>

\* There is none: Write fails, Read waits for one or for the context.
PickNone(w) ==
    /\ place[w] = "looking"
    /\ Medium = None
    /\ w = "reader" => Done
    /\ Go(w, "idle")
    /\ UNCHANGED <<kind, conn, stream, link, local, streamer, closer, heard>>

\* A whole frame has been read.
FrameArrives ==
    /\ place["reader"] = "busy" /\ ~Dead(local["reader"])
    /\ Go("reader", "got")
    /\ UNCHANGED <<kind, conn, stream, link, local, streamer, closer, heard>>

\* Read returns it, and the channel routes it: what was read on a connection that has
\* been replaced since like the rest.
HandUp ==
    /\ place["reader"] = "got"
    /\ lastFrom' = local["reader"]
    /\ late' = (Medium \notin {None, local["reader"]})
    /\ GoWith("reader", "idle", None)
    /\ UNCHANGED <<kind, conn, stream, link, streamer, closer>>

WriteDone ==
    /\ place["writer"] = "busy" /\ link[local["writer"]] # "closed"
    /\ GoWith("writer", "idle", None)
    /\ UNCHANGED <<kind, conn, stream, link, streamer, closer, heard>>

\* The connection is closed or broken, or the deadline has passed.
Fail(w) ==
    /\ place[w] = "busy"
    /\ GoWith(w, "failed", None)
    /\ UNCHANGED <<kind, conn, stream, link, streamer, closer, heard>>

\* Mutant: the error is returned and the connection kept.
TcpHandleErrorOnly(w) ==
    /\ Tcp /\ place[w] = "failed"
    /\ Go(w, "idle")
    /\ UNCHANGED <<kind, conn, stream, link, local, streamer, closer, heard>>

\* handleReadError and handleWriteError close what is current now, which need not be
\* what failed.
TcpHandleError(w) ==
    /\ Tcp /\ place[w] = "failed"
    /\ Drop(conn)
    /\ conn' = None
    /\ Go(w, IF conn = None THEN "idle" ELSE "telling")
    /\ UNCHANGED <<kind, stream, local, streamer, closer, heard>>

QuicDropStream(w) ==
    /\ ~Tcp /\ place[w] = "failed"
    /\ stream' = None
    /\ Go(w, "streamless")
    /\ UNCHANGED <<kind, conn, link, local, streamer, closer, heard>>

QuicDropConnection(w) ==
    /\ ~Tcp /\ place[w] = "streamless"
    /\ Drop(conn)
    /\ conn' = None
    /\ Go(w, IF conn = None THEN "idle" ELSE "telling")
    /\ UNCHANGED <<kind, stream, local, streamer, closer, heard>>

-----------------------------------------------------------------------------
(* Close.                                                                  *)

CloseCancels ==
    /\ closer = "open" /\ closer' = "cancelled"
    /\ UNCHANGED <<kind, conn, stream, link, place, local, streamer, heard>>

CloseListener ==
    /\ closer = "cancelled" /\ closer' = "deaf"
    /\ UNCHANGED <<kind, conn, stream, link, place, local, streamer, heard>>

QuicCloseStream ==
    /\ ~Tcp /\ closer = "deaf" /\ closer' = "streamless"
    /\ stream' = None
    /\ UNCHANGED <<kind, conn, link, place, local, streamer, heard>>

CloseConnection ==
    /\ closer = IF Tcp THEN "deaf" ELSE "streamless"
    /\ closer' = "waiting"
    /\ Drop(conn)
    /\ conn' = None
    /\ UNCHANGED <<kind, stream, place, local, streamer, heard>>

CloseReturns ==
    /\ closer = "waiting"
    /\ place["loop"] = "ended" /\ \A c \in Conn : streamer[c] \in {"none", "ended"}
    /\ closer' = "returned"
    /\ UNCHANGED <<kind, conn, stream, link, place, local, streamer, heard>>

-----------------------------------------------------------------------------
\* The peer goes away, or the network does.
Break(c) ==
    /\ link[c] = "open"
    /\ link' = [link EXCEPT ![c] = "broken"]
    /\ UNCHANGED <<kind, conn, stream, place, local, streamer, closer, heard>>

Connecting == \E c \in Conn : Connect(c)

Loop ==
    \/ AcceptLoopBegins \/ ReconnectLoopBegins \/ ConnectFails
    \/ TcpStoreAccepted \/ TcpStoreDialled
    \/ QuicStoreDialled \/ QuicStoreStream \/ QuicStoreAccepted
    \/ Tell("loop")

Streamer(c) == QuicAcceptStream(c) \/ QuicStoreAcceptedStream(c) \/ StreamerTells(c)

Taking(w) == Look(w) \/ Pick(w) \/ PickNone(w)

HandleError(w) ==
    TcpHandleError(w) \/ QuicDropStream(w) \/ QuicDropConnection(w) \/ Tell(w)

Read == Taking("reader") \/ FrameArrives \/ HandUp \/ Fail("reader") \/ HandleError("reader")

Write == Taking("writer") \/ WriteDone \/ Fail("writer") \/ HandleError("writer")

Closing == CloseListener \/ QuicCloseStream \/ CloseConnection \/ CloseReturns

Next ==
    \/ Connecting \/ Loop \/ Read \/ Write \/ CloseCancels \/ Closing
    \/ \E c \in Conn : Streamer(c) \/ Break(c)

Spec == Init /\ [][Next]_vars

\* Goroutines go on; peers, dials and callers of Write and Close need not.
Fairness ==
    /\ WF_vars(Loop) /\ WF_vars(Read) /\ WF_vars(HandleError("writer"))
    /\ WF_vars(Closing)
    /\ \A c \in Conn : WF_vars(Streamer(c))

FairSpec == Spec /\ Fairness

-----------------------------------------------------------------------------
(* Properties.                                                             *)

\* No connection is lost track of: one that is open is the current one, or the loop is
\* about to make it so.  (One that is made while Close runs is stored after Close has
\* closed the current one, and stays: there is never more than that one.)
NoStray ==
    \A c \in Conn : link[c] = "open" => c = conn \/ c = local["loop"]

SomebodyTells ==
    \/ \E g \in Goroutine : place[g] = "telling"
    \/ \E c \in Conn : streamer[c] = "telling"

\* Frames of two connections meet in one reassembly in two cases only: somebody is
\* still about to tell the listener that the connection has changed, or the first of
\* the two is the one frame that had been read when its connection was replaced and
\* came up when the new one was current.  Either way the code joins them.
ResetBetween ==
    [][lastFrom' \notin {None, lastFrom} /\ lastFrom # None => SomebodyTells \/ late]_vars

\* A connection that is dead does not stay the one Read and Write use.
DeadIsDropped ==
    \A c \in Conn : (Medium = c /\ Dead(c)) ~> (Medium # c \/ Done)

\* A client whose peer can be reached is connected again: what it dialled becomes the
\* connection Read and Write use, unless every connection there can be has come and
\* gone, broken by the peer or closed because an earlier one failed.
Reconnects ==
    SF_vars(Connecting) =>
        ((~Server /\ (Medium = None \/ Dead(Medium)))
            ~> \/ Medium # None /\ ~Dead(Medium)
               \/ Done
               \/ \A c \in Conn : link[c] \in {"broken", "closed"})

\* Close returns: the loops end.
CloseEnds == Done ~> (closer = "returned")
=============================================================================
