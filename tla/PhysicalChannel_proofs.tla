--------------------------- MODULE PhysicalChannel_proofs ---------------------------
(***************************************************************************)
(* Theorems about PhysicalChannel, for any number of connections and any   *)
(* of the four kinds of channels.                                          *)
(***************************************************************************)
EXTENDS PhysicalChannel, TLAPS

USE DEF heard

\* A TCP channel has no goroutines that await a stream.  The loop has a connection in
\* hand exactly between Accept or Dial and storing it, and a TCP client dials only
\* while there is none.
LoopInv ==
    /\ Tcp => \A c \in Conn : streamer[c] = "none"
    /\ place["loop"] \in {"got", "halfway"} \/ local["loop"] = None
    /\ place["loop"] \in {"got", "halfway"} => local["loop"] \in Conn
    /\ Tcp /\ ~Server /\ place["loop"] \in {"busy", "got"} => conn = None

\* Between storing a dialled connection and its stream the connection is current, unless
\* somebody has closed it.
HalfwayInv ==
    place["loop"] = "halfway" /\ link[local["loop"]] = "open" => conn = local["loop"]

TypeInv == TypeOK /\ LoopInv

\* What is reassembled, unless it came up late, is of the connection that is current, if
\* one is, and that the reader has in hand, if it has one: or somebody is about to discard
\* it.
MediumInv ==
    lastFrom # None =>
        \/ late \/ SomebodyTells
        \/ Medium \in {lastFrom, None} /\ local["reader"] \in {lastFrom, None}

-----------------------------------------------------------------------------
(* Type correctness.                                                       *)

LEMMA TypeInit == Init => TypeInv
  <1> SUFFICES ASSUME Init PROVE TypeInv
    OBVIOUS
  <1> USE PhysicalAssumption DEF Init
  <1>1. Dialled \in Conn \cup {None}
    BY DEF Dialled
  <1>2. /\ conn \in Conn \cup {None} /\ stream \in Conn \cup {None}
        /\ Tcp => stream = None
    BY <1>1 DEF NewTCPChannel, NewQUICChannel
  <1>3. /\ link \in [Conn -> {"new", "open", "broken", "closed"}]
        /\ streamer \in [Conn -> {"none", "waiting", "got", "telling", "ended"}]
        /\ \A c \in Conn : streamer[c] = "none"
    OBVIOUS
  <1>4. /\ place \in [Goroutine -> {"idle", "looking", "busy", "got", "failed", "streamless",
                                    "halfway", "telling", "ended"}]
        /\ local \in [Goroutine -> Conn \cup {None}]
        /\ \A g \in Goroutine : place[g] = "idle" /\ local[g] = None
    OBVIOUS
  <1>5. "loop" \in Goroutine
    BY DEF Goroutine
  <1>6. TypeOK
    BY <1>2, <1>3, <1>4 DEF TypeOK
  <1>7. LoopInv
    BY <1>3, <1>4, <1>5 DEF LoopInv
  <1> QED
    BY <1>6, <1>7 DEF TypeInv

\* A goroutine goes from one place to another.
LEMMA GoTypes ==
    ASSUME TypeOK, NEW g \in Goroutine,
           NEW where \in {"idle", "looking", "busy", "got", "failed", "streamless", "halfway",
                          "telling", "ended"},
           Go(g, where)
    PROVE  /\ place' \in [Goroutine -> {"idle", "looking", "busy", "got", "failed", "streamless",
                                        "halfway", "telling", "ended"}]
           /\ place'[g] = where
           /\ \A h \in Goroutine \ {g} : place'[h] = place[h]
  BY DEF TypeOK, Go

LEMMA GoWithTypes ==
    ASSUME TypeOK, NEW g \in Goroutine, NEW c \in Conn \cup {None},
           local' = [local EXCEPT ![g] = c]
    PROVE  /\ local' \in [Goroutine -> Conn \cup {None}]
           /\ local'[g] = c
           /\ \A h \in Goroutine \ {g} : local'[h] = local[h]
  BY DEF TypeOK

\* A connection is closed.
LEMMA DropTypes ==
    ASSUME TypeOK, NEW c \in Conn \cup {None}, Drop(c)
    PROVE  /\ link' \in [Conn -> {"new", "open", "broken", "closed"}]
           /\ \A d \in Conn : link'[d] = "open" => link[d] = "open" /\ d # c
  BY PhysicalAssumption DEF TypeOK, Drop

\* Steps of the loop that leave the connections alone.
LEMMA LoopWaits ==
    ASSUME TypeInv, AcceptLoopBegins \/ ReconnectLoopBegins \/ ConnectFails \/ Tell("loop")
    PROVE  TypeInv'
  <1> USE DEF TypeInv
  <1>1. /\ UNCHANGED <<kind, conn, stream, link, local, streamer, closer>>
        /\ lastFrom' \in Conn \cup {None} /\ late' \in BOOLEAN
        /\ place["loop"] \notin {"got", "halfway"}
    BY DEF AcceptLoopBegins, ReconnectLoopBegins, ConnectFails, Tell, TypeOK
  <1>2. \E where \in {"idle", "busy", "ended"} :
            /\ Go("loop", where)
            /\ where = "busy" /\ Tcp /\ ~Server => conn = None
    BY DEF AcceptLoopBegins, ReconnectLoopBegins, ConnectFails, Tell, Rest
  <1>3. PICK where \in {"idle", "busy", "ended"} :
            /\ Go("loop", where)
            /\ where = "busy" /\ Tcp /\ ~Server => conn = None
    BY <1>2
  <1>4. "loop" \in Goroutine
    BY DEF Goroutine
  <1>5. /\ place' \in [Goroutine -> {"idle", "looking", "busy", "got", "failed", "streamless",
                                     "halfway", "telling", "ended"}]
        /\ place'["loop"] = where
        /\ \A h \in Goroutine \ {"loop"} : place'[h] = place[h]
    BY <1>3, <1>4, GoTypes
  <1>6. TypeOK'
    BY <1>1, <1>5 DEF TypeOK, Tcp
  <1>7. LoopInv'
    BY <1>1, <1>3, <1>5 DEF LoopInv, Tcp, Server
  <1> QED
    BY <1>6, <1>7

\* Steps of the loop with a connection in hand.
LEMMA LoopStores ==
    ASSUME TypeInv,
           \/ Connecting
           \/ TcpStoreAccepted \/ TcpStoreDialled
           \/ QuicStoreDialled \/ QuicStoreStream \/ QuicStoreAccepted
    PROVE  TypeInv'
  <1> USE DEF TypeInv
  <1>1. "loop" \in Goroutine /\ None \notin Conn
    BY PhysicalAssumption DEF Goroutine
  <1>2. local["loop"] \in Conn \cup {None}
    BY <1>1 DEF TypeOK
  <1>3. CASE Connecting
    <2>1. PICK c \in Conn : Connect(c)
      BY <1>3 DEF Connecting
    <2>2. /\ UNCHANGED <<kind, conn, stream, streamer, closer, heard>>
          /\ link' \in [Conn -> {"new", "open", "broken", "closed"}]
          /\ place["loop"] = "busy" /\ Go("loop", "got")
          /\ local' = [local EXCEPT !["loop"] = c]
      BY <2>1 DEF Connect, GoWith, TypeOK
    <2>3. /\ place' \in [Goroutine -> {"idle", "looking", "busy", "got", "failed", "streamless",
                                       "halfway", "telling", "ended"}]
          /\ place'["loop"] = "got"
          /\ \A h \in Goroutine \ {"loop"} : place'[h] = place[h]
      BY <1>1, <2>2, GoTypes
    <2>4. /\ local' \in [Goroutine -> Conn \cup {None}] /\ local'["loop"] = c
          /\ \A h \in Goroutine \ {"loop"} : local'[h] = local[h]
      BY <1>1, <2>2, GoWithTypes
    <2>5. TypeOK'
      BY <2>2, <2>3, <2>4 DEF TypeOK, Tcp
    <2>6. LoopInv'
      BY <2>2, <2>3, <2>4 DEF LoopInv, Tcp, Server
    <2> QED
      BY <2>5, <2>6
  <1>4. CASE TcpStoreAccepted \/ TcpStoreDialled \/ QuicStoreStream
    <2>1. /\ UNCHANGED <<kind, streamer, closer, heard>>
          /\ Go("loop", "telling") /\ local' = [local EXCEPT !["loop"] = None]
      BY <1>4 DEF TcpStoreAccepted, TcpStoreDialled, QuicStoreStream, GoWith
    <2>2. /\ conn' \in Conn \cup {None} /\ stream' \in Conn \cup {None}
          /\ Tcp => stream' = None
      BY <1>2, <1>4 DEF TcpStoreAccepted, TcpStoreDialled, QuicStoreStream, TypeOK
    <2>3. link' \in [Conn -> {"new", "open", "broken", "closed"}]
      BY <1>4, DropTypes DEF TcpStoreAccepted, TcpStoreDialled, QuicStoreStream, TypeOK
    <2>4. /\ place' \in [Goroutine -> {"idle", "looking", "busy", "got", "failed", "streamless",
                                       "halfway", "telling", "ended"}]
          /\ place'["loop"] = "telling"
          /\ \A h \in Goroutine \ {"loop"} : place'[h] = place[h]
      BY <1>1, <2>1, GoTypes
    <2>5. /\ local' \in [Goroutine -> Conn \cup {None}] /\ local'["loop"] = None
          /\ \A h \in Goroutine \ {"loop"} : local'[h] = local[h]
      BY <1>1, <2>1, GoWithTypes
    <2>6. TypeOK'
      BY <2>1, <2>2, <2>3, <2>4, <2>5 DEF TypeOK, Tcp
    <2>7. LoopInv'
      BY <2>1, <2>4, <2>5 DEF LoopInv, Tcp, Server
    <2> QED
      BY <2>6, <2>7
  <1>5. CASE QuicStoreDialled
    <2>1. /\ UNCHANGED <<kind, stream, streamer, closer, heard>> /\ ~Tcp
          /\ place["loop"] = "got"
      BY <1>5 DEF QuicStoreDialled
    <2>2. local["loop"] \in Conn
      BY <2>1 DEF LoopInv
    <2>3. CASE /\ Drop(local["loop"]) /\ GoWith("loop", Rest, None) /\ UNCHANGED conn
      <3>1. Rest \in {"idle", "ended"}
        BY DEF Rest
      <3>2. /\ place' \in [Goroutine -> {"idle", "looking", "busy", "got", "failed", "streamless",
                                         "halfway", "telling", "ended"}]
            /\ place'["loop"] \in {"idle", "ended"}
            /\ \A h \in Goroutine \ {"loop"} : place'[h] = place[h]
        BY <1>1, <2>3, <3>1, GoTypes DEF GoWith
      <3>3. /\ local' \in [Goroutine -> Conn \cup {None}] /\ local'["loop"] = None
            /\ \A h \in Goroutine \ {"loop"} : local'[h] = local[h]
        BY <1>1, <2>3, GoWithTypes DEF GoWith
      <3>4. link' \in [Conn -> {"new", "open", "broken", "closed"}]
        BY <2>2, <2>3, DropTypes
      <3>5. TypeOK'
        BY <2>1, <2>3, <3>2, <3>3, <3>4 DEF TypeOK, Tcp
      <3>6. LoopInv'
        BY <2>1, <3>2, <3>3 DEF LoopInv, Tcp, Server
      <3> QED
        BY <3>5, <3>6
    <2>4. CASE /\ Drop(conn) /\ conn' = local["loop"] /\ Go("loop", "halfway")
               /\ UNCHANGED local
      <3>1. /\ place' \in [Goroutine -> {"idle", "looking", "busy", "got", "failed", "streamless",
                                         "halfway", "telling", "ended"}]
            /\ place'["loop"] = "halfway"
            /\ \A h \in Goroutine \ {"loop"} : place'[h] = place[h]
        BY <1>1, <2>4, GoTypes
      <3>2. link' \in [Conn -> {"new", "open", "broken", "closed"}]
        BY <2>4, DropTypes DEF TypeOK
      <3>3. TypeOK'
        BY <2>1, <2>2, <2>4, <3>1, <3>2 DEF TypeOK, Tcp
      <3>4. LoopInv'
        BY <2>1, <2>2, <2>4, <3>1 DEF LoopInv, Tcp, Server
      <3> QED
        BY <3>3, <3>4
    <2> QED
      BY <1>5, <2>3, <2>4 DEF QuicStoreDialled
  <1>6. CASE QuicStoreAccepted
    <2>1. /\ UNCHANGED <<kind, stream, closer, heard>> /\ ~Tcp /\ Drop(conn)
          /\ conn' = local["loop"] /\ place["loop"] = "got"
          /\ streamer' = [streamer EXCEPT ![local["loop"]] = "waiting"]
          /\ Go("loop", "idle") /\ local' = [local EXCEPT !["loop"] = None]
      BY <1>6 DEF QuicStoreAccepted, GoWith
    <2>2. /\ place' \in [Goroutine -> {"idle", "looking", "busy", "got", "failed", "streamless",
                                       "halfway", "telling", "ended"}]
          /\ place'["loop"] = "idle"
          /\ \A h \in Goroutine \ {"loop"} : place'[h] = place[h]
      BY <1>1, <2>1, GoTypes
    <2>3. /\ local' \in [Goroutine -> Conn \cup {None}] /\ local'["loop"] = None
          /\ \A h \in Goroutine \ {"loop"} : local'[h] = local[h]
      BY <1>1, <2>1, GoWithTypes
    <2>4. link' \in [Conn -> {"new", "open", "broken", "closed"}]
      BY <2>1, DropTypes DEF TypeOK
    <2>5. streamer' \in [Conn -> {"none", "waiting", "got", "telling", "ended"}]
      BY <2>1 DEF TypeOK
    <2>6. TypeOK'
      BY <1>2, <2>1, <2>2, <2>3, <2>4, <2>5 DEF TypeOK, Tcp
    <2>7. LoopInv'
      BY <2>1, <2>2, <2>3 DEF LoopInv, Tcp, Server
    <2> QED
      BY <2>6, <2>7
  <1> QED
    BY <1>3, <1>4, <1>5, <1>6

\* Steps of the reader and the writer.
LEMMA WorkerKeepsTypes ==
    ASSUME TypeInv, Read \/ Write
    PROVE  TypeInv'
  <1> USE DEF TypeInv
  <1>1. PICK w \in Worker :
          \/ Taking(w) \/ Fail(w) \/ HandleError(w)
          \/ w = "reader" /\ (FrameArrives \/ HandUp)
          \/ w = "writer" /\ WriteDone
    <2>1. "reader" \in Worker /\ "writer" \in Worker
      BY DEF Worker
    <2>2. CASE Read
      BY <2>1, <2>2 DEF Read
    <2>3. CASE Write
      BY <2>1, <2>3 DEF Write
    <2> QED
      BY <2>2, <2>3
  <1>2. w \in Goroutine /\ "loop" \in Goroutine /\ w # "loop" /\ None \notin Conn
    BY PhysicalAssumption DEF Worker, Goroutine
  <1>3. Medium \in Conn \cup {None}
    BY DEF TypeOK, Medium
  <1>4. /\ UNCHANGED <<kind, streamer, closer>>
        /\ conn' \in {conn, None} /\ stream' \in {stream, None}
        /\ lastFrom' \in Conn \cup {None} /\ late' \in BOOLEAN
    <2>1. local["reader"] \in Conn \cup {None}
      BY DEF TypeOK, Goroutine, Worker
    <2> QED
      BY <1>1, <2>1 DEF Taking, Look, Pick, PickNone, Fail, HandleError, FrameArrives, HandUp,
           WriteDone, TcpHandleError, QuicDropStream, QuicDropConnection, Tell, TypeOK
  <1>5. link' \in [Conn -> {"new", "open", "broken", "closed"}]
    BY <1>1, DropTypes DEF Taking, Look, Pick, PickNone, Fail, HandleError, FrameArrives, HandUp, WriteDone,
           TcpHandleError, QuicDropStream, QuicDropConnection, Tell, TypeOK
  <1> DEFINE Moved == \E where \in {"idle", "looking", "busy", "got", "failed", "streamless",
                                     "telling"},
                         c \in Conn \cup {None} :
                  /\ Go(w, where) /\ local' = [local EXCEPT ![w] = c]
                  /\ where \in {"busy", "got"} => c # None
  <1>6. Moved
    <2>1. local = [local EXCEPT ![w] = local[w]] /\ local[w] \in Conn \cup {None}
      BY <1>2 DEF TypeOK
    <2>2. CASE Pick(w)
      BY <1>3, <2>2 DEF Pick, GoWith
    <2>7. CASE Look(w) \/ PickNone(w)
      BY <2>1, <2>7 DEF Look, PickNone
    <2>3. CASE Fail(w)
      BY <2>3 DEF Fail, GoWith
    <2>4. CASE (w = "reader" /\ HandUp) \/ (w = "writer" /\ WriteDone)
      BY <2>4 DEF HandUp, WriteDone, GoWith
    <2>5. CASE w = "reader" /\ FrameArrives
      <3>1. local[w] # None
        BY <1>2, <2>5 DEF FrameArrives, TypeOK
      <3> QED
        BY <2>1, <2>5, <3>1 DEF FrameArrives
    <2>6. CASE HandleError(w)
      <3>1. PICK where \in {"idle", "streamless", "telling"} : Go(w, where) /\ UNCHANGED local
        BY <1>2, <2>6 DEF HandleError, TcpHandleError, QuicDropStream, QuicDropConnection, Tell
      <3> QED
        BY <2>1, <3>1
    <2> HIDE DEF Moved
    <2> QED
      BY <1>1, <2>2, <2>3, <2>4, <2>5, <2>6, <2>7 DEF Taking
  <1>7. PICK where \in {"idle", "looking", "busy", "got", "failed", "streamless", "telling"},
             c \in Conn \cup {None} :
            /\ Go(w, where) /\ local' = [local EXCEPT ![w] = c]
            /\ where \in {"busy", "got"} => c # None
    BY <1>6
  <1>8. /\ place' \in [Goroutine -> {"idle", "looking", "busy", "got", "failed", "streamless",
                                     "halfway", "telling", "ended"}]
        /\ place'[w] = where
        /\ \A h \in Goroutine \ {w} : place'[h] = place[h]
    BY <1>2, <1>7, GoTypes
  <1>9. /\ local' \in [Goroutine -> Conn \cup {None}] /\ local'[w] = c
        /\ \A h \in Goroutine \ {w} : local'[h] = local[h]
    BY <1>2, <1>7, GoWithTypes
  <1>10. \A g \in Goroutine : place'[g] \in {"busy", "got"} /\ g # "loop" => local'[g] # None
    BY <1>7, <1>8, <1>9 DEF TypeOK
  <1>11. TypeOK'
    BY <1>4, <1>5, <1>8, <1>9, <1>10 DEF TypeOK, Tcp
  <1>12. LoopInv'
    BY <1>2, <1>4, <1>8, <1>9 DEF LoopInv, Tcp, Server
  <1> QED
    BY <1>11, <1>12

\* Steps of Close, of the goroutines that await a stream, and of the peer.
LEMMA OthersKeepTypes ==
    ASSUME TypeInv,
           \/ CloseCancels \/ Closing
           \/ \E c \in Conn : Streamer(c) \/ Break(c)
           \/ UNCHANGED vars
    PROVE  TypeInv'
  <1> USE DEF TypeInv
  <1>1. /\ UNCHANGED <<kind, place, local>>
        /\ conn' \in {conn, None}
        /\ closer' \in {"open", "cancelled", "deaf", "streamless", "waiting", "returned"}
        /\ lastFrom' \in Conn \cup {None} /\ late' \in BOOLEAN
    BY DEF CloseCancels, Closing, CloseListener, QuicCloseStream, CloseConnection, CloseReturns,
           Streamer, QuicAcceptStream, QuicStoreAcceptedStream, StreamerTells, Break, vars, TypeOK
  <1>2. /\ stream' \in Conn \cup {None} /\ (Tcp => stream' = None)
        /\ streamer' \in [Conn -> {"none", "waiting", "got", "telling", "ended"}]
        /\ Tcp => \A c \in Conn : streamer'[c] = "none"
    <2>1. ASSUME NEW c \in Conn, Streamer(c)
          PROVE  /\ stream' \in Conn \cup {None} /\ (Tcp => stream' = None)
                 /\ streamer' \in [Conn -> {"none", "waiting", "got", "telling", "ended"}]
                 /\ Tcp => \A d \in Conn : streamer'[d] = "none"
      <3>1. ~Tcp
        BY <2>1 DEF Streamer, QuicAcceptStream, QuicStoreAcceptedStream, StreamerTells, LoopInv
      <3> QED
        BY <2>1, <3>1 DEF Streamer, QuicAcceptStream, QuicStoreAcceptedStream, StreamerTells,
                          TypeOK
    <2>2. CASE \/ CloseCancels \/ Closing \/ UNCHANGED vars \/ \E c \in Conn : Break(c)
      BY <2>2 DEF CloseCancels, Closing, CloseListener, QuicCloseStream, CloseConnection,
                  CloseReturns, Break, vars, TypeOK, LoopInv
    <2> QED
      BY <2>1, <2>2
  <1>3. link' \in [Conn -> {"new", "open", "broken", "closed"}]
    <2>1. CASE CloseConnection
      BY <2>1, DropTypes DEF CloseConnection, TypeOK
    <2>2. CASE \E c \in Conn : Break(c)
      BY <2>2 DEF Break, TypeOK
    <2>3. CASE UNCHANGED link
      BY <2>3 DEF TypeOK
    <2> QED
      BY <2>1, <2>2, <2>3 DEF CloseCancels, Closing, CloseListener, QuicCloseStream,
           CloseReturns, Streamer, QuicAcceptStream, QuicStoreAcceptedStream, StreamerTells, vars
  <1>4. TypeOK'
    BY <1>1, <1>2, <1>3 DEF TypeOK, Tcp
  <1>5. LoopInv'
    BY <1>1, <1>2 DEF LoopInv, Tcp, Server
  <1> QED
    BY <1>4, <1>5

LEMMA TypeStep == TypeInv /\ [Next]_vars => TypeInv'
  BY LoopWaits, LoopStores, WorkerKeepsTypes, OthersKeepTypes DEF Next, Loop

\* Every variable keeps its type; a goroutine that reads or writes has a connection.
THEOREM TypeCorrect == Spec => []TypeOK
  <1>1. TypeInv => TypeOK
    BY DEF TypeInv
  <1> QED
    BY <1>1, TypeInit, TypeStep, PTL DEF Spec

-----------------------------------------------------------------------------
(* No connection is lost track of.                                         *)

LEMMA StrayInit == Init => NoStray /\ HalfwayInv
  <1> SUFFICES ASSUME Init PROVE NoStray /\ HalfwayInv
    OBVIOUS
  <1>1. \A c \in Conn : link[c] = "open" => c = conn
    BY DEF Init, NewTCPChannel, NewQUICChannel
  <1>2. place["loop"] # "halfway"
    BY DEF Init, Goroutine
  <1> QED
    BY <1>1, <1>2 DEF NoStray, HalfwayInv

\* The current connection is closed, or was none, and perhaps another takes its place.
LEMMA StrayDropped ==
    ASSUME TypeInv, NoStray, HalfwayInv, Drop(conn),
           \/ /\ conn' = None /\ local'["loop"] = local["loop"]
              /\ place'["loop"] = "halfway" => place["loop"] = "halfway"
           \/ /\ conn' = local["loop"] /\ local["loop"] \in Conn
              /\ place'["loop"] # "halfway" \/ UNCHANGED local
    PROVE  NoStray' /\ HalfwayInv'
  <1>1. \A d \in Conn : link'[d] = "open" => link[d] = "open" /\ d # conn
    BY DropTypes DEF TypeInv, TypeOK
  <1>2. NoStray'
    BY <1>1 DEF NoStray
  <1>3. HalfwayInv'
    BY <1>1 DEF HalfwayInv, TypeInv, LoopInv
  <1> QED
    BY <1>2, <1>3

\* Steps that close nothing, open nothing and store nothing.
LEMMA StrayAside ==
    ASSUME NoStray, HalfwayInv, UNCHANGED <<conn, link>>, local'["loop"] = local["loop"],
           place'["loop"] = "halfway" => place["loop"] = "halfway"
    PROVE  NoStray' /\ HalfwayInv'
  BY DEF NoStray, HalfwayInv

LEMMA StrayStep == TypeInv /\ TypeInv' /\ NoStray /\ HalfwayInv /\ [Next]_vars
                     => NoStray' /\ HalfwayInv'
  <1> SUFFICES ASSUME TypeInv, TypeInv', NoStray, HalfwayInv, [Next]_vars
               PROVE  NoStray' /\ HalfwayInv'
    OBVIOUS
  <1> USE DEF TypeInv
  <1>1. /\ "loop" \in Goroutine /\ "reader" \in Goroutine /\ "writer" \in Goroutine
        /\ None \notin Conn
    BY PhysicalAssumption DEF Goroutine, Worker
  <1>2. CASE AcceptLoopBegins \/ ReconnectLoopBegins \/ ConnectFails \/ Tell("loop")
    <2>1. UNCHANGED <<conn, link, local>> /\ place'["loop"] # "halfway"
      BY <1>1, <1>2 DEF AcceptLoopBegins, ReconnectLoopBegins, ConnectFails, Tell, Rest, Go, TypeOK
    <2> QED
      BY <2>1, StrayAside
  <1>3. CASE Connecting
    <2>1. PICK c \in Conn : Connect(c)
      BY <1>3 DEF Connecting
    <2>2. /\ place["loop"] = "busy" /\ local["loop"] = None
          /\ local'["loop"] = c /\ place'["loop"] = "got"
          /\ UNCHANGED conn
          /\ \A d \in Conn \ {c} : link'[d] = link[d]
      BY <1>1, <2>1 DEF Connect, GoWith, Go, TypeOK, LoopInv
    <2> QED
      BY <1>1, <2>2 DEF NoStray, HalfwayInv
  <1>4. CASE TcpStoreAccepted \/ QuicStoreAccepted
    <2>1. /\ Drop(conn) /\ conn' = local["loop"] /\ place["loop"] = "got"
          /\ place'["loop"] \in {"telling", "idle"}
      BY <1>1, <1>4 DEF TcpStoreAccepted, QuicStoreAccepted, GoWith, Go, TypeOK
    <2>2. local["loop"] \in Conn
      BY <2>1 DEF LoopInv
    <2> QED
      BY <2>1, <2>2, StrayDropped
  <1>5. CASE TcpStoreDialled
    <2>1. /\ conn = None /\ conn' = local["loop"] /\ UNCHANGED link
          /\ place'["loop"] = "telling"
      BY <1>1, <1>5 DEF TcpStoreDialled, GoWith, Go, TypeOK, LoopInv
    <2> QED
      BY <1>1, <2>1 DEF NoStray, HalfwayInv
  <1>6. CASE QuicStoreDialled
    <2>1. place["loop"] = "got" /\ local["loop"] \in Conn
      BY <1>6 DEF QuicStoreDialled, LoopInv
    <2>2. CASE Drop(local["loop"]) /\ GoWith("loop", Rest, None) /\ UNCHANGED conn
      <3>1. \A d \in Conn : link'[d] = "open" => link[d] = "open" /\ d # local["loop"]
        BY <2>1, <2>2, DropTypes
      <3>2. place'["loop"] # "halfway"
        BY <1>1, <2>2 DEF GoWith, Go, Rest, TypeOK
      <3> QED
        BY <2>2, <3>1, <3>2 DEF NoStray, HalfwayInv
    <2>3. CASE Drop(conn) /\ conn' = local["loop"] /\ Go("loop", "halfway") /\ UNCHANGED local
      BY <2>1, <2>3, StrayDropped
    <2> QED
      BY <1>6, <2>2, <2>3 DEF QuicStoreDialled
  <1>7. CASE QuicStoreStream
    <2>1. /\ place["loop"] = "halfway" /\ UNCHANGED <<conn, link>>
          /\ place'["loop"] = "telling"
      BY <1>1, <1>7 DEF QuicStoreStream, GoWith, Go, TypeOK
    <2> QED
      BY <2>1 DEF NoStray, HalfwayInv
  <1>8. ASSUME NEW w \in Worker, TcpHandleError(w) \/ QuicDropConnection(w)
        PROVE  NoStray' /\ HalfwayInv'
    <2>1. w \in Goroutine /\ w # "loop"
      BY DEF Worker, Goroutine
    <2>2. /\ Drop(conn) /\ conn' = None /\ UNCHANGED local
          /\ place'["loop"] = place["loop"]
      BY <1>1, <1>8, <2>1 DEF TcpHandleError, QuicDropConnection, Go, TypeOK
    <2> QED
      BY <2>2, StrayDropped
  <1>9. ASSUME NEW w \in Worker, Taking(w) \/ Fail(w) \/ QuicDropStream(w) \/ Tell(w)
        PROVE  NoStray' /\ HalfwayInv'
    <2>1. w \in Goroutine /\ w # "loop"
      BY DEF Worker, Goroutine
    <2>2. UNCHANGED <<conn, link>> /\ local'["loop"] = local["loop"] /\ place'["loop"] = place["loop"]
      BY <1>1, <1>9, <2>1 DEF Taking, Look, Pick, PickNone, Fail, QuicDropStream, Tell, GoWith, Go, TypeOK
    <2> QED
      BY <2>2, StrayAside
  <1>10. CASE FrameArrives \/ HandUp \/ WriteDone
    <2>1. UNCHANGED <<conn, link>> /\ local'["loop"] = local["loop"] /\ place'["loop"] = place["loop"]
      BY <1>1, <1>10 DEF FrameArrives, HandUp, WriteDone, GoWith, Go, TypeOK
    <2> QED
      BY <2>1, StrayAside
  <1>11. CASE CloseConnection
    BY <1>11, StrayDropped DEF CloseConnection
  <1>12. CASE CloseCancels \/ CloseListener \/ QuicCloseStream \/ CloseReturns \/ UNCHANGED vars
               \/ \E c \in Conn : Streamer(c)
    <2>1. UNCHANGED <<conn, link, local, place>>
      BY <1>12 DEF CloseCancels, CloseListener, QuicCloseStream, CloseReturns, vars, Streamer,
                  QuicAcceptStream, QuicStoreAcceptedStream, StreamerTells
    <2> QED
      BY <2>1, StrayAside
  <1>13. ASSUME NEW c \in Conn, Break(c) PROVE NoStray' /\ HalfwayInv'
    <2>1. /\ UNCHANGED <<conn, local, place>>
          /\ \A d \in Conn : link'[d] = "open" => link[d] = "open"
      BY <1>13 DEF Break, TypeOK
    <2> QED
      BY <2>1 DEF NoStray, HalfwayInv, LoopInv
  <1>14. "reader" \in Worker /\ "writer" \in Worker
    BY DEF Worker
  <1>15. CASE Read
    BY <1>15, <1>14, <1>8, <1>9, <1>10 DEF Read, HandleError
  <1>16. CASE Write
    BY <1>16, <1>14, <1>8, <1>9, <1>10 DEF Write, HandleError
  <1>17. CASE Loop
    BY <1>17, <1>2, <1>4, <1>5, <1>6, <1>7 DEF Loop
  <1>18. CASE Closing
    BY <1>18, <1>11, <1>12 DEF Closing
  <1> QED
    BY <1>3, <1>12, <1>13, <1>15, <1>16, <1>17, <1>18 DEF Next

\* However connections are lost, replaced and closed, the only open one that is not
\* current is the one the loop has in hand.
THEOREM NoneIsLost == Spec => []NoStray
  <1>1. Init => TypeInv /\ NoStray /\ HalfwayInv
    BY TypeInit, StrayInit
  <1>2. TypeInv /\ NoStray /\ HalfwayInv /\ [Next]_vars => (TypeInv /\ NoStray /\ HalfwayInv)'
    BY TypeStep, StrayStep
  <1> QED
    BY <1>1, <1>2, PTL DEF Spec

-----------------------------------------------------------------------------
(* Frames of two connections do not meet.                                  *)

\* Somebody who was about to tell still is, unless the listener has just been told.
LEMMA TellingGoesOn ==
    ASSUME TypeInv, NEW g \in Goroutine, NEW where, place[g] # "telling",
           place' = [place EXCEPT ![g] = where], UNCHANGED streamer, SomebodyTells
    PROVE  SomebodyTells'
  BY DEF TypeInv, TypeOK, SomebodyTells

\* Steps that put no connection in the place of the one that Read uses.
LEMMA MediumAside ==
    ASSUME MediumInv, UNCHANGED heard, Medium' \in {Medium, None},
           local'["reader"] \in {local["reader"], None},
           SomebodyTells => SomebodyTells'
    PROVE  MediumInv'
  BY DEF MediumInv

\* A connection whose stream is awaited has been made, and the one in hand is not one
\* of them yet.
FreshInv ==
    /\ \A c \in Conn : link[c] = "new" => streamer[c] = "none"
    /\ place["loop"] = "got" =>
          link[local["loop"]] # "new" /\ streamer[local["loop"]] = "none"

LEMMA FreshStep == TypeInv /\ FreshInv /\ [Next]_vars => FreshInv'
  <1> SUFFICES ASSUME TypeInv, FreshInv, [Next]_vars PROVE FreshInv'
    OBVIOUS
  <1> USE DEF TypeInv
  <1>1. /\ "loop" \in Goroutine /\ "reader" \in Goroutine /\ "writer" \in Goroutine
        /\ "reader" \in Worker /\ "writer" \in Worker
    BY DEF Goroutine, Worker
  <1>2. ASSUME \A c \in Conn : link'[c] = "new" => link[c] = "new", UNCHANGED streamer,
               \/ place'["loop"] # "got"
               \/ place'["loop"] = place["loop"] /\ local'["loop"] = local["loop"]
        PROVE  FreshInv'
    BY <1>2 DEF FreshInv, LoopInv
  <1>3. ASSUME NEW d \in Conn \cup {None}, Drop(d)
        PROVE  \A c \in Conn : link'[c] = "new" => link[c] = "new"
    BY <1>3 DEF Drop, TypeOK
  <1>4. conn \in Conn \cup {None} /\ local["loop"] \in Conn \cup {None}
    BY <1>1 DEF TypeOK
  <1>5. CASE Connecting
    <2>1. PICK c \in Conn : Connect(c)
      BY <1>5 DEF Connecting
    <2>2. /\ link[c] = "new" /\ link' = [link EXCEPT ![c] = "open"] /\ UNCHANGED streamer
          /\ place'["loop"] = "got" /\ local'["loop"] = c
      BY <1>1, <2>1 DEF Connect, GoWith, Go, TypeOK
    <2> QED
      BY <2>2 DEF FreshInv, TypeOK
  <1>6. CASE QuicStoreAccepted
    <2>1. /\ place["loop"] = "got" /\ place'["loop"] = "idle" /\ Drop(conn)
          /\ streamer' = [streamer EXCEPT ![local["loop"]] = "waiting"]
      BY <1>1, <1>6 DEF QuicStoreAccepted, GoWith, Go, TypeOK
    <2>2. \A c \in Conn : link'[c] = "new" => link[c] = "new"
      BY <1>3, <1>4, <2>1
    <2>3. local["loop"] \in Conn /\ link[local["loop"]] # "new"
      BY <2>1 DEF LoopInv, FreshInv
    <2> QED
      BY <2>1, <2>2, <2>3 DEF FreshInv, TypeOK
  <1>7. CASE \/ AcceptLoopBegins \/ ReconnectLoopBegins \/ ConnectFails \/ Tell("loop")
             \/ TcpStoreAccepted \/ TcpStoreDialled \/ QuicStoreDialled \/ QuicStoreStream
    <2>1. UNCHANGED streamer /\ place'["loop"] # "got"
      BY <1>1, <1>7 DEF AcceptLoopBegins, ReconnectLoopBegins, ConnectFails, Tell,
         TcpStoreAccepted, TcpStoreDialled, QuicStoreDialled, QuicStoreStream, GoWith, Go, Rest,
         TypeOK
    <2>2. Drop(conn) \/ Drop(local["loop"]) \/ UNCHANGED link
      BY <1>7 DEF AcceptLoopBegins, ReconnectLoopBegins, ConnectFails, Tell,
         TcpStoreAccepted, TcpStoreDialled, QuicStoreDialled, QuicStoreStream
    <2> QED
      BY <1>2, <1>3, <1>4, <2>1, <2>2
  <1>8. CASE Read \/ Write
    <2>1. /\ UNCHANGED streamer /\ place'["loop"] = place["loop"]
          /\ local'["loop"] = local["loop"]
      BY <1>1, <1>8 DEF Read, Write, Taking, Look, Pick, PickNone, Fail, HandleError, FrameArrives, HandUp, WriteDone,
         TcpHandleError, QuicDropStream, QuicDropConnection, Tell, GoWith, Go, TypeOK, Worker
    <2>2. Drop(conn) \/ UNCHANGED link
      BY <1>8 DEF Read, Write, Taking, Look, Pick, PickNone, Fail, HandleError, FrameArrives, HandUp, WriteDone,
         TcpHandleError, QuicDropStream, QuicDropConnection, Tell
    <2> QED
      BY <1>2, <1>3, <1>4, <2>1, <2>2
  <1>9. CASE CloseCancels \/ Closing \/ UNCHANGED vars
    <2>1. UNCHANGED <<streamer, place, local>> /\ (Drop(conn) \/ UNCHANGED link)
      BY <1>9 DEF CloseCancels, Closing, CloseListener, QuicCloseStream, CloseConnection,
                  CloseReturns, vars
    <2> QED
      BY <1>2, <1>3, <1>4, <2>1
  <1>10. ASSUME NEW c \in Conn, Streamer(c) PROVE FreshInv'
    <2>1. /\ UNCHANGED <<link, place, local>> /\ streamer[c] # "none"
          /\ \A d \in Conn \ {c} : streamer'[d] = streamer[d]
      BY <1>10 DEF Streamer, QuicAcceptStream, QuicStoreAcceptedStream, StreamerTells, TypeOK
    <2> QED
      BY <2>1 DEF FreshInv, LoopInv
  <1>11. ASSUME NEW c \in Conn, Break(c) PROVE FreshInv'
    <2>1. /\ UNCHANGED <<streamer, place, local>>
          /\ \A d \in Conn : link'[d] = "new" => link[d] = "new"
      BY <1>11 DEF Break, TypeOK
    <2> QED
      BY <1>2, <2>1
  <1> QED
    BY <1>5, <1>6, <1>7, <1>8, <1>9, <1>10, <1>11 DEF Next, Loop

LEMMA MediumStep == TypeInv /\ FreshInv /\ MediumInv /\ [Next]_vars => MediumInv'
  <1> SUFFICES ASSUME TypeInv, FreshInv, MediumInv, [Next]_vars PROVE MediumInv'
    OBVIOUS
  <1>1. /\ "loop" \in Goroutine /\ "reader" \in Goroutine /\ "writer" \in Goroutine
        /\ "reader" \in Worker /\ "writer" \in Worker
    BY DEF Goroutine, Worker
  <1>2. CASE \/ AcceptLoopBegins \/ ReconnectLoopBegins \/ ConnectFails \/ Connecting
             \/ QuicStoreDialled
    <2>1. /\ UNCHANGED <<kind, stream, streamer, heard>> /\ (Tcp => UNCHANGED conn)
          /\ place["loop"] # "telling"
          /\ \E where : place' = [place EXCEPT !["loop"] = where]
          /\ local'["reader"] = local["reader"]
      BY <1>1, <1>2 DEF AcceptLoopBegins, ReconnectLoopBegins, ConnectFails, Connecting, Connect,
                  QuicStoreDialled, GoWith, Go, TypeInv, TypeOK
    <2>2. SomebodyTells => SomebodyTells'
      BY <1>1, <2>1, TellingGoesOn
    <2> QED
      BY <2>1, <2>2, MediumAside DEF Medium, Tcp
  <1>3. ASSUME NEW g \in Goroutine, Tell(g) PROVE MediumInv'
    BY <1>3 DEF Tell, MediumInv
  <1>4. CASE TcpStoreAccepted \/ TcpStoreDialled \/ QuicStoreStream
    <2>1. place'["loop"] = "telling"
      BY <1>1, <1>4 DEF TcpStoreAccepted, TcpStoreDialled, QuicStoreStream, GoWith, Go,
                        TypeInv, TypeOK
    <2> QED
      BY <1>1, <2>1 DEF MediumInv, SomebodyTells
  <1>5. CASE QuicStoreAccepted
    <2>1. /\ UNCHANGED <<kind, stream, heard>> /\ ~Tcp
          /\ place["loop"] = "got" /\ place' = [place EXCEPT !["loop"] = "idle"]
          /\ streamer' = [streamer EXCEPT ![local["loop"]] = "waiting"]
          /\ local'["reader"] = local["reader"]
      BY <1>1, <1>5 DEF QuicStoreAccepted, GoWith, Go, TypeInv, TypeOK
    <2>2. streamer[local["loop"]] = "none"
      BY <2>1 DEF FreshInv
    <2>3. /\ \A g \in Goroutine : place[g] = "telling" => place'[g] = "telling"
          /\ \A c \in Conn : streamer[c] = "telling" => streamer'[c] = "telling"
      BY <2>1, <2>2 DEF TypeInv, TypeOK
    <2> QED
      BY <2>1, <2>3, MediumAside DEF Medium, Tcp, SomebodyTells
  <1>6. ASSUME NEW w \in Worker,
               \/ Look(w) \/ PickNone(w) \/ Fail(w)
               \/ TcpHandleError(w) \/ QuicDropStream(w) \/ QuicDropConnection(w)
               \/ w = "reader" /\ FrameArrives
               \/ w = "writer" /\ (WriteDone \/ Pick(w))
        PROVE  MediumInv'
    <2>1. w \in Goroutine
      BY <1>1 DEF Worker
    <2>2. /\ UNCHANGED <<kind, streamer, heard>> /\ place[w] # "telling"
          /\ \E where : place' = [place EXCEPT ![w] = where]
      BY <1>6 DEF Look, Pick, PickNone, Fail, TcpHandleError, QuicDropStream,
                  QuicDropConnection, FrameArrives, WriteDone, GoWith, Go
    <2>3. local'["reader"] \in {local["reader"], None}
      BY <1>1, <1>6, <2>1 DEF Look, Pick, PickNone, Fail, TcpHandleError, QuicDropStream,
                  QuicDropConnection, FrameArrives, WriteDone, GoWith, TypeInv, TypeOK
    <2>4. Medium' \in {Medium, None}
      BY <1>6, <2>2 DEF Look, Pick, PickNone, Fail, TcpHandleError, QuicDropStream,
                  QuicDropConnection, FrameArrives, WriteDone, Medium, Tcp
    <2>5. SomebodyTells => SomebodyTells'
      BY <2>1, <2>2, TellingGoesOn
    <2> QED
      BY <2>2, <2>3, <2>4, <2>5, MediumAside
  <1>7. CASE HandUp \/ Pick("reader")
    <2>1. /\ UNCHANGED <<kind, conn, stream, streamer>> /\ place["reader"] # "telling"
          /\ \E where : place' = [place EXCEPT !["reader"] = where]
      BY <1>7 DEF HandUp, Pick, GoWith, Go
    <2>2. SomebodyTells => SomebodyTells'
      BY <1>1, <2>1, TellingGoesOn
    <2>3. UNCHANGED Medium
      BY <2>1 DEF Medium, Tcp
    <2>4. CASE HandUp
      <3>1. /\ lastFrom' = local["reader"] /\ local'["reader"] = None
            /\ late' \/ Medium \in {None, lastFrom'}
        BY <1>1, <2>4 DEF HandUp, GoWith, TypeInv, TypeOK
      <3> QED
        BY <2>3, <3>1 DEF MediumInv
    <2>5. CASE Pick("reader")
      <3>1. UNCHANGED heard /\ Medium # None /\ local'["reader"] = Medium
        BY <1>1, <2>5 DEF Pick, GoWith, TypeInv, TypeOK
      <3> QED
        BY <2>2, <2>3, <3>1 DEF MediumInv
    <2> QED
      BY <1>7, <2>4, <2>5
  <1>9. CASE CloseCancels \/ Closing \/ UNCHANGED vars \/ \E c \in Conn : Break(c)
    <2>1. /\ UNCHANGED <<kind, streamer, place, local, heard>>
          /\ conn' \in {conn, None} /\ stream' \in {stream, None}
      BY <1>9 DEF CloseCancels, Closing, CloseListener, QuicCloseStream, CloseConnection,
                  CloseReturns, vars, Break
    <2> QED
      BY <2>1, MediumAside DEF Medium, Tcp, SomebodyTells
  <1>11. ASSUME NEW c \in Conn, Streamer(c) PROVE MediumInv'
    <2>1. CASE QuicAcceptStream(c)
      <3>1. /\ UNCHANGED <<kind, conn, stream, place, local, heard>>
            /\ \A d \in Conn : streamer[d] = "telling" => streamer'[d] = "telling"
        BY <2>1 DEF QuicAcceptStream, TypeInv, TypeOK
      <3> QED
        BY <3>1, MediumAside DEF Medium, Tcp, SomebodyTells
    <2>2. CASE QuicStoreAcceptedStream(c)
      BY <2>2 DEF QuicStoreAcceptedStream, MediumInv, SomebodyTells, TypeInv, TypeOK
    <2>3. CASE StreamerTells(c)
      BY <2>3 DEF StreamerTells, MediumInv
    <2> QED
      BY <1>11, <2>1, <2>2, <2>3 DEF Streamer
  <1>12. CASE Read
    BY <1>12, <1>1, <1>3, <1>6, <1>7 DEF Read, HandleError, Taking
  <1>13. CASE Write
    BY <1>13, <1>1, <1>3, <1>6 DEF Write, HandleError, Taking
  <1>14. CASE Loop
    BY <1>14, <1>1, <1>2, <1>3, <1>4, <1>5 DEF Loop
  <1> QED
    BY <1>2, <1>9, <1>11, <1>12, <1>13, <1>14 DEF Next

\* Parts of frames of two connections meet in the listener's reassembly only while
\* somebody is still about to tell it that the connection has changed, or after the frame
\* that had been read of the old connection when the new one took its place.
THEOREM ReassemblyIsReset == Spec => ResetBetween
  <1>1. Init => TypeInv /\ FreshInv /\ MediumInv
    <2>1. Init => FreshInv /\ MediumInv
      BY DEF Init, FreshInv, MediumInv, Goroutine
    <2> QED
      BY <2>1, TypeInit
  <1>2. TypeInv /\ FreshInv /\ MediumInv /\ [Next]_vars => (TypeInv /\ FreshInv /\ MediumInv)'
    BY TypeStep, FreshStep, MediumStep
  <1>3. TypeInv /\ MediumInv /\ [Next]_vars =>
            [lastFrom' \notin {None, lastFrom} /\ lastFrom # None => SomebodyTells \/ late]_vars
    <2> SUFFICES ASSUME TypeInv, MediumInv, [Next]_vars,
                        lastFrom' \notin {None, lastFrom}, lastFrom # None
                 PROVE  SomebodyTells \/ late
      OBVIOUS
    <2>1. HandUp
      BY DEF Next, Connecting, Loop, Read, Write, HandleError, Closing, Streamer, vars,
         Connect, AcceptLoopBegins, ReconnectLoopBegins, ConnectFails, TcpStoreAccepted,
         TcpStoreDialled, QuicStoreDialled, QuicStoreStream, QuicStoreAccepted, Tell, Taking, Look,
         Pick, PickNone, FrameArrives, Fail, TcpHandleError, QuicDropStream, QuicDropConnection, WriteDone,
         CloseCancels, CloseListener, QuicCloseStream, CloseConnection, CloseReturns,
         QuicAcceptStream, QuicStoreAcceptedStream, StreamerTells, Break
    <2>2. lastFrom' = local["reader"]
      BY <2>1 DEF HandUp
    <2> QED
      BY <2>2 DEF MediumInv
  <1> QED
    BY <1>1, <1>2, <1>3, PTL DEF Spec, ResetBetween
=============================================================================
