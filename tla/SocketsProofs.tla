--------------------------- MODULE SocketsProofs ---------------------------
(***************************************************************************)
(* What a task remembers of a socket is a number; these proofs say what is *)
(* known of the connection behind it, for any number of descriptors,       *)
(* connections and queued frames.                                          *)
(***************************************************************************)
EXTENDS Sockets, TLAPS

(* Connections are numbered as they come.                                  *)
TableInv == \A f \in Fds : sock[f] <= conns

(* telnet_task's client is open until telnet_task closes it, and published *)
(* only in between.                                                        *)
ClientInv ==
  /\ telnet # "accept" => client \in Fds /\ sock[client] # NoConn /\ kind[sock[client]] = "telnet"
  /\ s_client_fd # NoFd => telnet \in {"poll", "clear"} /\ s_client_fd = client

(* A frame meant for descriptor f, checked when n was the newest.          *)
Meant(f, n) == f \in Sessions => kind[sock[f]] = "ws" \/ sock[f] > n

FramesInv ==
  /\ seen <= conns
  /\ push = "queue" => Min(fds) \in Fds /\ Meant(Min(fds), seen)
  /\ \A i \in DOMAIN work : work[i].newest <= conns /\ Meant(work[i].fd, work[i].newest)

IInv == SocketsTypeOK /\ TableInv /\ ClientInv /\ FramesInv

LEMMA InitIInv == SocketsInit => IInv
  BY SocketsAssumption
     DEF SocketsInit, IInv, SocketsTypeOK, TableInv, ClientInv, FramesInv,
         Conns, Works, NoConn, NoFd
----------------------------------------------------------------------------
(* What a step may do to the table without disturbing the frames: a        *)
(* descriptor keeps its connection, loses it, or gets a younger one, and   *)
(* an open page may become a dashboard.                                    *)
TableStep ==
  /\ sock' \in [Fds -> {NoConn} \cup Conns]
  /\ kind' \in [Conns -> {"telnet", "http", "ws"}]
  /\ conns' \in 0..MaxConns /\ conns <= conns'
  /\ TableInv'
  /\ \A f \in Fds :
       \/ sock'[f] = NoConn
       \/ sock'[f] > conns
       \/ sock'[f] = sock[f] /\ kind'[sock'[f]] = kind[sock[f]]
       \/ sock'[f] = sock[f] /\ kind[sock[f]] = "http" /\ kind'[sock'[f]] = "ws"

(* accept(): the new connection disturbs no other one.                     *)
LEMMA OpenKeeps ==
  ASSUME SocketsTypeOK, TableInv, NEW k \in {"telnet", "http"}, NEW f \in Fds, Open(k, f)
  PROVE  /\ TableStep
         /\ sock'[f] # NoConn /\ kind'[sock'[f]] = k
         /\ \A g \in Fds : sock[g] # NoConn =>
              sock'[g] = sock[g] /\ kind'[sock'[g]] = kind[sock[g]]
  <1>1. conns + 1 \in Conns /\ conns \in Nat /\ MaxConns \in Nat /\ conns' = conns + 1
    BY SocketsAssumption DEF Open, SocketsTypeOK, Conns
  <1>2. sock' = [sock EXCEPT ![f] = conns + 1] /\ kind' = [kind EXCEPT ![conns + 1] = k]
    BY DEF Open
  <1>3. sock[f] = NoConn
    BY DEF Open, FreeFds
  <1>4. sock \in [Fds -> {NoConn} \cup Conns] /\ kind \in [Conns -> {"telnet", "http", "ws"}]
    BY DEF SocketsTypeOK
  <1>5. sock' \in [Fds -> {NoConn} \cup Conns] /\ kind' \in [Conns -> {"telnet", "http", "ws"}]
    BY <1>1, <1>2, <1>4
  <1>6. sock'[f] = conns + 1 /\ kind'[conns + 1] = k
    BY <1>1, <1>2, <1>4
  <1>7. ASSUME NEW g \in Fds, g # f
        PROVE  sock'[g] = sock[g] /\ sock[g] <= conns
    BY <1>2, <1>4, <1>7 DEF TableInv
  <1>8. ASSUME NEW g \in Fds, sock[g] # NoConn
        PROVE  sock'[g] = sock[g] /\ kind'[sock'[g]] = kind[sock[g]]
    <2>1. g # f
      BY <1>3, <1>8
    <2>2. sock'[g] = sock[g] /\ sock[g] <= conns /\ sock[g] \in Conns
      BY <1>7, <1>8, <1>4, <2>1
    <2>3. kind'[sock[g]] = kind[sock[g]]
      BY <2>2, <1>1, <1>2, <1>4 DEF Conns
    <2>4. QED
      BY <2>2, <2>3
  <1>9. conns' \in 0..MaxConns /\ conns <= conns'
    BY <1>1 DEF Conns
  <1>10. TableInv'
    <2>1. SUFFICES ASSUME NEW g \in Fds PROVE sock'[g] <= conns'
      BY DEF TableInv
    <2>2. CASE g = f
      BY <2>2, <1>1, <1>6
    <2>3. CASE g # f
      <3>1. sock[g] \in Nat
        BY <1>4 DEF NoConn, Conns
      <3>2. QED
        BY <1>7, <2>3, <1>1, <3>1
    <2>4. QED
      BY <2>2, <2>3
  <1>11. sock'[f] > conns /\ sock'[f] # NoConn
    BY <1>1, <1>6 DEF NoConn
  <1>12. ASSUME NEW g \in Fds
         PROVE  \/ sock'[g] = NoConn
                \/ sock'[g] > conns
                \/ sock'[g] = sock[g] /\ kind'[sock'[g]] = kind[sock[g]]
    <2>1. CASE g = f
      BY <2>1, <1>11
    <2>2. CASE sock[g] # NoConn
      BY <2>2, <1>8
    <2>3. CASE g # f /\ sock[g] = NoConn
      BY <2>3, <1>7
    <2>4. QED
      BY <2>1, <2>2, <2>3
  <1>13. TableStep
    BY <1>5, <1>9, <1>10, <1>12 DEF TableStep
  <1>14. QED
    BY <1>6, <1>8, <1>11, <1>13
----------------------------------------------------------------------------
(* close().                                                                *)
LEMMA CloseKeeps ==
  ASSUME SocketsTypeOK, TableInv, NEW f \in Fds, Close(f), UNCHANGED <<kind, conns>>
  PROVE  /\ TableStep
         /\ \A g \in Fds : g # f => sock'[g] = sock[g]
  <1>1. sock \in [Fds -> {NoConn} \cup Conns] /\ kind \in [Conns -> {"telnet", "http", "ws"}]
        /\ conns \in 0..MaxConns
    BY DEF SocketsTypeOK
  <1>2. sock' = [sock EXCEPT ![f] = NoConn] /\ kind' = kind /\ conns' = conns
    BY DEF Close
  <1>3. sock' \in [Fds -> {NoConn} \cup Conns]
    BY <1>1, <1>2
  <1>4. \A g \in Fds : g # f => sock'[g] = sock[g]
    BY <1>1, <1>2
  <1>5. sock'[f] = NoConn
    BY <1>1, <1>2
  <1>6. TableInv'
    BY <1>1, <1>2, <1>4, <1>5 DEF TableInv, NoConn
  <1>7. conns <= conns'
    BY <1>1, <1>2, SocketsAssumption
  <1>8. QED
    BY <1>1, <1>2, <1>3, <1>4, <1>5, <1>6, <1>7 DEF TableStep

LEMMA SameTable ==
  ASSUME SocketsTypeOK, TableInv, UNCHANGED table
  PROVE  TableStep
  <1>1. sock' = sock /\ kind' = kind /\ conns' = conns
    BY DEF table
  <1>2. conns <= conns'
    BY <1>1, SocketsAssumption DEF SocketsTypeOK
  <1>3. TableInv'
    BY <1>1 DEF TableInv
  <1>4. QED
    BY <1>1, <1>2, <1>3 DEF TableStep, SocketsTypeOK

(* A frame checked before the step is still meant for its descriptor.      *)
LEMMA MeantKept ==
  ASSUME SocketsTypeOK, TableInv, TableStep, NEW f \in Fds, NEW n \in 0..MaxConns,
         n <= conns, Meant(f, n)
  PROVE  Meant(f, n)'
  <1>1. SUFFICES ASSUME f \in Sessions'
                 PROVE  kind'[sock'[f]] = "ws" \/ sock'[f] > n
    BY DEF Meant
  <1>2. sock'[f] # NoConn /\ kind'[sock'[f]] # "telnet"
    BY <1>1 DEF Sessions, IsOpen
  <1>3. n \in Nat /\ conns \in Nat /\ sock[f] \in Nat /\ sock'[f] \in Nat
    BY SocketsAssumption DEF SocketsTypeOK, TableStep, Conns, NoConn
  <1>4. CASE sock'[f] > conns
    BY <1>3, <1>4
  <1>5. CASE sock'[f] = sock[f] /\ kind'[sock'[f]] = kind[sock[f]]
    <2>1. f \in Sessions
      BY <1>1, <1>5 DEF Sessions, IsOpen
    <2>2. QED
      BY <1>5, <2>1 DEF Meant
  <1>6. CASE kind'[sock'[f]] = "ws"
    BY <1>6
  <1>7. QED
    BY <1>2, <1>4, <1>5, <1>6 DEF TableStep

LEMMA FramesKept ==
  ASSUME SocketsTypeOK, TableInv, FramesInv, TableStep, UNCHANGED push_vars
  PROVE  FramesInv'
  <1>1. push' = push /\ fds' = fds /\ seen' = seen /\ work' = work
    BY DEF push_vars
  <1>2. /\ seen \in 0..MaxConns /\ conns \in Nat /\ conns' \in Nat /\ conns <= conns'
    BY SocketsAssumption DEF SocketsTypeOK, TableStep
  <1>3. seen' <= conns'
    BY <1>1, <1>2, SocketsAssumption DEF FramesInv
  <1>4. ASSUME push' = "queue"
        PROVE  Min(fds) \in Fds /\ Meant(Min(fds), seen)'
    <2>1. Min(fds) \in Fds /\ Meant(Min(fds), seen)
      BY <1>1, <1>4 DEF FramesInv
    <2>2. seen <= conns
      BY DEF FramesInv
    <2>3. Min(fds') = Min(fds)
      BY <1>1
    <2>4. QED
      <3> DEFINE f == Min(fds)
      <3>1. f \in Fds /\ Meant(f, seen)
        BY <2>1
      <3>2. f' = f
        BY <2>3
      <3> HIDE DEF f
      <3>3. (f \in Sessions)' => kind'[sock'[f]] = "ws" \/ sock'[f] > seen
        BY <3>1, <3>2, <1>2, <2>2, MeantKept DEF Meant
      <3>4. QED
        BY <3>1, <3>2, <3>3, <1>1 DEF Meant, f
  <1>5. ASSUME NEW i \in DOMAIN work
        PROVE  work[i].newest <= conns' /\ Meant(work[i].fd, work[i].newest)'
    <2> work \in Seq(Works)
      BY DEF SocketsTypeOK
    <2> work[i] \in Works
      BY <1>5
    <2>1. work[i].fd \in Fds /\ work[i].newest \in 0..MaxConns
      BY DEF Works
    <2>2. work[i].newest <= conns /\ Meant(work[i].fd, work[i].newest)
      BY <1>5 DEF FramesInv
    <2>3. work[i].newest <= conns'
      BY <1>2, <2>1, <2>2
    <2>4. QED
      BY <2>1, <2>2, <2>3, <1>1, MeantKept DEF Meant
  <1>6. QED
    BY <1>1, <1>3, <1>4, <1>5 DEF FramesInv
----------------------------------------------------------------------------
(* The conjuncts of IInv that a step leaves alone with their variables.    *)
LEMMA ClientKept ==
  ASSUME SocketsTypeOK, ClientInv, UNCHANGED telnet_vars,
         \A f \in Fds : sock[f] # NoConn /\ kind[sock[f]] = "telnet" =>
            sock'[f] = sock[f] /\ kind'[sock'[f]] = "telnet"
  PROVE  ClientInv'
  BY DEF SocketsTypeOK, ClientInv, telnet_vars

LEMMA TelnetKeeps == IInv /\ TelnetNext => IInv'
  <1> SUFFICES ASSUME SocketsTypeOK, TableInv, ClientInv, FramesInv, TelnetNext
               PROVE  IInv'
    BY DEF IInv
  <1>1. ASSUME TelnetAccept
        PROVE  IInv'
    <2>1. PICK f \in Fds : Open("telnet", f) /\ client' = f
      BY <1>1 DEF TelnetAccept
    <2>2. /\ TableStep
          /\ sock'[f] # NoConn /\ kind'[sock'[f]] = "telnet"
      BY <2>1, OpenKeeps
    <2>3. FramesInv'
      BY <1>1, <2>2, FramesKept DEF TelnetAccept
    <2>4. ClientInv'
      BY <1>1, <2>1, <2>2 DEF TelnetAccept, ClientInv, NoFd
    <2>5. SocketsTypeOK'
      BY <1>1, <2>1, <2>2 DEF TelnetAccept, SocketsTypeOK, TableStep, log_vars, push_vars,
                              Conns, Works
    <2>6. QED
      BY <2>2, <2>3, <2>4, <2>5 DEF IInv, TableStep
  <1>2. ASSUME TelnetPublish \/ TelnetGone \/ TelnetClear
        PROVE  IInv'
    <2>1. UNCHANGED <<table, log_vars, push_vars>> /\ client' = client
      BY <1>2 DEF TelnetPublish, TelnetGone, TelnetClear
    <2>2. TableStep
      BY <2>1, SameTable
    <2>3. FramesInv'
      BY <2>1, <2>2, FramesKept
    <2>4. ClientInv'
      BY <1>2, <2>1 DEF TelnetPublish, TelnetGone, TelnetClear, ClientInv, table, NoFd
    <2>5. SocketsTypeOK'
      BY <1>2, <2>1, <2>2 DEF TelnetPublish, TelnetGone, TelnetClear, SocketsTypeOK, TableStep,
                              table, log_vars, push_vars, Conns, Works
    <2>6. QED
      BY <2>2, <2>3, <2>4, <2>5 DEF IInv, TableStep
  <1>3. ASSUME TelnetClose
        PROVE  IInv'
    <2>1. client \in Fds /\ Close(client) /\ UNCHANGED <<kind, conns>>
      BY <1>3 DEF TelnetClose, ClientInv
    <2>2. TableStep
      BY <2>1, CloseKeeps
    <2>3. FramesInv'
      BY <1>3, <2>2, FramesKept DEF TelnetClose
    <2>4. ClientInv'
      BY <1>3 DEF TelnetClose, ClientInv, NoFd
    <2>5. SocketsTypeOK'
      BY <1>3, <2>2 DEF TelnetClose, SocketsTypeOK, TableStep, log_vars, push_vars,
                        Conns, Works
    <2>6. QED
      BY <2>2, <2>3, <2>4, <2>5 DEF IInv, TableStep
  <1>4. QED
    BY <1>1, <1>2, <1>3 DEF TelnetNext

LEMMA LoggerKeeps == IInv /\ (LoggerNext \/ EnqueueLog) => IInv'
  <1> SUFFICES ASSUME SocketsTypeOK, TableInv, ClientInv, FramesInv,
                      LoggerNext \/ EnqueueLog
               PROVE  IInv'
    BY DEF IInv
  <1>1. UNCHANGED <<table, telnet_vars, push_vars>>
    BY DEF LoggerNext, LogReceive, LogFd, LogSend, EnqueueLog
  <1>2. TableStep
    BY <1>1, SameTable
  <1>3. FramesInv'
    BY <1>1, <1>2, FramesKept
  <1>4. ClientInv'
    BY <1>1 DEF ClientInv, table, telnet_vars
  <1>5. log' \in 0..LogDepth
    BY SocketsAssumption
       DEF LoggerNext, LogReceive, LogFd, LogSend, EnqueueLog, SocketsTypeOK
  <1>6. logger' \in {"receive", "fd", "text", "crlf"} /\ fd' \in Fds \cup {NoFd}
    BY DEF LoggerNext, LogReceive, LogFd, LogSend, EnqueueLog, SocketsTypeOK
  <1>7. SocketsTypeOK'
    BY <1>1, <1>5, <1>6 DEF SocketsTypeOK, table, telnet_vars, push_vars, Conns, Works
  <1>8. QED
    BY <1>2, <1>3, <1>4, <1>7 DEF IInv, TableStep

LEMMA HttpdKeeps == IInv /\ HttpdNext => IInv'
  <1> SUFFICES ASSUME SocketsTypeOK, TableInv, ClientInv, FramesInv, HttpdNext
               PROVE  IInv'
    BY DEF IInv
  <1>1. ASSUME UNCHANGED <<telnet_vars, log_vars, push_vars>>, TableStep,
               \A f \in Fds : sock[f] # NoConn /\ kind[sock[f]] = "telnet" =>
                  sock'[f] = sock[f] /\ kind'[sock'[f]] = "telnet"
        PROVE  IInv'
    <2>1. FramesInv'
      BY <1>1, FramesKept
    <2>2. ClientInv'
      BY <1>1, ClientKept
    <2>3. SocketsTypeOK'
      BY <1>1 DEF SocketsTypeOK, TableStep, telnet_vars, log_vars, push_vars, Conns, Works
    <2>4. QED
      BY <1>1, <2>1, <2>2, <2>3 DEF IInv, TableStep
  <1>2. ASSUME HttpdAccept
        PROVE  IInv'
    <2>1. PICK f \in Fds : Open("http", f)
      BY <1>2 DEF HttpdAccept
    <2>2. TableStep /\ \A g \in Fds : sock[g] # NoConn =>
                          sock'[g] = sock[g] /\ kind'[sock'[g]] = kind[sock[g]]
      BY <2>1, OpenKeeps
    <2>3. QED
      BY <1>1, <1>2, <2>2 DEF HttpdAccept
  <1>3. ASSUME HttpdUpgrade
        PROVE  IInv'
    <2>1. PICK f \in Sessions : kind[sock[f]] = "http" /\ kind' = [kind EXCEPT ![sock[f]] = "ws"]
      BY <1>3 DEF HttpdUpgrade
    <2>2. sock' = sock /\ conns' = conns
      BY <1>3 DEF HttpdUpgrade
    <2>3. f \in Fds /\ sock[f] \in Conns
      BY <2>1 DEF Sessions, IsOpen, SocketsTypeOK
    <2>4. kind' \in [Conns -> {"telnet", "http", "ws"}]
      BY <2>1, <2>3 DEF SocketsTypeOK
    <2>5. \A c \in Conns : kind'[c] = IF c = sock[f] THEN "ws" ELSE kind[c]
      BY <2>1, <2>3 DEF SocketsTypeOK
    <2>6. TableInv' /\ conns <= conns'
      BY <2>2, SocketsAssumption DEF TableInv, SocketsTypeOK
    <2>7. \A g \in Fds : sock[g] \in {NoConn} \cup Conns
      BY DEF SocketsTypeOK
    <2>8. ASSUME NEW g \in Fds
          PROVE  \/ sock'[g] = NoConn
                 \/ sock'[g] = sock[g] /\ kind'[sock'[g]] = kind[sock[g]]
                 \/ sock'[g] = sock[g] /\ kind[sock[g]] = "http" /\ kind'[sock'[g]] = "ws"
      BY <2>1, <2>2, <2>5, <2>7
    <2>9. TableStep
      BY <2>2, <2>4, <2>6, <2>8 DEF TableStep, SocketsTypeOK
    <2>10. \A g \in Fds : sock[g] # NoConn /\ kind[sock[g]] = "telnet" =>
              sock'[g] = sock[g] /\ kind'[sock'[g]] = "telnet"
      BY <2>1, <2>2, <2>5, <2>7
    <2>11. QED
      BY <1>1, <1>3, <2>9, <2>10 DEF HttpdUpgrade
  <1>4. ASSUME HttpdClose
        PROVE  IInv'
    <2>1. PICK f \in Sessions : Close(f)
      BY <1>4 DEF HttpdClose
    <2>2. f \in Fds /\ kind[sock[f]] # "telnet"
      BY DEF Sessions, IsOpen
    <2>3. kind' = kind /\ conns' = conns
      BY <1>4 DEF HttpdClose
    <2>4. TableStep /\ \A g \in Fds : g # f => sock'[g] = sock[g]
      BY <2>1, <2>2, <2>3, CloseKeeps
    <2>5. \A g \in Fds : sock[g] # NoConn /\ kind[sock[g]] = "telnet" =>
            sock'[g] = sock[g] /\ kind'[sock'[g]] = "telnet"
      BY <2>2, <2>3, <2>4
    <2>6. QED
      BY <1>1, <1>4, <2>4, <2>5 DEF HttpdClose
  <1>5. ASSUME WsSendCb
        PROVE  IInv'
    <2>1. UNCHANGED <<table, telnet_vars, log_vars, push, fds, seen>> /\ work # <<>>
          /\ work' = Tail(work)
      BY <1>5 DEF WsSendCb
    <2> work \in Seq(Works) /\ Len(work) <= WorkLen
      BY DEF SocketsTypeOK
    <2>2. /\ work' \in Seq(Works) /\ Len(work') = Len(work) - 1
          /\ \A i \in DOMAIN work' : i + 1 \in DOMAIN work /\ work'[i] = work[i + 1]
      BY <2>1
    <2>3. Len(work') <= WorkLen
      BY <2>1, <2>2, SocketsAssumption
    <2>4. SocketsTypeOK'
      BY <2>1, <2>2, <2>3 DEF SocketsTypeOK, table, telnet_vars, log_vars, Conns, Works
    <2>5. FramesInv'
      BY <2>1, <2>2 DEF FramesInv, Meant, Sessions, IsOpen, table
    <2>6. QED
      BY <2>1, <2>4, <2>5 DEF IInv, TableInv, ClientInv, table, telnet_vars
  <1>6. QED
    BY <1>2, <1>3, <1>4, <1>5 DEF HttpdNext
----------------------------------------------------------------------------
(* The push leaves everything but its own variables.                       *)
LEMMA PushLeaves ==
  ASSUME SocketsTypeOK, TableInv, ClientInv, UNCHANGED <<table, telnet_vars, log_vars>>
  PROVE  TableInv' /\ ClientInv' /\ \A f, n : Meant(f, n)' <=> Meant(f, n)
  BY DEF TableInv, ClientInv, Meant, Sessions, IsOpen, table, telnet_vars

LEMMA PushKeeps == IInv /\ PushNext => IInv'
  <1> SUFFICES ASSUME SocketsTypeOK, TableInv, ClientInv, FramesInv, PushNext
               PROVE  IInv'
    BY DEF IInv
  <1>1. UNCHANGED <<table, telnet_vars, log_vars>>
    BY DEF PushNext, PushList, PushCheck, PushQueue
  <1>2. TableInv' /\ ClientInv' /\ Sessions \subseteq Fds
        /\ sock' = sock /\ kind' = kind /\ conns' = conns
    BY <1>1, PushLeaves DEF Sessions, table
  <1>3. ASSUME push' \in {"idle", "check", "queue"}, fds' \subseteq Fds, seen' \in 0..MaxConns,
               work' \in Seq(Works), Len(work') <= WorkLen, FramesInv'
        PROVE  IInv'
    <2>1. SocketsTypeOK'
      BY <1>1, <1>3 DEF SocketsTypeOK, table, telnet_vars, log_vars, Conns, Works
    <2>2. QED
      BY <1>2, <1>3, <2>1 DEF IInv
  <1>4. push \in {"idle", "check", "queue"} /\ fds \subseteq Fds /\ seen \in 0..MaxConns
        /\ work \in Seq(Works) /\ Len(work) <= WorkLen /\ conns \in 0..MaxConns
    BY DEF SocketsTypeOK
  <1>5. \A i \in DOMAIN work : work[i].newest <= conns /\ Meant(work[i].fd, work[i].newest)
    BY DEF FramesInv
  <1>6. ASSUME PushList
        PROVE  IInv'
    <2>1. fds' = Sessions /\ push' \in {"idle", "check"} /\ seen' = seen /\ work' = work
      BY <1>6 DEF PushList
    <2>2. FramesInv'
      BY <1>2, <2>1 DEF FramesInv, Meant, Sessions, IsOpen
    <2>3. QED
      BY <1>2, <1>3, <1>4, <2>1, <2>2
  <1>7. ASSUME PushCheck
        PROVE  IInv'
    <2>1. CASE IsWebsocket(Min(fds))
      <3>1. push' = "queue" /\ seen' = conns /\ fds' = fds /\ work' = work
        BY <1>7, <2>1 DEF PushCheck
      <3> DEFINE f == Min(fds)
      <3>2. f' = f
        BY <3>1
      <3>3. f \in Fds /\ kind[sock[f]] = "ws"
        BY <2>1 DEF IsWebsocket, Sessions
      <3> HIDE DEF f
      <3>4. kind'[sock'[f]] = "ws"
        BY <1>2, <3>3
      <3>5. f' \in Fds /\ Meant(f, seen)'
        BY <3>2, <3>3, <3>4 DEF Meant
      <3>6. \A i \in DOMAIN work : Meant(work[i].fd, work[i].newest)'
        BY <1>1, <1>5, <3>1, PushLeaves
      <3>7. seen' <= conns'
        BY <1>2, <1>4, <3>1, SocketsAssumption
      <3>8. FramesInv'
        BY <1>2, <1>5, <3>1, <3>5, <3>6, <3>7 DEF FramesInv, f
      <3>9. QED
        BY <1>3, <1>4, <3>1, <3>8
    <2>2. CASE ~IsWebsocket(Min(fds))
      <3>1. fds' \subseteq fds /\ push' \in {"idle", "check"} /\ seen' = seen /\ work' = work
        BY <1>7, <2>2 DEF PushCheck, NextClient
      <3>2. \A i \in DOMAIN work : Meant(work[i].fd, work[i].newest)'
        BY <1>1, <1>5, <3>1, PushLeaves
      <3>3. FramesInv'
        BY <1>2, <1>5, <3>1, <3>2 DEF FramesInv
      <3>4. QED
        BY <1>3, <1>4, <3>1, <3>3
    <2>3. QED
      BY <2>1, <2>2
  <1>8. ASSUME PushQueue
        PROVE  IInv'
    <2>1. fds' \subseteq fds /\ push' \in {"idle", "check"} /\ seen' = seen /\ push = "queue"
      BY <1>8 DEF PushQueue, NextClient
    <2> DEFINE f == Min(fds)
    <2>2. f \in Fds /\ Meant(f, seen) /\ seen <= conns
      BY <2>1 DEF FramesInv
    <2>3. work' = work \/ (Len(work) < WorkLen /\ work' = Append(work, [fd |-> f, newest |-> seen]))
      BY <1>8 DEF PushQueue
    <2> HIDE DEF f
    <2>4. [fd |-> f, newest |-> seen] \in Works
      BY <1>4, <2>2 DEF Works
    <2>5. work' \in Seq(Works) /\ Len(work') <= WorkLen
      BY <1>4, <2>3, <2>4, SocketsAssumption
    <2>6. ASSUME NEW i \in DOMAIN work'
          PROVE  work'[i].newest <= conns /\ Meant(work'[i].fd, work'[i].newest)
      <3>1. CASE i \in DOMAIN work /\ work'[i] = work[i]
        BY <1>5, <3>1
      <3>2. CASE work'[i] = [fd |-> f, newest |-> seen]
        BY <2>2, <3>2
      <3>3. QED
        BY <1>4, <2>3, <2>4, <2>6, <3>1, <3>2
    <2>7. \A i \in DOMAIN work' : work'[i].newest <= conns' /\ Meant(work[i].fd, work[i].newest)'
      <3>1. SUFFICES ASSUME NEW i \in DOMAIN work'
                     PROVE  (work'[i].newest <= conns') /\ Meant(work[i].fd, work[i].newest)'
        OBVIOUS
      <3>2. work'[i].newest <= conns /\ Meant(work'[i].fd, work'[i].newest)
        BY <2>6
      <3>3. QED
        BY <1>2, <3>2 DEF Meant, Sessions, IsOpen
    <2>8. FramesInv'
      BY <1>2, <2>1, <2>2, <2>7 DEF FramesInv
    <2>9. QED
      BY <1>3, <1>4, <2>1, <2>5, <2>8
  <1>9. QED
    BY <1>6, <1>7, <1>8 DEF PushNext

LEMMA NextIInv == IInv /\ [SocketsNext]_socket_vars => IInv'
  <1> SUFFICES ASSUME IInv, [SocketsNext]_socket_vars PROVE IInv'
    OBVIOUS
  <1>1. CASE SocketsNext
    BY <1>1, TelnetKeeps, LoggerKeeps, HttpdKeeps, PushKeeps DEF SocketsNext
  <1>2. CASE UNCHANGED socket_vars
    BY <1>2 DEF socket_vars, table, telnet_vars, log_vars, push_vars, IInv, SocketsTypeOK, Conns,
                Works, TableInv, ClientInv, FramesInv, Meant, Sessions, IsOpen
  <1>3. QED
    BY <1>1, <1>2

(* Whatever httpd, the Telnet task and the logger do, the invariant holds. *)
THEOREM SocketsInvariant == SocketsSpec => []IInv
  BY InitIInv, NextIInv, PTL DEF SocketsSpec
----------------------------------------------------------------------------
(* The variables of the three tasks keep their types.                      *)
THEOREM SocketsTypes == SocketsSpec => []SocketsTypeOK
  <1>1. IInv => SocketsTypeOK
    BY DEF IInv
  <1>2. QED
    BY <1>1, SocketsInvariant, PTL

(* The descriptor telnet_server_send may read is an open Telnet client.    *)
THEOREM PublishedDescriptorIsOpen == SocketsSpec => []PublishedIsOpen
  <1>1. IInv => PublishedIsOpen
    BY DEF IInv, ClientInv, PublishedIsOpen, IsOpen
  <1>2. QED
    BY <1>1, SocketsInvariant, PTL

(* The kind check before a frame is queued holds until it is sent: the     *)
(* connection on its descriptor is a dashboard, or one younger than the    *)
(* check.  Of such a one, which has the descriptor again, nothing is said. *)
THEOREM FramesReachOnlyDashboards == SocketsSpec => []FramesReachDashboards
  <1>1. IInv => FramesReachDashboards
    BY DEF IInv, FramesInv, Meant, FramesReachDashboards
  <1>2. QED
    BY <1>1, SocketsInvariant, PTL
=============================================================================
