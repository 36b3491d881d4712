------------------------------ MODULE Sockets ------------------------------
(***************************************************************************)
(* Three tasks over one table of lwIP socket descriptors: telnet_task      *)
(* (telnet_server.c) and httpd accept and close connections, logger_task   *)
(* (main.c) sends the lines of the log queue (sensor_manager.c) to the     *)
(* Telnet client, and push_task queues a frame per dashboard on httpd      *)
(* (web_server.c).  A descriptor that was closed is given to the next      *)
(* connection that asks, the lowest free one first: what a task remembers  *)
(* is a number, not a connection.                                          *)
(***************************************************************************)
EXTENDS Integers, Sequences, FiniteSetsExt

CONSTANTS
  Fds,             \* descriptors left for connections (CONFIG_LWIP_MAX_SOCKETS)
  MaxConns,        \* bound: connections in one behaviour
  LogDepth,        \* LOG_QUEUE_DEPTH
  WorkLen          \* what httpd's control socket holds before it refuses

ASSUME SocketsAssumption ==
  /\ Fds \subseteq Nat /\ IsFiniteSet(Fds)
  /\ MaxConns \in Nat /\ LogDepth \in Nat \ {0} /\ WorkLen \in Nat

NoConn == 0
NoFd   == -1

VARIABLES
  sock,            \* per descriptor, the connection it is: NoConn if closed
  kind,            \* per connection: "telnet", "http" or, upgraded, "ws"
  conns,           \* connections so far: the number of the newest
  s_client_fd,     \* telnet_server.c
  telnet,          \* telnet_task: "accept", "publish", "poll", "clear" or "close"
  client,          \* ... and its client
  log,             \* lines in s_log_queue
  logger,          \* logger_task: "receive", "fd", "text" or "crlf"
  fd,              \* ... and the descriptor telnet_server_send has read
  push,            \* push_task: "idle", "check" or "queue"
  fds,             \* ... the rest of its client list
  seen,            \* ... and, of the frame in its hands, what work keeps
  work             \* httpd's queue: the descriptor of each ws_send_cb, with
                   \* the newest connection when its kind was checked

table       == <<sock, kind, conns>>
telnet_vars == <<s_client_fd, telnet, client>>
log_vars    == <<log, logger, fd>>
push_vars   == <<push, fds, seen, work>>
socket_vars == <<table, telnet_vars, log_vars, push_vars>>

Conns    == 1..MaxConns
FreeFds  == {f \in Fds : sock[f] = NoConn}
IsOpen(f) == f \in Fds /\ sock[f] # NoConn
Sessions == {f \in Fds : IsOpen(f) /\ kind[sock[f]] \in {"http", "ws"}}
Works    == [fd : Fds, newest : 0..MaxConns]

SocketsTypeOK ==
  /\ sock \in [Fds -> {NoConn} \cup Conns]
  /\ kind \in [Conns -> {"telnet", "http", "ws"}]
  /\ conns \in 0..MaxConns
  /\ s_client_fd \in Fds \cup {NoFd} /\ client \in Fds \cup {NoFd}
  /\ telnet \in {"accept", "publish", "poll", "clear", "close"}
  /\ log \in 0..LogDepth
  /\ logger \in {"receive", "fd", "text", "crlf"} /\ fd \in Fds \cup {NoFd}
  /\ push \in {"idle", "check", "queue"} /\ fds \subseteq Fds
  /\ seen \in 0..MaxConns
  /\ work \in Seq(Works) /\ Len(work) <= WorkLen

SocketsInit ==
  /\ sock = [f \in Fds |-> NoConn] /\ kind = [c \in Conns |-> "http"] /\ conns = 0
  /\ s_client_fd = NoFd /\ telnet = "accept" /\ client = NoFd
  /\ log = 0 /\ logger = "receive" /\ fd = NoFd
  /\ push = "idle" /\ fds = {} /\ seen = 0 /\ work = <<>>
----------------------------------------------------------------------------
(* accept(): the new connection takes the lowest free descriptor.          *)
Open(k, f) ==
  /\ conns < MaxConns /\ f \in FreeFds /\ \A g \in FreeFds : f <= g
  /\ conns' = conns + 1
  /\ sock' = [sock EXCEPT ![f] = conns + 1]
  /\ kind' = [kind EXCEPT ![conns + 1] = k]

Close(f) == sock' = [sock EXCEPT ![f] = NoConn]

(* telnet_task accepts, stores the descriptor under the mutex, polls until *)
(* the client has gone (recv: 0 or an error) ...                           *)
TelnetAccept ==
  /\ telnet = "accept"
  /\ \E f \in Fds : Open("telnet", f) /\ client' = f
  /\ telnet' = "publish"
  /\ UNCHANGED <<s_client_fd, log_vars, push_vars>>

TelnetPublish ==
  /\ telnet = "publish"
  /\ s_client_fd' = client
  /\ telnet' = "poll"
  /\ UNCHANGED <<table, client, log_vars, push_vars>>

TelnetGone ==
  /\ telnet = "poll"
  /\ telnet' = "clear"
  /\ UNCHANGED <<table, s_client_fd, client, log_vars, push_vars>>

(* Mutant: the socket is closed before the descriptor is cleared.          *)
TelnetClearLate ==
  /\ telnet = "clear"
  /\ Close(client) /\ telnet' = "close"
  /\ UNCHANGED <<kind, conns, s_client_fd, client, log_vars, push_vars>>

(* ... close_client: cleared under the mutex, closed after it.             *)
TelnetClear ==
  /\ telnet = "clear"
  /\ s_client_fd' = NoFd
  /\ telnet' = "close"
  /\ UNCHANGED <<table, client, log_vars, push_vars>>

TelnetClose ==
  /\ telnet = "close"
  /\ Close(client) /\ client' = NoFd
  /\ telnet' = "accept"
  /\ UNCHANGED <<kind, conns, s_client_fd, log_vars, push_vars>>
----------------------------------------------------------------------------
(* enqueue_log, from any task: dropped when the queue is full.             *)
EnqueueLog ==
  /\ log < LogDepth
  /\ log' = log + 1
  /\ UNCHANGED <<table, telnet_vars, logger, fd, push_vars>>

(* logger_task takes a line; telnet_server_send copies the descriptor      *)
(* under the mutex ...                                                     *)
LogReceive ==
  /\ logger = "receive" /\ log > 0
  /\ log' = log - 1
  /\ logger' = "fd"
  /\ UNCHANGED <<table, telnet_vars, fd, push_vars>>

LogFdWaits ==                      \* mutant: the line waits for a client
  /\ logger = "fd" /\ s_client_fd # NoFd
  /\ fd' = s_client_fd
  /\ logger' = "text"
  /\ UNCHANGED <<table, telnet_vars, log, push_vars>>

LogFd ==
  /\ logger = "fd"
  /\ fd' = s_client_fd
  /\ logger' = IF s_client_fd = NoFd THEN "receive" ELSE "text"
  /\ UNCHANGED <<table, telnet_vars, log, push_vars>>

(* ... and sends twice to whatever the descriptor is by then; MSG_DONTWAIT *)
(* never blocks, and nobody looks at the results.                          *)
LogSend ==
  /\ logger \in {"text", "crlf"}
  /\ logger' = IF logger = "text" THEN "crlf" ELSE "receive"
  /\ fd' = IF logger = "text" THEN fd ELSE NoFd
  /\ UNCHANGED <<table, telnet_vars, log, push_vars>>
----------------------------------------------------------------------------
(* httpd, a single task: accept, upgrade (ws_handler), close (the peer, an *)
(* error or the LRU purge) and the queued work, in any order.              *)
HttpdAccept ==
  /\ \E f \in Fds : Open("http", f)
  /\ UNCHANGED <<telnet_vars, log_vars, push_vars>>

HttpdUpgrade ==
  /\ \E f \in Sessions : kind[sock[f]] = "http" /\ kind' = [kind EXCEPT ![sock[f]] = "ws"]
  /\ UNCHANGED <<sock, conns, telnet_vars, log_vars, push_vars>>

HttpdClose ==
  /\ \E f \in Sessions : Close(f)
  /\ UNCHANGED <<kind, conns, telnet_vars, log_vars, push_vars>>

(* ws_send_cb: httpd_ws_send_frame_async looks the descriptor up among the *)
(* sessions and sends to whichever it finds.                               *)
WsSendCb ==
  /\ work # <<>>
  /\ work' = Tail(work)
  /\ UNCHANGED <<table, telnet_vars, log_vars, push, fds, seen>>

(* web_server_push_sensor_update: the client list is a copy.  (It always   *)
(* fits: MAX_WS_CLIENTS exceeds the sessions httpd allows.)                *)
PushList ==
  /\ push = "idle"
  /\ fds' = Sessions
  /\ push' = IF Sessions = {} THEN "idle" ELSE "check"
  /\ UNCHANGED <<table, telnet_vars, log_vars, seen, work>>

NextClient ==
  /\ fds' = fds \ {Min(fds)}
  /\ push' = IF fds' = {} THEN "idle" ELSE "check"

IsWebsocketListed(f) == TRUE       \* mutant: every session gets the frame
IsWebsocket(f) == f \in Sessions /\ kind[sock[f]] = "ws"

(* The head of the list: a WebSocket, or on to the next one ...            *)
PushCheck ==
  /\ push = "check"
  /\ IF IsWebsocket(Min(fds))
     THEN push' = "queue" /\ seen' = conns /\ UNCHANGED fds
     ELSE NextClient /\ UNCHANGED seen
  /\ UNCHANGED <<table, telnet_vars, log_vars, work>>

(* ... and its frame is queued, unless malloc or the queue refuses.        *)
PushQueue ==
  /\ push = "queue"
  /\ \/ UNCHANGED work
     \/ Len(work) < WorkLen /\ work' = Append(work, [fd |-> Min(fds), newest |-> seen])
  /\ NextClient
  /\ UNCHANGED <<table, telnet_vars, log_vars, seen>>

TelnetNext == TelnetAccept \/ TelnetPublish \/ TelnetGone \/ TelnetClear \/ TelnetClose
LoggerNext == LogReceive \/ LogFd \/ LogSend
HttpdNext  == HttpdAccept \/ HttpdUpgrade \/ HttpdClose \/ WsSendCb
PushNext   == PushList \/ PushCheck \/ PushQueue

SocketsNext == TelnetNext \/ EnqueueLog \/ LoggerNext \/ HttpdNext \/ PushNext

SocketsSpec == SocketsInit /\ [][SocketsNext]_socket_vars
----------------------------------------------------------------------------
(* The descriptor telnet_server_send may read is that of the Telnet        *)
(* client, still open: it is published after accept() and withdrawn before *)
(* close(), so that a closed descriptor is never handed out.               *)
PublishedIsOpen ==
  s_client_fd # NoFd => IsOpen(s_client_fd) /\ kind[sock[s_client_fd]] = "telnet"

(* A queued frame goes to a dashboard, or to a connection younger than the *)
(* check of its kind (web_server.c:77), which has the descriptor again and *)
(* may be a page: one that was open at the check never gets a WebSocket    *)
(* frame into its response.                                                *)
FramesReachDashboards ==
  \A i \in DOMAIN work :
    LET w == work[i] IN
      w.fd \in Sessions => kind[sock[w.fd]] = "ws" \/ sock[w.fd] > w.newest

(* The log queue does not stay full: logger_task gets on with its lines,   *)
(* with or without a Telnet client, so that alerts are not dropped forever *)
(* (fairness: the scheduler runs logger_task when it is ready).            *)
LogDrains == (log = LogDepth) ~> (log < LogDepth)

(* telnet_server.c:6-8: the mutex makes telnet_server_send safe to call    *)
(* from any task.  Read as: what it sends to is a Telnet client.           *)
LogReachesOnlyTelnet ==
  logger \in {"text", "crlf"} /\ IsOpen(fd) => kind[sock[fd]] = "telnet"
=============================================================================
