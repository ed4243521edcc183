------------------------------- MODULE Fanout -------------------------------
(***************************************************************************)
(* What api_server.cpp does with the transactions the sniffer reports: a   *)
(* ring of the last ones for GET /api/log, and a WebSocket message to      *)
(* every subscribed client.                                                *)
(*                                                                         *)
(* broadcast_transaction runs in the sniffer task; the handlers and the    *)
(* close callback run in the httpd task.  They share s_log under           *)
(* s_log_mutex and s_ws_fds under s_ws_mutex, and both hold their mutex    *)
(* while sending to clients that may be slow.  ESP-IDF's server decides    *)
(* which socket it serves and which it closes.                             *)
(***************************************************************************)
EXTENDS Integers, Sequences, SequencesExt

CONSTANTS
    LogCapacity,  \* LOG_CAPACITY
    Fds,          \* socket numbers, max_open_sockets of them
    MaxTxns       \* bound: transactions reported

ASSUME FanoutAssumption ==
    /\ LogCapacity \in Nat \ {0} /\ MaxTxns \in Nat /\ Fds # {}

VARIABLES
    s_log, s_log_head, s_log_mutex,
    s_ws_fds, s_ws_mutex,
    sock,       \* of each socket: closed, serving HTTP requests, or a WebSocket
    \* The sniffer task
    pc, txns,   \* txns: the number of the transaction being broadcast
    next,       \* position in s_ws_fds
    \* The httpd task
    hpc, hfd,
    sent,       \* transactions of the /api/log response so far
    \* What the clients know
    known,      \* transactions a WebSocket client has from messages or the log
    since,      \* the first one it can know, or 0: no log fetched, or a send failed
    asked       \* clients that were subscribed when the /api/log request began

logVars    == <<s_log, s_log_head>>
snifferVars == <<pc, txns, next>>
httpdVars  == <<hpc, hfd, sent, asked>>
clientVars == <<known, since>>
vars == <<logVars, s_log_mutex, s_ws_fds, s_ws_mutex, sock, snifferVars,
          httpdVars, clientVars>>

Owner == {"free", "sniffer", "httpd"}
Txns == 1..MaxTxns

TypeOK ==
    /\ s_log \in Seq(Txns) /\ Len(s_log) <= LogCapacity
    /\ s_log_head \in 0..(LogCapacity - 1)
    /\ s_log_mutex \in Owner /\ s_ws_mutex \in Owner
    /\ s_ws_fds \in Seq(Fds)
    /\ sock \in [Fds -> {"closed", "http", "ws"}]
    /\ pc \in {"idle", "log", "lock", "send"} /\ txns \in 0..MaxTxns /\ next \in Nat
    /\ hpc \in {"idle", "add", "status", "unsubscribe", "remove", "close", "log", "chunks"}
    /\ hfd \in Fds /\ sent \in Seq(Txns) /\ asked \subseteq Fds
    /\ known \in [Fds -> SUBSET Txns] /\ since \in [Fds -> 0..(MaxTxns + 1)]

Init ==
    /\ s_log = <<>> /\ s_log_head = 0 /\ s_log_mutex = "free"
    /\ s_ws_fds = <<>> /\ s_ws_mutex = "free"
    /\ sock = [fd \in Fds |-> "closed"]
    /\ pc = "idle" /\ txns = 0 /\ next = 1
    /\ hpc = "idle" /\ hfd \in Fds /\ sent = <<>> /\ asked = {}
    /\ known = [fd \in Fds |-> {}] /\ since = [fd \in Fds |-> 0]

-----------------------------------------------------------------------------
(***************************************************************************)
(* The sniffer task: broadcast_transaction                                 *)
(***************************************************************************)
SendFirst == <<"lock", "log">>
BroadcastOrder == <<"log", "lock">>
After(part) == IF part = BroadcastOrder[1] THEN BroadcastOrder[2] ELSE "idle"

Report ==
    /\ pc = "idle" /\ txns < MaxTxns
    /\ txns' = txns + 1 /\ pc' = BroadcastOrder[1]
    /\ UNCHANGED <<logVars, s_log_mutex, s_ws_fds, s_ws_mutex, sock, next, httpdVars,
                   clientVars>>

HeadUnwrapped == s_log_head + 1
NextHead == (s_log_head + 1) % LogCapacity

\* log_add, from lock to unlock
LogAdd ==
    /\ pc = "log" /\ s_log_mutex = "free"
    /\ s_log' = IF Len(s_log) < LogCapacity
                  THEN Append(s_log, txns)
                  ELSE [s_log EXCEPT ![s_log_head + 1] = txns]
    /\ s_log_head' = NextHead
    /\ pc' = After("log")
    /\ UNCHANGED <<s_log_mutex, s_ws_fds, s_ws_mutex, sock, txns, next, httpdVars, clientVars>>

WsLock ==
    /\ pc = "lock" /\ s_ws_mutex = "free"
    /\ s_ws_mutex' = "sniffer" /\ pc' = "send" /\ next' = 1
    /\ UNCHANGED <<logVars, s_log_mutex, s_ws_fds, sock, txns, httpdVars, clientVars>>

\* One client.  A send that fails, or times out, is only logged.
WsSend ==
    LET fd == s_ws_fds[next] IN
    /\ pc = "send" /\ next <= Len(s_ws_fds)
    /\ next' = next + 1
    /\ \/ known' = [known EXCEPT ![fd] = @ \cup {txns}] /\ UNCHANGED since
       \/ since' = [since EXCEPT ![fd] = 0] /\ UNCHANGED known
    /\ UNCHANGED <<logVars, s_log_mutex, s_ws_fds, s_ws_mutex, sock, pc, txns, httpdVars>>

WsUnlock ==
    /\ pc = "send" /\ next > Len(s_ws_fds)
    /\ s_ws_mutex' = "free" /\ pc' = After("lock") /\ next' = 1
    /\ UNCHANGED <<logVars, s_log_mutex, s_ws_fds, sock, txns, httpdVars, clientVars>>

SnifferTask == Report \/ LogAdd \/ WsLock \/ WsSend \/ WsUnlock
-----------------------------------------------------------------------------
(***************************************************************************)
(* The httpd task                                                          *)
(***************************************************************************)
\* What std::remove keeps, in its order; erase drops the rest.
Without(fds, fd) ==
    LET kept[i \in 0..Len(fds)] ==
          IF i = 0 THEN <<>>
          ELSE IF fds[i] = fd THEN kept[i - 1] ELSE Append(kept[i - 1], fds[i])
    IN  kept[Len(fds)]
NoneRemoved(fds, fd) == fds
Removed(fds, fd) == Without(fds, fd)

Serve(from, to) == hpc = from /\ hpc' = to

Accept ==
    /\ hpc = "idle"
    /\ \E fd \in Fds : sock[fd] = "closed" /\ sock' = [sock EXCEPT ![fd] = "http"]
    /\ UNCHANGED <<logVars, s_log_mutex, s_ws_fds, s_ws_mutex, snifferVars, httpdVars,
                   clientVars>>

\* The handshake of /ws; handle_ws then takes the mutex to add the client.
Subscribe ==
    /\ Serve("idle", "add")
    /\ \E fd \in Fds : /\ sock[fd] = "http"
                       /\ hfd' = fd /\ sock' = [sock EXCEPT ![fd] = "ws"]
    /\ UNCHANGED <<logVars, s_log_mutex, s_ws_fds, s_ws_mutex, snifferVars, sent, asked,
                   clientVars>>
AddClient ==
    /\ Serve("add", "idle") /\ s_ws_mutex = "free"
    /\ s_ws_fds' = Append(s_ws_fds, hfd)
    /\ UNCHANGED <<logVars, s_log_mutex, s_ws_mutex, sock, snifferVars, hfd, sent, asked,
                   clientVars>>

\* A frame from the client: CLOSE unsubscribes it, any other is ignored.
ReceiveClose ==
    /\ Serve("idle", "unsubscribe")
    /\ \E fd \in Fds : sock[fd] = "ws" /\ hfd' = fd
    /\ UNCHANGED <<logVars, s_log_mutex, s_ws_fds, s_ws_mutex, sock, snifferVars, sent, asked,
                   clientVars>>

\* The server ends a session (the peer is gone, a handler failed, the socket
\* is the least recently used of all): on_close, in two steps.
EndSession ==
    /\ Serve("idle", "remove")
    /\ \E fd \in Fds : sock[fd] # "closed" /\ hfd' = fd
    /\ UNCHANGED <<logVars, s_log_mutex, s_ws_fds, s_ws_mutex, sock, snifferVars, sent, asked,
                   clientVars>>
\* ws_remove_client
RemoveClient ==
    /\ \/ Serve("unsubscribe", "idle") \/ Serve("remove", "close")
    /\ s_ws_mutex = "free"
    /\ s_ws_fds' = Removed(s_ws_fds, hfd)
    /\ since' = [since EXCEPT ![hfd] = 0]
    /\ UNCHANGED <<logVars, s_log_mutex, s_ws_mutex, sock, snifferVars, hfd, sent, asked, known>>
\* close(fd): the number is free for the next connection.
CloseSocket ==
    /\ Serve("close", "idle")
    /\ sock' = [sock EXCEPT ![hfd] = "closed"]
    /\ known' = [known EXCEPT ![hfd] = {}]
    /\ UNCHANGED <<logVars, s_log_mutex, s_ws_fds, s_ws_mutex, snifferVars, hfd, sent, asked,
                   since>>

\* GET /api/status: counts the clients under the mutex.
GetStatus ==
    /\ \/ Serve("idle", "status") /\ \E fd \in Fds : sock[fd] = "http"
       \/ Serve("status", "idle") /\ s_ws_mutex = "free"
    /\ UNCHANGED <<logVars, s_log_mutex, s_ws_fds, s_ws_mutex, sock, snifferVars, hfd, sent,
                   asked, clientVars>>

\* GET /api/log: the mutex is held from the first chunk to the last.
GetLog ==
    /\ Serve("idle", "log")
    /\ \E fd \in Fds : sock[fd] = "http"
    /\ asked' = Range(s_ws_fds)
    /\ UNCHANGED <<logVars, s_log_mutex, s_ws_fds, s_ws_mutex, sock, snifferVars, hfd, sent,
                   clientVars>>
NeverLocks == "free"
LogHeldBy == "httpd"
LogLock ==
    /\ Serve("log", "chunks") /\ s_log_mutex = "free"
    /\ s_log_mutex' = LogHeldBy
    /\ UNCHANGED <<logVars, s_ws_fds, s_ws_mutex, sock, snifferVars, hfd, sent, asked,
                   clientVars>>

\* The entry of the ring at place i of the response.
StorageOrder(i) == s_log[i]
RingEntry(i) ==
    s_log[IF Len(s_log) < LogCapacity THEN i ELSE ((s_log_head + i - 1) % LogCapacity) + 1]

LogChunkOrRestart ==
    /\ hpc = "chunks" /\ Len(sent) < Len(s_log)
    /\ sent' \in {Append(sent, RingEntry(Len(sent) + 1)), <<>>}
    /\ UNCHANGED <<logVars, s_log_mutex, s_ws_fds, s_ws_mutex, sock, snifferVars, hpc, hfd,
                   asked, clientVars>>
\* A chunk that cannot be sent is lost, the next one is tried.
LogChunk ==
    /\ hpc = "chunks" /\ Len(sent) < Len(s_log)
    /\ sent' = Append(sent, RingEntry(Len(sent) + 1))
    /\ UNCHANGED <<logVars, s_log_mutex, s_ws_fds, s_ws_mutex, sock, snifferVars, hpc, hfd,
                   asked, clientVars>>

\* The end of the response, which a subscribed client may have asked for.
LogEnd ==
    /\ Serve("chunks", "idle") /\ Len(sent) = Len(s_log)
    /\ s_log_mutex' = "free"
    /\ sent' = <<>> /\ asked' = {}
    /\ \E fds \in {{}} \cup {{fd} : fd \in asked \cap Range(s_ws_fds)} :
         /\ known' = [fd \in Fds |-> IF fd \in fds THEN known[fd] \cup Range(sent)
                                                   ELSE known[fd]]
         /\ since' = [fd \in Fds |-> IF fd \in fds
                        THEN IF sent = <<>> THEN 1 ELSE sent[1] ELSE since[fd]]
    /\ UNCHANGED <<logVars, s_ws_fds, s_ws_mutex, sock, snifferVars, hfd>>

Handlers == \/ AddClient \/ RemoveClient \/ CloseSocket
            \/ (hpc = "status" /\ GetStatus) \/ LogLock \/ LogChunk \/ LogEnd
HttpdTask == Accept \/ Subscribe \/ ReceiveClose \/ EndSession \/ GetStatus \/ GetLog \/ Handlers

Next == SnifferTask \/ HttpdTask

\* A step that needs no mutex is eventually taken: sends return, if only by
\* the socket's send timeout.  A mutex is handed to the highest-priority waiter,
\* the sniffer task (priority 10, httpd 5), so it cannot be starved.
Fairness == /\ WF_vars(WsSend) /\ WF_vars(WsUnlock) /\ WF_vars(Handlers)
            /\ SF_vars(LogAdd) /\ SF_vars(WsLock)

Spec == Init /\ [][Next]_vars /\ Fairness
-----------------------------------------------------------------------------
(***************************************************************************)
(* Properties                                                              *)
(***************************************************************************)
\* The last n of the transactions 1..k, oldest first.
LastOf(k, n) == [i \in 1..n |-> k - n + i]

\* docs/openapi.yaml:66 of GET /api/log: "the last 100 decoded Modbus
\* transactions ... oldest first".  The ring, read as handle_log reads it, holds
\* the transactions logged so far, as many of the last ones as fit, in order.
LogRecent ==
    LET logged == IF pc = "log" THEN txns - 1 ELSE txns IN
    /\ Len(s_log) = IF logged < LogCapacity THEN logged ELSE LogCapacity
    /\ [i \in 1..Len(s_log) |-> RingEntry(i)] = LastOf(logged, Len(s_log))

\* However long a client takes to receive the log, and whatever is reported
\* meanwhile, the response is one run of consecutive transactions.
ResponseIsWindow == \A i \in 1..(Len(sent) - 1) : sent[i + 1] = sent[i] + 1

\* The sniffer task sends to WebSockets that are open, each subscribed once: a
\* socket number is off the list before a new connection can have it.
ClientsAreOpen ==
    /\ \A i \in 1..Len(s_ws_fds) : sock[s_ws_fds[i]] = "ws"
    /\ \A i, j \in 1..Len(s_ws_fds) : s_ws_fds[i] = s_ws_fds[j] => i = j

\* A client that subscribes and then fetches the log misses no transaction
\* from the first one of that log on, unless a message to it fails.
NothingMissed ==
    \A fd \in Range(s_ws_fds) :
        since[fd] > 0 => since[fd]..(IF pc = "idle" THEN txns ELSE txns - 1) \subseteq known[fd]

\* The sniffer task returns from every broadcast, whatever the clients do.
BroadcastCompletes == pc # "idle" ~> pc = "idle"
=============================================================================
