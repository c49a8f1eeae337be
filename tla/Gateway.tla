------------------------------ MODULE Gateway ------------------------------
(***************************************************************************)
(* One message gateway node (internal/msggateway): the websocket handlers  *)
(* that accept connections, one reader goroutine per connection, the       *)
(* single event loop that registers and unregisters clients, and the RPCs  *)
(* other services call on the node (KickUserOffline,                       *)
(* MultiTerminalLoginCheck).                                               *)
(*                                                                         *)
(* A connection is a TCP connection with its own remote address; its user, *)
(* its platform and its token are the query arguments of its handshake and *)
(* never change.  A Client is the Go struct that serves a connection.      *)
(* Structs come from a sync.Pool and are reused, so a pointer kept by a    *)
(* goroutine, a channel or the user map may come to denote a struct that   *)
(* serves another connection.  A struct is named after the connection it   *)
(* was allocated for.                                                      *)
(***************************************************************************)
EXTENDS Integers, Sequences, FiniteSets

CONSTANTS Conn,          \* connections ever attempted
          User, Platform,
          PCPlatform,    \* platforms of class TerminalPC
          Token,
          ConnToken,     \* the token of a connection's handshake
          WsMaxConnNum,  \* wsMaxConnNum
          KickRpc,       \* goroutines serving one KickUserOffline each
          KickTarget,    \* the <<user, platform>> pairs they may be asked to kick
          Setting,       \* the configurations and workloads to consider
          NoConn

Client == Conn
Loop == "loop"
Thread == Conn \union KickRpc \union {Loop}

AnyId == [user : User, platform : Platform, token : Token]

DefalutNotKick == 0
AllLoginButSameTermKick == 1
PCAndOther == 5

ASSUME GatewayAssumption ==
    /\ Setting \subseteq
          [user : [Conn -> User],          \* handshake argument of a connection
           platform : [Conn -> Platform],  \* handshake argument of a connection
           policy : Nat,                   \* config MultiLoginPolicy (0 is DefalutNotKick)
           chanCap : Nat \ {0},            \* capacity of the three channels (1000 in the code)
           poolReuse : BOOLEAN,            \* may clientPool.Get return a struct that was Put?
           serviceFails : BOOLEAN,         \* may the token cache and the user service fail?
           talker : SUBSET Conn,           \* connections whose peer sends requests
           remoteLogin : SUBSET AnyId]     \* logins on other nodes, told by MultiTerminalLoginCheck
    /\ ConnToken \in [Conn -> Token]
    /\ PCPlatform \subseteq Platform
    /\ WsMaxConnNum \in Nat
    /\ KickTarget \subseteq User \X Platform
    /\ NoConn \notin Conn
    /\ Loop \notin Conn \union KickRpc
    /\ Conn \intersect KickRpc = {}

VARIABLES
    conf,        \* the setting, fixed when the node starts
    conn,        \* conn[o]: the connection struct o was last Reset for
    closed,      \* closed[o]: its atomic flag
    clientPool,  \* clientPool[o]: how often o is in the sync.Pool
    handler,     \* handler[c]: progress of c's wsHandler
    sock,        \* sock[c]: the websocket of c
    struct,      \* struct[c]: the *Client c's handler and reader hold
    reader,      \* reader[c]: progress of c's readMessage goroutine
    readOn,      \* readOn[c]: the connection that goroutine reads from
    call,        \* call[t]: where goroutine t is in KickOnlineMessage/close
    registerChan, unregisterChan, kickHandlerChan,
    clients,     \* UserMap: a user's structs; a user without a key has <<>>
    onlineUserNum, onlineUserConnNum,
    gauge,       \* prommetrics.OnlineUserGauge
    status,      \* <<user, platform>> pairs the user service has online
    kicked,      \* tokens marked KickedToken in the cache
    loop,        \* the event loop's control point and local variables
    rpc,         \* the KickUserOffline goroutines'
    told         \* remote logins this node was told of

ConnUser == conf.user
ConnPlatform == conf.platform
Policy == conf.policy
ChanCap == conf.chanCap
PoolReuse == conf.poolReuse
ServiceFails == conf.serviceFails
Talker == conf.talker
RemoteLogin == conf.remoteLogin

connVars == <<handler, sock, struct>>
readVars == <<reader, readOn>>
chanVars == <<registerChan, unregisterChan, kickHandlerChan>>
countVars == <<onlineUserNum, onlineUserConnNum, gauge>>
structVars == <<conn, closed, clientPool>>
vars == <<conf, conn, closed, clientPool, handler, sock, struct, reader, readOn, call,
          registerChan, unregisterChan, kickHandlerChan, clients, onlineUserNum,
          onlineUserConnNum, gauge, status, kicked, loop, rpc, told>>

-----------------------------------------------------------------------------
(* The user map.  Its operations load a user's slice and store a new one;  *)
(* the load and the store are separate steps of the caller.                *)

\* The elements of a slice at positions K, in the order they have there: what the
\* loops of Get, delete and deleteClients append.
Kept(list, K) ==
    LET Place(n) == CHOOSE k \in K : Cardinality({j \in K : j <= k}) = n
    IN  [n \in 1 .. Cardinality(K) |-> list[Place(n)]]

\* The structs of a slice that serve platform p now (UserMap.Get).
OfPlatform(list, p) == Kept(list, {k \in DOMAIN list : ConnPlatform[conn[list[k]]] = p})

\* The structs of a slice that serve none of the connections in gone: what
\* delete and deleteClients keep.
Without(list, gone) == Kept(list, {k \in DOMAIN list : conn[list[k]] \notin gone})

Serving(list) == {conn[list[i]] : i \in DOMAIN list}

\* mutant: the fallthrough case kicks for PCAndOther only
KicksPCAndOther(p) == Policy = PCAndOther /\ p \notin PCPlatform

\* Does a login on platform p kick the user's other connections there?
\* (the switch of multiTerminalLoginChecker)
Kicks(p) ==
    \/ Policy = AllLoginButSameTermKick
    \/ Policy = PCAndOther /\ p \notin PCPlatform

\* A read of the tokens of a user's platform sees those of its connections.
TokensOf(u, p) ==
    {ConnToken[c] : c \in {d \in Conn : ConnUser[d] = u /\ ConnPlatform[d] = p}}

Identity(c) == [user |-> ConnUser[c], platform |-> ConnPlatform[c], token |-> ConnToken[c]]

NoCall == [step |-> "none", cl |-> NoConn, on |-> NoConn]
Idle == [pc |-> "idle", cl |-> NoConn, remote |-> FALSE, new |-> NoConn,
         old |-> <<>>, buf |-> <<>>, existed |-> FALSE]

Init ==
    /\ conf \in Setting
    /\ conn = [o \in Client |-> NoConn]
    /\ closed = [o \in Client |-> FALSE]
    /\ clientPool = [o \in Client |-> 0]
    /\ handler = [c \in Conn |-> "new"]
    /\ sock = [c \in Conn |-> "none"]
    /\ struct = [c \in Conn |-> NoConn]
    /\ reader = [c \in Conn |-> "none"]
    /\ readOn = [c \in Conn |-> NoConn]
    /\ call = [t \in Thread |-> NoCall]
    /\ registerChan = <<>> /\ unregisterChan = <<>> /\ kickHandlerChan = <<>>
    /\ clients = [u \in User |-> <<>>]
    /\ onlineUserNum = 0 /\ onlineUserConnNum = 0 /\ gauge = 0
    /\ status = {}
    /\ kicked = {}
    /\ loop = Idle
    /\ rpc = [r \in KickRpc |-> [pc |-> "idle", user |-> NoConn, list |-> <<>>,
                                 buf |-> <<>>, existed |-> FALSE, found |-> {}]]
    /\ told = {}

-----------------------------------------------------------------------------
(* wsHandler: the connection limit, the token check, the upgrade and the   *)
(* hand-over to the event loop.                                            *)

\* The limit is compared with the counter the event loop keeps.
WsAdmit(c) ==
    /\ handler[c] = "new"
    /\ handler' = [handler EXCEPT ![c] =
           IF onlineUserConnNum >= WsMaxConnNum THEN "refused" ELSE "admitted"]
    /\ UNCHANGED <<conf, structVars, sock, struct, readVars, call, chanVars, clients,
                   countVars, status, kicked, loop, rpc, told>>

\* The token is kicked, or the cache cannot be read.
WsRefuse(c) ==
    /\ handler[c] = "admitted"
    /\ ConnToken[c] \in kicked \/ ServiceFails
    /\ handler' = [handler EXCEPT ![c] = "refused"]
    /\ UNCHANGED <<conf, structVars, sock, struct, readVars, call, chanVars, clients,
                   countVars, status, kicked, loop, rpc, told>>

\* The websocket is open; clientPool.Get returns a pooled struct or a new one
\* and ResetClient makes it serve c.
ResetClient(c, o) ==
    /\ conn' = [conn EXCEPT ![o] = c]
    /\ closed' = [closed EXCEPT ![o] = FALSE]

WsUpgrade(c) ==
    /\ handler[c] = "admitted"
    /\ ConnToken[c] \notin kicked
    /\ \E o \in Client :
          /\ \/ o = c /\ UNCHANGED clientPool
             \/ /\ PoolReuse
                /\ clientPool[o] > 0
                /\ clientPool' = [clientPool EXCEPT ![o] = @ - 1]
          /\ ResetClient(c, o)
          /\ struct' = [struct EXCEPT ![c] = o]
    /\ handler' = [handler EXCEPT ![c] = "upgraded"]
    /\ sock' = [sock EXCEPT ![c] = "open"]
    /\ UNCHANGED <<conf, readVars, call, chanVars, clients, countVars, status, kicked,
                   loop, rpc, told>>

\* registerChan <- client, then the reader goroutine starts.
WsRegister(c) ==
    /\ handler[c] = "upgraded"
    /\ Len(registerChan) < ChanCap
    /\ registerChan' = Append(registerChan, struct[c])
    /\ handler' = [handler EXCEPT ![c] = "served"]
    /\ reader' = [reader EXCEPT ![c] = "start"]
    /\ UNCHANGED <<conf, structVars, sock, struct, readOn, call, unregisterChan,
                   kickHandlerChan, clients, countVars, status, kicked, loop, rpc, told>>

\* The peer goes away, or is silent until the read deadline.
HangUp(c) ==
    /\ sock[c] = "open"
    /\ sock' = [sock EXCEPT ![c] = "hung"]
    /\ UNCHANGED <<conf, structVars, handler, struct, readVars, call, chanVars, clients,
                   countVars, status, kicked, loop, rpc, told>>

-----------------------------------------------------------------------------
(* KickOnlineMessage and close, run by readers, by the event loop and by   *)
(* the KickUserOffline goroutines.  The mutex belongs to the connection: a *)
(* Reset gives the struct a new one.  It is held from closed.Store over    *)
(* conn.Close to the end of UnRegister; closed is read without it.         *)

MutexFree(c) == \A t \in Thread : ~ (call[t].step \in {"shut", "send"} /\ call[t].on = c)

\* writeBinaryMsg gives up on a closed client and else waits for the mutex.
WriteReady(o) == closed[o] \/ MutexFree(conn[o])

Call(step, o) == [step |-> step, cl |-> o, on |-> NoConn]

\* The kick message is written (or fails: the error is only logged).
KickWrite(t) ==
    /\ call[t].step = "write"
    /\ WriteReady(call[t].cl)
    /\ call' = [call EXCEPT ![t].step = "check"]
    /\ UNCHANGED <<conf, structVars, connVars, readVars, chanVars, clients, countVars,
                   status, kicked, loop, rpc, told>>

\* if c.closed.Load() return
CloseCheck(t) ==
    /\ call[t].step = "check"
    /\ call' = [call EXCEPT ![t] = IF closed[@.cl] THEN NoCall ELSE Call("lock", @.cl)]
    /\ UNCHANGED <<conf, structVars, connVars, readVars, chanVars, clients, countVars,
                   status, kicked, loop, rpc, told>>

\* c.w.Lock() and c.closed.Store(true)
CloseLock(t) ==
    LET o == call[t].cl IN
    /\ call[t].step = "lock"
    /\ MutexFree(conn[o])
    /\ closed' = [closed EXCEPT ![o] = TRUE]
    /\ call' = [call EXCEPT ![t] = [step |-> "shut", cl |-> o, on |-> conn[o]]]
    /\ UNCHANGED <<conf, conn, clientPool, connVars, readVars, chanVars, clients, countVars,
                   status, kicked, loop, rpc, told>>

\* mutant: a Close that waits for the peer's answer
ConnCloseHandshake(t) ==
    /\ call[t].step = "shut"
    /\ sock[conn[call[t].cl]] # "hung"
    /\ sock' = [sock EXCEPT ![conn[call[t].cl]] = "closed"]
    /\ call' = [call EXCEPT ![t].step = "send"]
    /\ UNCHANGED <<conf, structVars, handler, struct, readVars, chanVars, clients, countVars,
                   status, kicked, loop, rpc, told>>

\* c.conn.Close(): the connection the struct serves now
ConnClose(t) ==
    /\ call[t].step = "shut"
    /\ sock' = [sock EXCEPT ![conn[call[t].cl]] = "closed"]
    /\ call' = [call EXCEPT ![t].step = "send"]
    /\ UNCHANGED <<conf, structVars, handler, struct, readVars, chanVars, clients, countVars,
                   status, kicked, loop, rpc, told>>

\* mutant: one element more than the channel holds
UnRegisterPastCap(t) ==
    /\ call[t].step = "send"
    /\ Len(unregisterChan) <= ChanCap
    /\ unregisterChan' = Append(unregisterChan, call[t].cl)
    /\ call' = [call EXCEPT ![t] = NoCall]
    /\ UNCHANGED <<conf, structVars, connVars, readVars, registerChan, kickHandlerChan,
                   clients, countVars, status, kicked, loop, rpc, told>>

\* UnRegister blocks while the channel is full.
UnRegister(t) ==
    /\ call[t].step = "send"
    /\ Len(unregisterChan) < ChanCap
    /\ unregisterChan' = Append(unregisterChan, call[t].cl)
    /\ call' = [call EXCEPT ![t] = NoCall]
    /\ UNCHANGED <<conf, structVars, connVars, readVars, registerChan, kickHandlerChan,
                   clients, countVars, status, kicked, loop, rpc, told>>

-----------------------------------------------------------------------------
(* readMessage, the reader goroutine of connection c.  It works through    *)
(* the struct: c.conn, c.closed and c.UserID are read when they are used.  *)

ReadCall(c) ==
    /\ reader[c] = "start"
    /\ reader' = [reader EXCEPT ![c] = "read"]
    /\ readOn' = [readOn EXCEPT ![c] = conn[struct[c]]]
    /\ UNCHANGED <<conf, structVars, connVars, call, chanVars, clients, countVars, status,
                   kicked, loop, rpc, told>>

\* The goroutine leaves through its deferred close().
Leave(c) ==
    /\ reader' = [reader EXCEPT ![c] = "exit"]
    /\ call' = [call EXCEPT ![c] = Call("check", struct[c])]

\* mutant: no read deadline, a silent peer is waited for
ReadErrorNoDeadline(c) ==
    /\ reader[c] = "read"
    /\ sock[readOn[c]] = "closed"
    /\ Leave(c)
    /\ UNCHANGED <<conf, structVars, connVars, readOn, chanVars, clients, countVars, status,
                   kicked, loop, rpc, told>>

ReadError(c) ==
    /\ reader[c] = "read"
    /\ sock[readOn[c]] \in {"hung", "closed"}
    /\ Leave(c)
    /\ UNCHANGED <<conf, structVars, connVars, readOn, chanVars, clients, countVars, status,
                   kicked, loop, rpc, told>>

\* A request of the peer, or its logout request, or one that cannot be served.
ReadMessage(c) ==
    /\ reader[c] = "read"
    /\ readOn[c] \in Talker
    /\ sock[readOn[c]] = "open"
    /\ \E kind \in {"request", "logout"} : reader' = [reader EXCEPT ![c] = kind]
    /\ UNCHANGED <<conf, structVars, connVars, readOn, call, chanVars, clients, countVars,
                   status, kicked, loop, rpc, told>>

\* The message is dropped when the client is marked closed.
CheckClosed(c) ==
    /\ reader[c] \in {"request", "logout"}
    /\ IF closed[struct[c]]
       THEN Leave(c)
       ELSE /\ reader' = [reader EXCEPT ![c] =
                             IF @ = "request" THEN "handleRequest" ELSE "handleLogout"]
            /\ UNCHANGED call
    /\ UNCHANGED <<conf, structVars, connVars, readOn, chanVars, clients, countVars, status,
                   kicked, loop, rpc, told>>

\* handleMessage fails when the sender is not the client's user; the reply to
\* a logout ends the connection.
HandleMessage(c) ==
    /\ reader[c] \in {"handleRequest", "handleLogout"}
    /\ WriteReady(struct[c])
    /\ IF reader[c] = "handleLogout" \/ ConnUser[readOn[c]] # ConnUser[conn[struct[c]]]
       THEN Leave(c)
       ELSE reader' = [reader EXCEPT ![c] = "start"] /\ UNCHANGED call
    /\ UNCHANGED <<conf, structVars, connVars, readOn, chanVars, clients, countVars, status,
                   kicked, loop, rpc, told>>

-----------------------------------------------------------------------------
(* The event loop of Run.  select takes from any channel that has an       *)
(* element.  The login being processed is loop.new for another node's, and *)
(* for this node's what the struct says at that moment.                    *)

New == IF loop.remote THEN loop.new ELSE Identity(conn[loop.cl])

LoopRegister ==
    /\ loop.pc = "idle"
    /\ registerChan # <<>>
    /\ LET o == Head(registerChan)
           all == clients[ConnUser[conn[o]]]
           old == OfPlatform(all, ConnPlatform[conn[o]])
           kick == all # <<>> /\ old # <<>> /\ Kicks(ConnPlatform[conn[o]])
       IN  loop' = [Idle EXCEPT !.pc = IF kick THEN "delete" ELSE "set",
                                !.cl = o,
                                !.old = IF kick THEN old ELSE <<>>,
                                !.existed = all # <<>>]
    /\ registerChan' = Tail(registerChan)
    /\ UNCHANGED <<conf, structVars, connVars, readVars, call, unregisterChan, kickHandlerChan,
                   clients, countVars, status, kicked, rpc, told>>

LoopKickInfo ==
    /\ loop.pc = "idle"
    /\ kickHandlerChan # <<>>
    /\ LET i == Head(kickHandlerChan)
       IN  loop' = IF i.oldClients # <<>> /\ Kicks(i.newClient.platform)
                   THEN [Idle EXCEPT !.pc = "delete", !.remote = TRUE,
                                     !.new = i.newClient, !.old = i.oldClients]
                   ELSE Idle
    /\ kickHandlerChan' = Tail(kickHandlerChan)
    /\ UNCHANGED <<conf, structVars, connVars, readVars, call, registerChan, unregisterChan,
                   clients, countVars, status, kicked, rpc, told>>

\* deleteClients(user, oldClients): the load, and the store.
LoopDeleteLoad ==
    /\ loop.pc = "delete"
    /\ LET all == clients[New.user]
       IN  loop' = [loop EXCEPT !.pc = "deleteStore",
                                !.buf = Without(all, Serving(loop.old)),
                                !.new = New,
                                !.existed = all # <<>>]
    /\ UNCHANGED <<conf, structVars, connVars, readVars, call, chanVars, clients, countVars,
                   status, kicked, rpc, told>>

LoopDeleteStore ==
    /\ loop.pc = "deleteStore"
    /\ clients' = IF loop.existed THEN [clients EXCEPT ![loop.new.user] = loop.buf]
                                  ELSE clients
    /\ onlineUserNum' = IF loop.existed /\ loop.buf = <<>> THEN onlineUserNum - 1
                                                          ELSE onlineUserNum
    /\ loop' = [loop EXCEPT !.pc = "kick", !.buf = <<>>, !.existed = TRUE]
    /\ UNCHANGED <<conf, structVars, connVars, readVars, call, chanVars, onlineUserConnNum,
                   gauge, status, kicked, rpc, told>>

LoopKick ==
    /\ loop.pc = "kick"
    /\ call[Loop] = NoCall
    /\ loop.old # <<>>
    /\ call' = [call EXCEPT ![Loop] = Call("write", Head(loop.old))]
    /\ loop' = [loop EXCEPT !.old = Tail(@)]
    /\ UNCHANGED <<conf, structVars, connVars, readVars, chanVars, clients, countVars, status,
                   kicked, rpc, told>>

\* The platform's other tokens are marked kicked; a cache error is only logged.
LoopTokens ==
    /\ loop.pc = "kick"
    /\ call[Loop] = NoCall
    /\ loop.old = <<>>
    /\ \/ kicked' = kicked \union (TokensOf(New.user, New.platform) \ {New.token})
       \/ ServiceFails /\ UNCHANGED kicked
    /\ loop' = IF loop.remote THEN Idle ELSE [loop EXCEPT !.pc = "set"]
    /\ UNCHANGED <<conf, structVars, connVars, readVars, call, chanVars, clients, countVars,
                   status, rpc, told>>

\* mutant: Set replaces the user's slice
LoopSetLoadReplace ==
    /\ loop.pc = "set"
    /\ loop' = [loop EXCEPT !.pc = "setStore", !.buf = <<loop.cl>>, !.new = New]
    /\ UNCHANGED <<conf, structVars, connVars, readVars, call, chanVars, clients, countVars,
                   status, kicked, rpc, told>>

\* clients.Set(user, client): the load, and the store with the counters.
LoopSetLoad ==
    /\ loop.pc = "set"
    /\ loop' = [loop EXCEPT !.pc = "setStore",
                            !.buf = Append(clients[New.user], loop.cl),
                            !.new = New]
    /\ UNCHANGED <<conf, structVars, connVars, readVars, call, chanVars, clients, countVars,
                   status, kicked, rpc, told>>

LoopSetStore ==
    /\ loop.pc = "setStore"
    /\ clients' = [clients EXCEPT ![loop.new.user] = loop.buf]
    /\ onlineUserConnNum' = onlineUserConnNum + 1
    /\ onlineUserNum' = IF loop.existed THEN onlineUserNum ELSE onlineUserNum + 1
    /\ gauge' = IF loop.existed THEN gauge ELSE gauge + 1
    /\ loop' = [loop EXCEPT !.pc = "online", !.buf = <<>>, !.new = NoConn]
    /\ UNCHANGED <<conf, structVars, connVars, readVars, call, chanVars, status, kicked, rpc,
                   told>>

\* SetUserOnlineStatus; an error of the user service is only logged.
SetUserOnlineStatus(online) ==
    LET up == {<<New.user, New.platform>>} IN
    \/ status' = IF online THEN status \union up ELSE status \ up
    \/ ServiceFails /\ UNCHANGED status

LoopOnline ==
    /\ loop.pc = "online"
    /\ SetUserOnlineStatus(TRUE)
    /\ loop' = Idle
    /\ UNCHANGED <<conf, structVars, connVars, readVars, call, chanVars, clients, countVars,
                   kicked, rpc, told>>

\* unregisterClient: clients.delete(user, remote address), the load and the
\* store with the counters, then the status and the deferred Put.
LoopUnregister ==
    /\ loop.pc = "idle"
    /\ unregisterChan # <<>>
    /\ LET o == Head(unregisterChan)
           all == clients[ConnUser[conn[o]]]
       IN  loop' = [Idle EXCEPT !.pc = "unStore", !.cl = o,
                                !.new = Identity(conn[o]),
                                !.buf = Without(all, {conn[o]}),
                                !.existed = all # <<>>]
    /\ unregisterChan' = Tail(unregisterChan)
    /\ UNCHANGED <<conf, structVars, connVars, readVars, call, registerChan, kickHandlerChan,
                   clients, countVars, status, kicked, rpc, told>>

\* mutant: the connection is counted off only with its user
LoopUnStoreByUser ==
    LET isDeleteUser == loop.existed /\ loop.buf = <<>> IN
    /\ loop.pc = "unStore"
    /\ clients' = IF loop.existed THEN [clients EXCEPT ![loop.new.user] = loop.buf]
                                  ELSE clients
    /\ onlineUserNum' = IF isDeleteUser THEN onlineUserNum - 1 ELSE onlineUserNum
    /\ gauge' = IF isDeleteUser THEN gauge - 1 ELSE gauge
    /\ onlineUserConnNum' = IF isDeleteUser THEN onlineUserConnNum - 1 ELSE onlineUserConnNum
    /\ loop' = [loop EXCEPT !.pc = "offline", !.buf = <<>>, !.new = NoConn]
    /\ UNCHANGED <<conf, structVars, connVars, readVars, call, chanVars, status, kicked, rpc,
                   told>>

LoopUnStore ==
    LET isDeleteUser == loop.existed /\ loop.buf = <<>> IN
    /\ loop.pc = "unStore"
    /\ clients' = IF loop.existed THEN [clients EXCEPT ![loop.new.user] = loop.buf]
                                  ELSE clients
    /\ onlineUserNum' = IF isDeleteUser THEN onlineUserNum - 1 ELSE onlineUserNum
    /\ gauge' = IF isDeleteUser THEN gauge - 1 ELSE gauge
    /\ onlineUserConnNum' = onlineUserConnNum - 1
    /\ loop' = [loop EXCEPT !.pc = "offline", !.buf = <<>>, !.new = NoConn]
    /\ UNCHANGED <<conf, structVars, connVars, readVars, call, chanVars, status, kicked, rpc,
                   told>>

LoopOffline ==
    /\ loop.pc = "offline"
    /\ SetUserOnlineStatus(FALSE)
    /\ clientPool' = [clientPool EXCEPT ![loop.cl] = @ + 1]
    /\ loop' = Idle
    /\ UNCHANGED <<conf, conn, closed, connVars, readVars, call, chanVars, clients, countVars,
                   kicked, rpc, told>>

-----------------------------------------------------------------------------
(* The RPCs of hub_server.go that change the node's state.                 *)

\* Another node tells of a login; the user's structs of that platform are read
\* here and kicked later, by the event loop.
MultiTerminalLoginCheck(l) ==
    /\ l \notin told
    /\ told' = told \union {l}
    /\ IF clients[l.user] = <<>>
       THEN UNCHANGED kickHandlerChan
       ELSE /\ Len(kickHandlerChan) < ChanCap
            /\ kickHandlerChan' = Append(kickHandlerChan,
                  [oldClients |-> OfPlatform(clients[l.user], l.platform), newClient |-> l])
    /\ UNCHANGED <<conf, structVars, connVars, readVars, call, registerChan, unregisterChan,
                   clients, countVars, status, kicked, loop, rpc>>

KickUserOffline(r, u, p) ==
    LET list == OfPlatform(clients[u], p) IN
    /\ rpc[r].pc = "idle"
    /\ rpc' = [rpc EXCEPT ![r].pc = IF list = <<>> THEN "done" ELSE "next",
                          ![r].list = list, ![r].found = Serving(list)]
    /\ UNCHANGED <<conf, structVars, connVars, readVars, call, chanVars, clients, countVars,
                   status, kicked, loop, told>>

\* KickUserConn, for each struct found: deleteClients' load and store, then
\* KickOnlineMessage.
KickLoad(r) ==
    LET o == Head(rpc[r].list)
        all == clients[ConnUser[conn[o]]]
    IN
    /\ rpc[r].pc = "next"
    /\ call[r] = NoCall
    /\ rpc[r].list # <<>>
    /\ rpc' = [rpc EXCEPT ![r].pc = "store", ![r].user = ConnUser[conn[o]],
                          ![r].buf = Without(all, {conn[o]}),
                          ![r].existed = all # <<>>]
    /\ UNCHANGED <<conf, structVars, connVars, readVars, call, chanVars, clients, countVars,
                   status, kicked, loop, told>>

\* mutant: the client leaves the map but is not kicked
KickStoreOnly(r) ==
    /\ rpc[r].pc = "store"
    /\ clients' = IF rpc[r].existed THEN [clients EXCEPT ![rpc[r].user] = rpc[r].buf]
                                    ELSE clients
    /\ rpc' = [rpc EXCEPT ![r].pc = "next", ![r].list = Tail(@), ![r].buf = <<>>,
                          ![r].user = NoConn, ![r].existed = FALSE]
    /\ UNCHANGED <<conf, structVars, connVars, readVars, call, chanVars, countVars, status,
                   kicked, loop, told>>

KickStore(r) ==
    /\ rpc[r].pc = "store"
    /\ clients' = IF rpc[r].existed THEN [clients EXCEPT ![rpc[r].user] = rpc[r].buf]
                                    ELSE clients
    /\ call' = [call EXCEPT ![r] = Call("write", Head(rpc[r].list))]
    /\ rpc' = [rpc EXCEPT ![r].pc = "next", ![r].list = Tail(@), ![r].buf = <<>>,
                          ![r].user = NoConn, ![r].existed = FALSE]
    /\ UNCHANGED <<conf, structVars, connVars, readVars, chanVars, countVars, status, kicked,
                   loop, told>>

KickReturn(r) ==
    /\ rpc[r].pc = "next"
    /\ call[r] = NoCall
    /\ rpc[r].list = <<>>
    /\ rpc' = [rpc EXCEPT ![r].pc = "done"]
    /\ UNCHANGED <<conf, structVars, connVars, readVars, call, chanVars, clients, countVars,
                   status, kicked, loop, told>>

-----------------------------------------------------------------------------
Closing(t) ==
    \/ KickWrite(t) \/ CloseCheck(t) \/ CloseLock(t) \/ ConnClose(t) \/ UnRegister(t)

Reading(c) ==
    \/ ReadCall(c) \/ ReadError(c) \/ ReadMessage(c) \/ CheckClosed(c)
    \/ HandleMessage(c)

Handling(c) == WsAdmit(c) \/ WsRefuse(c) \/ WsUpgrade(c) \/ WsRegister(c)

Run ==
    \/ LoopRegister \/ LoopKickInfo \/ LoopDeleteLoad \/ LoopDeleteStore
    \/ LoopKick \/ LoopTokens \/ LoopSetLoad \/ LoopSetStore \/ LoopOnline
    \/ LoopUnregister \/ LoopUnStore \/ LoopOffline

Kicking(r) == KickLoad(r) \/ KickStore(r) \/ KickReturn(r)

Next ==
    \/ \E c \in Conn : Handling(c) \/ HangUp(c) \/ Reading(c)
    \/ \E t \in Thread : Closing(t)
    \/ Run
    \/ \E l \in RemoteLogin : MultiTerminalLoginCheck(l)
    \/ \E r \in KickRpc : Kicking(r)
    \/ \E r \in KickRpc, k \in KickTarget : KickUserOffline(r, k[1], k[2])

Spec == Init /\ [][Next]_vars

\* Every goroutine that has a step to take is scheduled; peers and callers
\* need never act.
Fairness ==
    /\ \A c \in Conn : WF_vars(WsRegister(c)) /\ WF_vars(Reading(c))
    /\ \A t \in Thread : WF_vars(Closing(t))
    /\ WF_vars(Run)
    /\ \A r \in KickRpc : WF_vars(Kicking(r))

LiveSpec == Spec /\ Fairness

-----------------------------------------------------------------------------
(* Properties.                                                             *)

\* Every variable of the node stays within its type, whatever the interleaving:
\* the slices of the user map and the channels hold allocated structs only.
TypeOK ==
    /\ conf \in Setting
    /\ conn \in [Client -> Conn \union {NoConn}]
    /\ closed \in [Client -> BOOLEAN]
    /\ clientPool \in [Client -> Nat]
    /\ handler \in [Conn -> {"new", "admitted", "refused", "upgraded", "served"}]
    /\ sock \in [Conn -> {"none", "open", "hung", "closed"}]
    /\ struct \in [Conn -> Client \union {NoConn}]
    /\ reader \in [Conn -> {"none", "start", "read", "request", "logout",
                            "handleRequest", "handleLogout", "exit"}]
    /\ readOn \in [Conn -> Conn \union {NoConn}]
    /\ call \in [Thread -> [step : {"none", "write", "check", "lock", "shut", "send"},
                            cl : Client \union {NoConn}, on : Conn \union {NoConn}]]
    /\ \A q \in {registerChan, unregisterChan} :
          q \in Seq({o \in Client : conn[o] # NoConn}) /\ Len(q) <= ChanCap
    /\ kickHandlerChan \in Seq([oldClients : Seq(Client), newClient : AnyId])
    /\ Len(kickHandlerChan) <= ChanCap
    /\ clients \in [User -> Seq({o \in Client : conn[o] # NoConn})]
    /\ onlineUserNum \in Int /\ onlineUserConnNum \in Int /\ gauge \in Int
    /\ status \subseteq User \X Platform
    /\ kicked \subseteq Token
    /\ loop \in [pc : {"idle", "delete", "deleteStore", "kick", "set", "setStore",
                       "online", "unStore", "offline"},
                 cl : Client \union {NoConn}, remote : BOOLEAN,
                 new : AnyId \union {NoConn}, old : Seq(Client), buf : Seq(Client),
                 existed : BOOLEAN]
    /\ rpc \in [KickRpc -> [pc : {"idle", "next", "store", "done"},
                            user : User \union {NoConn}, list : Seq(Client),
                            buf : Seq(Client), existed : BOOLEAN, found : SUBSET Conn]]
    /\ told \subseteq RemoteLogin

\* Nothing is under way on the node: what its tables say now, they say until
\* the next connection, hang-up or RPC.
Quiet ==
    /\ loop.pc = "idle"
    /\ registerChan = <<>> /\ unregisterChan = <<>> /\ kickHandlerChan = <<>>
    /\ \A t \in Thread : call[t] = NoCall
    /\ \A c \in Conn : handler[c] # "upgraded" /\ reader[c] \in {"none", "read", "exit"}
    /\ \A r \in KickRpc : rpc[r].pc \in {"idle", "done"}

\* Connections whose socket this node has open; a peer that hung up is noticed
\* by the reader.
Up == {c \in Conn : sock[c] \in {"open", "hung"}}

Pair(c) == <<ConnUser[c], ConnPlatform[c]>>

\* Without kicks onlineUserConnNum is exactly the number of open connections
\* whenever the node is quiet, even when select takes a client's unregistration
\* before its registration, or the pool hands its struct on in between.
ConnNumExact ==
    Quiet /\ Policy = DefalutNotKick => onlineUserConnNum = Cardinality(Up)

\* With kicks a connection may be unregistered twice (by the kick and by its
\* own reader), never less than once: the count is at most the open ones.
ConnNumBound == Quiet => onlineUserConnNum <= Cardinality(Up)

\* No open connection is lost: once the node is quiet the user map leads to it
\* under its own user, so pushes and kicks find it.
RegisteredReachable ==
    Quiet => \A c \in Up : c \in Serving(clients[ConnUser[c]])

\* "Full-end login, but the same end is mutually exclusive": with
\* AllLoginButSameTermKick a quiet node has one open connection at most for
\* each user and platform.
OneOnlinePerPlatform ==
    Quiet /\ Policy = AllLoginButSameTermKick =>
        \A c, d \in Up : Pair(c) = Pair(d) => c = d

\* A goroutine is between closed.Store and conn.Close for connection c.
Shutting(c) == \E t \in Thread : call[t].step = "shut" /\ call[t].on = c

\* A KickUserOffline that returned leaves no connection it found in service: it
\* is closed, or the goroutine that marked it closed is about to close it.
KickCloses ==
    \A r \in KickRpc : rpc[r].pc = "done" =>
        \A c \in rpc[r].found : sock[c] = "closed" \/ Shutting(c)

\* The event loop waits for a place in the channel that only it drains, or for
\* a mutex whose holder waits for that place.
SelfBlocked ==
    /\ Len(unregisterChan) = ChanCap
    /\ \/ call[Loop].step = "send"
       \/ /\ call[Loop].step \in {"write", "lock"}
          /\ \E t \in Thread : call[t].step = "send" /\ call[t].on = conn[call[Loop].cl]

\* The event loop comes back to empty channels again and again, and the one way
\* it can fail to is a full unregisterChan during a kick of its own: no other
\* wait, for a mutex, a peer or a place in a channel, stops it for good.
QueuesDrain ==
    \/ []<>(loop.pc = "idle" /\ registerChan = <<>> /\ unregisterChan = <<>>
               /\ kickHandlerChan = <<>>)
    \/ <>[]SelfBlocked

\* A connection whose peer is gone is closed by the node.
HungUpCloses ==
    \A c \in Conn : sock[c] = "hung" ~> sock[c] = "closed"

\* "The gateway synchronizes the online status of users": on a quiet node the
\* user service has every platform with an open connection online.
StatusSynchronized == Quiet => \A c \in Up : Pair(c) \in status
=============================================================================
