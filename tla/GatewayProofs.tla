--------------------------- MODULE GatewayProofs ---------------------------
(***************************************************************************)
(* Theorems about Gateway, for any number of connections, users and kicks, *)
(* any login policy and any size of the channels.                          *)
(***************************************************************************)
EXTENDS Gateway, NatSets, SequenceTheorems, TLAPS

\* The structs that serve or served a connection.
Alloc == {o \in Client : conn[o] # NoConn}

CallStep == {"none", "write", "check", "lock", "shut", "send"}
LoopStep == {"idle", "delete", "deleteStore", "kick", "set", "setStore", "online", "unStore",
             "offline"}
LoopState == [pc : LoopStep, cl : Client \union {NoConn}, remote : BOOLEAN,
              new : AnyId \union {NoConn}, old : Seq(Client), buf : Seq(Client),
              existed : BOOLEAN]
RpcState == [pc : {"idle", "next", "store", "done"}, user : User \union {NoConn},
             list : Seq(Client), buf : Seq(Client), existed : BOOLEAN, found : SUBSET Conn]
KickInfo == [oldClients : Seq(Client), newClient : AnyId]

\* The type invariant in parts, each with what keeps it inductive: a goroutine that is
\* at work has a struct, and every list holds structs that were Reset at least once.
ConfOK ==
    /\ conf \in Setting /\ told \subseteq RemoteLogin
    /\ onlineUserNum \in Int /\ onlineUserConnNum \in Int /\ gauge \in Int
    /\ status \subseteq User \X Platform /\ kicked \subseteq Token
StructOK ==
    /\ conn \in [Client -> Conn \union {NoConn}]
    /\ closed \in [Client -> BOOLEAN] /\ clientPool \in [Client -> Nat]
ConnOK ==
    /\ handler \in [Conn -> {"new", "admitted", "refused", "upgraded", "served"}]
    /\ sock \in [Conn -> {"none", "open", "hung", "closed"}]
    /\ struct \in [Conn -> Client \union {NoConn}]
    /\ reader \in [Conn -> {"none", "start", "read", "request", "logout",
                            "handleRequest", "handleLogout", "exit"}]
    /\ readOn \in [Conn -> Conn \union {NoConn}]
    /\ \A c \in Conn : /\ handler[c] \in {"upgraded", "served"} => struct[c] \in Alloc
                       /\ reader[c] # "none" => handler[c] = "served"
CallOK ==
    /\ call \in [Thread -> [step : CallStep, cl : Client \union {NoConn},
                            on : Conn \union {NoConn}]]
    /\ \A t \in Thread : call[t].step # "none" => call[t].cl \in Alloc
ChanOK ==
    /\ registerChan \in Seq(Alloc) /\ Len(registerChan) <= ChanCap
    /\ unregisterChan \in Seq(Alloc) /\ Len(unregisterChan) <= ChanCap
    /\ kickHandlerChan \in Seq([oldClients : Seq(Alloc), newClient : AnyId])
    /\ Len(kickHandlerChan) <= ChanCap
MapOK == clients \in [User -> Seq(Alloc)]
LoopOK ==
    /\ loop \in LoopState /\ loop.old \in Seq(Alloc) /\ loop.buf \in Seq(Alloc)
    /\ loop.pc # "idle" /\ ~ loop.remote => loop.cl \in Alloc
    /\ loop.remote => loop.pc \in {"delete", "deleteStore", "kick"}
    /\ loop.remote \/ loop.pc \in {"deleteStore", "setStore", "unStore"} => loop.new \in AnyId
RpcOK ==
    /\ rpc \in [KickRpc -> RpcState]
    /\ \A r \in KickRpc : /\ rpc[r].list \in Seq(Alloc) /\ rpc[r].buf \in Seq(Alloc)
                          /\ rpc[r].pc = "store" => rpc[r].list # <<>> /\ rpc[r].user \in User

TInv ==
    ConfOK /\ StructOK /\ ConnOK /\ CallOK /\ ChanOK /\ MapOK /\ LoopOK /\ RpcOK

-----------------------------------------------------------------------------
(* Slices.                                                                 *)

\* A sequence over a set is one over any larger set.
LEMMA SeqLarger ==
    ASSUME NEW S, NEW T, S \subseteq T, NEW q \in Seq(S)
    PROVE  q \in Seq(T)
<1>1. PICK n \in Nat : q \in [1..n -> S]
    BY SeqDef
<1>2. q \in [1..n -> T]
    BY <1>1
<1> QED BY <1>2, SeqDef

\* What a loop that appends some of the elements of a slice returns: a slice of these
\* elements.
LEMMA KeptSlice ==
    ASSUME NEW S, NEW q \in Seq(S), NEW K, K \subseteq DOMAIN q
    PROVE  /\ Kept(q, K) \in Seq(S)
           /\ \A n \in DOMAIN Kept(q, K) : \E k \in K : Kept(q, K)[n] = q[k]
           /\ \A k \in K : \E n \in DOMAIN Kept(q, K) : Kept(q, K)[n] = q[k]
           /\ Kept(q, K) = <<>> <=> K = {}
<1> DEFINE N == Cardinality(K)
           Place(n) == CHOOSE k \in K : Cardinality({j \in K : j <= k}) = n
<1>1. DOMAIN q = 1 .. Len(q) /\ Len(q) \in Nat /\ \A k \in DOMAIN q : q[k] \in S
    BY LenProperties, ElementOfSeq
<1>2. K \subseteq Nat /\ IsFiniteSet(K)
  <2>1. K \subseteq 1 .. Len(q) /\ K \subseteq Nat
      BY <1>1
  <2>2. IsFiniteSet(1 .. Len(q))
      BY <1>1, FS_Interval
  <2> QED BY <2>1, <2>2, FS_Subset
<1>3. /\ N \in Nat
      /\ \A k \in K : Cardinality({j \in K : j <= k}) \in 1 .. N
      /\ \A j, k \in K : Cardinality({i \in K : i <= j}) = Cardinality({i \in K : i <= k}) => j = k
      /\ \A n \in 1 .. N : \E k \in K : Cardinality({j \in K : j <= k}) = n
    BY <1>2, UptoRanks DEF Upto
<1>4. \A n \in 1 .. N : Place(n) \in K /\ Cardinality({j \in K : j <= Place(n)}) = n
    BY <1>3
<1>5. \A k \in K : \E n \in 1 .. N : Place(n) = k
  <2> TAKE k \in K
  <2> DEFINE n == Cardinality({j \in K : j <= k})
  <2>1. n \in 1 .. N
      BY <1>3
  <2>2. Place(n) \in K /\ Cardinality({j \in K : j <= Place(n)}) = n
      BY <1>4, <2>1
  <2>3. Place(n) = k
      BY <1>3, <2>2
  <2> QED BY <2>1, <2>3
<1>6. Kept(q, K) = [n \in 1 .. N |-> q[Place(n)]]
    BY DEF Kept
<1> HIDE DEF Place, N
<1>7. \A n \in 1 .. N : q[Place(n)] \in S
    BY <1>1, <1>4
<1>8. Kept(q, K) \in [1 .. N -> S]
    BY <1>6, <1>7
<1>9. Kept(q, K) \in Seq(S)
    BY <1>3, <1>8, SeqDef
<1>10. DOMAIN Kept(q, K) = 1 .. N /\ \A n \in 1 .. N : Kept(q, K)[n] = q[Place(n)]
    BY <1>6
<1>11. Kept(q, K) = <<>> <=> K = {}
  <2>1. Len(Kept(q, K)) = N
      BY <1>3, <1>8, <1>9, <1>10, LenProperties
  <2>2. Kept(q, K) = <<>> <=> N = 0
      BY <1>9, <2>1, EmptySeq
  <2>3. N = 0 <=> K = {}
      BY <1>2, FS_EmptySet DEF N
  <2> QED BY <2>2, <2>3
<1> QED BY <1>4, <1>5, <1>9, <1>10, <1>11
-----------------------------------------------------------------------------
(* Types.                                                                  *)

\* A list of structs stays one when more structs are allocated; what a step does not
\* touch keeps its type.
LEMMA Frames ==
    ASSUME TInv, conf' = conf, Alloc \subseteq Alloc'
    PROVE  /\ UNCHANGED <<told, countVars, status, kicked>> => ConfOK'
           /\ UNCHANGED <<connVars, readVars>> => ConnOK'
           /\ UNCHANGED call => CallOK'
           /\ UNCHANGED registerChan =>
                  registerChan' \in Seq(Alloc') /\ Len(registerChan') <= ChanCap'
           /\ UNCHANGED unregisterChan =>
                  unregisterChan' \in Seq(Alloc') /\ Len(unregisterChan') <= ChanCap'
           /\ UNCHANGED kickHandlerChan =>
                  /\ kickHandlerChan' \in Seq([oldClients : Seq(Alloc'), newClient : AnyId])
                  /\ Len(kickHandlerChan') <= ChanCap'
           /\ UNCHANGED clients => MapOK'
           /\ UNCHANGED loop => LoopOK'
           /\ UNCHANGED rpc => RpcOK'
<1>1. \A q : q \in Seq(Alloc) => q \in Seq(Alloc')
    BY SeqLarger
<1>2. UNCHANGED <<told, countVars, status, kicked>> => ConfOK'
    BY DEF TInv, ConfOK, countVars, RemoteLogin
<1>3. UNCHANGED <<connVars, readVars>> => ConnOK'
  <2> HAVE UNCHANGED <<connVars, readVars>>
  <2>1. \A o : o \in Alloc => o \in Alloc'
      OBVIOUS
  <2> HIDE DEF Alloc
  <2> QED BY <2>1 DEF TInv, ConnOK, connVars, readVars
<1>4. UNCHANGED call => CallOK'
  <2> HAVE UNCHANGED call
  <2>1. \A o : o \in Alloc => o \in Alloc'
      OBVIOUS
  <2> QED BY <2>1 DEF TInv, CallOK
<1>5. ChanCap' = ChanCap
    BY DEF ChanCap
<1>6. /\ UNCHANGED registerChan =>
             registerChan' \in Seq(Alloc') /\ Len(registerChan') <= ChanCap'
      /\ UNCHANGED unregisterChan =>
             unregisterChan' \in Seq(Alloc') /\ Len(unregisterChan') <= ChanCap'
    BY <1>1, <1>5 DEF TInv, ChanOK
<1>7. UNCHANGED kickHandlerChan =>
             /\ kickHandlerChan' \in Seq([oldClients : Seq(Alloc'), newClient : AnyId])
             /\ Len(kickHandlerChan') <= ChanCap'
  <2>1. Seq(Alloc) \subseteq Seq(Alloc')
      BY <1>1
  <2>2. ASSUME NEW S, NEW T, S \subseteq T
        PROVE  [oldClients : S, newClient : AnyId] \subseteq [oldClients : T, newClient : AnyId]
      BY <2>2
  <2>3. [oldClients : Seq(Alloc), newClient : AnyId]
            \subseteq [oldClients : Seq(Alloc'), newClient : AnyId]
      BY <2>1, <2>2
  <2>4. kickHandlerChan \in Seq([oldClients : Seq(Alloc), newClient : AnyId])
        /\ Len(kickHandlerChan) <= ChanCap
      BY DEF TInv, ChanOK
  <2>5. kickHandlerChan \in Seq([oldClients : Seq(Alloc'), newClient : AnyId])
      BY <2>3, <2>4, SeqLarger
  <2> QED BY <1>5, <2>4, <2>5
<1>8. UNCHANGED clients => MapOK'
  <2>1. Seq(Alloc) \subseteq Seq(Alloc')
      BY <1>1
  <2> QED BY <2>1 DEF TInv, MapOK
<1>9. UNCHANGED loop => LoopOK'
  <2>1. \A o : o \in Alloc => o \in Alloc'
      OBVIOUS
  <2> QED BY <1>1, <2>1 DEF TInv, LoopOK
<1>10. UNCHANGED rpc => RpcOK'
  <2> HAVE UNCHANGED rpc
  <2> QED BY <1>1 DEF TInv, RpcOK
<1> QED BY <1>2, <1>3, <1>4, <1>6, <1>7, <1>8, <1>9, <1>10

\* A step that allocates no struct leaves the set of allocated structs as it is.
LEMMA SameAlloc ==
    ASSUME UNCHANGED conn
    PROVE  Alloc' = Alloc /\ Alloc \subseteq Alloc'
BY DEF Alloc

\* What a setting is made of.
LEMMA SettingParts ==
    ASSUME ConfOK
    PROVE  /\ ConnUser \in [Conn -> User] /\ ConnPlatform \in [Conn -> Platform]
           /\ Policy \in Nat /\ ChanCap \in Nat /\ ChanCap > 0
           /\ PoolReuse \in BOOLEAN /\ Talker \subseteq Conn /\ RemoteLogin \subseteq AnyId
<1>1. conf \in [user : [Conn -> User], platform : [Conn -> Platform], policy : Nat,
                chanCap : Nat \ {0}, poolReuse : BOOLEAN, serviceFails : BOOLEAN,
                talker : SUBSET Conn, remoteLogin : SUBSET AnyId]
    BY GatewayAssumption DEF ConfOK
<1> QED BY <1>1 DEF ConnUser, ConnPlatform, Policy, ChanCap, PoolReuse, Talker, RemoteLogin

\* An allocated struct serves a connection, with that connection's handshake arguments.
LEMMA AllocServes ==
    ASSUME ConfOK, StructOK, NEW o \in Alloc
    PROVE  /\ o \in Client /\ conn[o] \in Conn
           /\ ConnUser[conn[o]] \in User /\ ConnPlatform[conn[o]] \in Platform
           /\ Identity(conn[o]) \in AnyId
<1>1. o \in Client /\ conn[o] \in Conn
    BY DEF Alloc, StructOK
<1>2. /\ ConnUser[conn[o]] \in User /\ ConnPlatform[conn[o]] \in Platform
      /\ ConnToken[conn[o]] \in Token
    BY <1>1, SettingParts, GatewayAssumption
<1> QED BY <1>1, <1>2 DEF Identity, AnyId

\* The slice that Get returns holds the structs of the user's slice that serve the
\* platform, all of them and no other.
LEMMA OfPlatformSlice ==
    ASSUME NEW q \in Seq(Alloc), NEW p
    PROVE  /\ OfPlatform(q, p) \in Seq(Alloc)
           /\ \A n \in DOMAIN OfPlatform(q, p) : \E k \in DOMAIN q :
                  OfPlatform(q, p)[n] = q[k] /\ ConnPlatform[conn[q[k]]] = p
           /\ \A k \in DOMAIN q : ConnPlatform[conn[q[k]]] = p =>
                  \E n \in DOMAIN OfPlatform(q, p) : OfPlatform(q, p)[n] = q[k]
           /\ OfPlatform(q, p) = <<>> <=> \A k \in DOMAIN q : ConnPlatform[conn[q[k]]] # p
<1> DEFINE K == {k \in DOMAIN q : ConnPlatform[conn[q[k]]] = p}
<1>1. OfPlatform(q, p) = Kept(q, K)
    BY DEF OfPlatform
<1>2. /\ Kept(q, K) \in Seq(Alloc)
      /\ \A n \in DOMAIN Kept(q, K) : \E k \in K : Kept(q, K)[n] = q[k]
      /\ \A k \in K : \E n \in DOMAIN Kept(q, K) : Kept(q, K)[n] = q[k]
      /\ Kept(q, K) = <<>> <=> K = {}
  <2>1. K \subseteq DOMAIN q
      OBVIOUS
  <2> HIDE DEF K
  <2> QED BY <2>1, KeptSlice
<1>3. /\ \A k \in K : k \in DOMAIN q /\ ConnPlatform[conn[q[k]]] = p
      /\ \A k \in DOMAIN q : ConnPlatform[conn[q[k]]] = p => k \in K
    OBVIOUS
<1> DEFINE R == OfPlatform(q, p)
<1>4. /\ R \in Seq(Alloc)
      /\ \A n \in DOMAIN R : \E k \in K : R[n] = q[k]
      /\ \A k \in K : \E n \in DOMAIN R : R[n] = q[k]
      /\ R = <<>> <=> K = {}
  <2> HIDE DEF K
  <2> QED BY <1>1, <1>2
<1> HIDE DEF K, R
<1>5. \A n \in DOMAIN R : \E k \in DOMAIN q : R[n] = q[k] /\ ConnPlatform[conn[q[k]]] = p
    BY <1>3, <1>4
<1>6. \A k \in DOMAIN q : ConnPlatform[conn[q[k]]] = p => \E n \in DOMAIN R : R[n] = q[k]
    BY <1>3, <1>4
<1>7. R = <<>> <=> \A k \in DOMAIN q : ConnPlatform[conn[q[k]]] # p
    BY <1>3, <1>4
<1> QED BY <1>4, <1>5, <1>6, <1>7 DEF R

\* The slice without some connections: delete and deleteClients keep all the others.
LEMMA WithoutSlice ==
    ASSUME NEW q \in Seq(Alloc), NEW gone
    PROVE  /\ Without(q, gone) \in Seq(Alloc)
           /\ \A n \in DOMAIN Without(q, gone) : \E k \in DOMAIN q :
                  Without(q, gone)[n] = q[k] /\ conn[q[k]] \notin gone
           /\ \A k \in DOMAIN q : conn[q[k]] \notin gone =>
                  \E n \in DOMAIN Without(q, gone) : Without(q, gone)[n] = q[k]
<1> DEFINE K == {k \in DOMAIN q : conn[q[k]] \notin gone}
<1>1. Without(q, gone) = Kept(q, K)
    BY DEF Without
<1>2. /\ Kept(q, K) \in Seq(Alloc)
      /\ \A n \in DOMAIN Kept(q, K) : \E k \in K : Kept(q, K)[n] = q[k]
      /\ \A k \in K : \E n \in DOMAIN Kept(q, K) : Kept(q, K)[n] = q[k]
  <2>1. K \subseteq DOMAIN q
      OBVIOUS
  <2> HIDE DEF K
  <2> QED BY <2>1, KeptSlice
<1>3. /\ \A k \in K : k \in DOMAIN q /\ conn[q[k]] \notin gone
      /\ \A k \in DOMAIN q : conn[q[k]] \notin gone => k \in K
    OBVIOUS
<1> DEFINE R == Without(q, gone)
<1>4. /\ R \in Seq(Alloc)
      /\ \A n \in DOMAIN R : \E k \in K : R[n] = q[k]
      /\ \A k \in K : \E n \in DOMAIN R : R[n] = q[k]
  <2> HIDE DEF K
  <2> QED BY <1>1, <1>2
<1> HIDE DEF K, R
<1>5. \A n \in DOMAIN R : \E k \in DOMAIN q : R[n] = q[k] /\ conn[q[k]] \notin gone
    BY <1>3, <1>4
<1>6. \A k \in DOMAIN q : conn[q[k]] \notin gone => \E n \in DOMAIN R : R[n] = q[k]
    BY <1>3, <1>4
<1> QED BY <1>4, <1>5, <1>6 DEF R

\* The login the event loop is processing.
LEMMA NewType ==
    ASSUME TInv, loop.pc # "idle"
    PROVE  New \in AnyId /\ New.user \in User /\ New.platform \in Platform
<1>1. New \in AnyId
  <2>1. CASE loop.remote
      BY <2>1 DEF TInv, LoopOK, New
  <2>2. CASE ~ loop.remote
    <3>1. loop.cl \in Alloc
        BY <2>2 DEF TInv, LoopOK
    <3> QED BY <2>2, <3>1, AllocServes DEF TInv, New
  <2> QED BY <2>1, <2>2
<1> QED BY <1>1 DEF AnyId

\* Steps that leave the structs alone.
LEMMA FramesSame ==
    ASSUME TInv, UNCHANGED <<conf, conn>>
    PROVE  /\ UNCHANGED <<told, countVars, status, kicked>> => ConfOK'
           /\ UNCHANGED structVars => StructOK'
           /\ UNCHANGED <<connVars, readVars>> => ConnOK'
           /\ UNCHANGED call => CallOK'
           /\ UNCHANGED chanVars => ChanOK'
           /\ UNCHANGED clients => MapOK'
           /\ UNCHANGED loop => LoopOK'
           /\ UNCHANGED rpc => RpcOK'
<1>1. Alloc \subseteq Alloc'
    BY SameAlloc
<1>2. UNCHANGED structVars => StructOK'
    BY DEF TInv, StructOK, structVars
<1>3. UNCHANGED chanVars => ChanOK'
    BY <1>1, Frames DEF chanVars, ChanOK
<1> QED BY <1>1, <1>2, <1>3, Frames

\* The handler of a connection.
LEMMA HandlingTyped ==
    ASSUME TInv, NEW c \in Conn, Handling(c) \/ HangUp(c)
    PROVE  TInv'
<1>1. CASE WsAdmit(c) \/ WsRefuse(c)
  <2>1. /\ UNCHANGED <<conf, conn>> /\ UNCHANGED <<told, countVars, status, kicked>>
        /\ UNCHANGED structVars /\ UNCHANGED <<sock, struct, readVars>> /\ UNCHANGED call
        /\ UNCHANGED chanVars /\ UNCHANGED clients /\ UNCHANGED loop /\ UNCHANGED rpc
      BY <1>1 DEF WsAdmit, WsRefuse, structVars, readVars, chanVars, countVars
  <2>2. /\ handler[c] \in {"new", "admitted"}
        /\ \E h \in {"refused", "admitted"} : handler' = [handler EXCEPT ![c] = h]
      BY <1>1 DEF WsAdmit, WsRefuse
  <2>3. ConnOK'
      BY <2>1, <2>2, SameAlloc DEF TInv, ConnOK, readVars
  <2> QED BY <2>1, <2>3, FramesSame DEF TInv
<1>2. CASE WsUpgrade(c)
  <2>1. /\ UNCHANGED <<told, countVars, status, kicked>> /\ UNCHANGED conf
        /\ UNCHANGED readVars /\ UNCHANGED call
        /\ UNCHANGED chanVars /\ UNCHANGED clients /\ UNCHANGED loop /\ UNCHANGED rpc
      BY <1>2 DEF WsUpgrade, readVars, chanVars, countVars
  <2>2. PICK o \in Client :
            /\ \/ UNCHANGED clientPool
               \/ clientPool[o] > 0 /\ clientPool' = [clientPool EXCEPT ![o] = @ - 1]
            /\ conn' = [conn EXCEPT ![o] = c]
            /\ closed' = [closed EXCEPT ![o] = FALSE]
            /\ struct' = [struct EXCEPT ![c] = o]
      BY <1>2 DEF WsUpgrade, ResetClient
  <2>3. c # NoConn /\ o \in Conn
      BY GatewayAssumption DEF Client
  <2>4. conn' \in [Client -> Conn \union {NoConn}] /\ closed' \in [Client -> BOOLEAN]
      BY <2>2 DEF TInv, StructOK
  <2>5. clientPool' \in [Client -> Nat]
      BY <2>2 DEF TInv, StructOK
  <2>6. Alloc \subseteq Alloc' /\ o \in Alloc'
      BY <2>2, <2>3 DEF TInv, StructOK, Alloc
  <2>7. ConnOK'
    <3>1. /\ handler[c] = "admitted" /\ handler' = [handler EXCEPT ![c] = "upgraded"]
          /\ sock' = [sock EXCEPT ![c] = "open"]
        BY <1>2 DEF WsUpgrade
    <3>2. \A x : x \in Alloc => x \in Alloc'
        BY <2>6
    <3>3. reader' = reader /\ readOn' = readOn
        BY <2>1 DEF readVars
    <3> QED BY <2>2, <2>6, <3>1, <3>2, <3>3 DEF TInv, ConnOK
  <2>8. ChanOK'
      BY <2>1, <2>6, Frames DEF chanVars, ChanOK
  <2> QED BY <2>1, <2>4, <2>5, <2>6, <2>7, <2>8, Frames DEF TInv, StructOK
<1>3. CASE WsRegister(c)
  <2>1. /\ UNCHANGED <<conf, conn>> /\ UNCHANGED <<told, countVars, status, kicked>>
        /\ UNCHANGED structVars /\ UNCHANGED call
        /\ UNCHANGED unregisterChan /\ UNCHANGED kickHandlerChan
        /\ UNCHANGED clients /\ UNCHANGED loop /\ UNCHANGED rpc
        /\ UNCHANGED <<sock, struct, readOn>>
      BY <1>3 DEF WsRegister, structVars, countVars
  <2>2. /\ handler[c] = "upgraded" /\ Len(registerChan) < ChanCap
        /\ registerChan' = Append(registerChan, struct[c])
        /\ handler' = [handler EXCEPT ![c] = "served"]
        /\ reader' = [reader EXCEPT ![c] = "start"]
      BY <1>3 DEF WsRegister
  <2>3. Alloc' = Alloc
      BY <2>1, SameAlloc
  <2>4. ConnOK'
      BY <2>1, <2>2, <2>3 DEF TInv, ConnOK
  <2>5. struct[c] \in Alloc
      BY <2>2 DEF TInv, ConnOK
  <2>6. registerChan' \in Seq(Alloc') /\ Len(registerChan') <= ChanCap'
    <3>1. registerChan \in Seq(Alloc) /\ ChanCap \in Nat /\ ChanCap' = ChanCap
        BY <2>1, SettingParts DEF TInv, ChanOK, ChanCap
    <3> QED BY <2>2, <2>3, <2>5, <3>1, AppendProperties
  <2>7. ChanOK'
      BY <2>1, <2>3, <2>6, Frames DEF ChanOK
  <2> QED BY <2>1, <2>4, <2>7, FramesSame DEF TInv
<1>4. CASE HangUp(c)
  <2>1. /\ UNCHANGED <<conf, conn>> /\ UNCHANGED <<told, countVars, status, kicked>>
        /\ UNCHANGED structVars /\ UNCHANGED <<handler, struct, readVars>> /\ UNCHANGED call
        /\ UNCHANGED chanVars /\ UNCHANGED clients /\ UNCHANGED loop /\ UNCHANGED rpc
        /\ sock' = [sock EXCEPT ![c] = "hung"]
      BY <1>4 DEF HangUp, structVars, readVars, chanVars, countVars
  <2>2. ConnOK'
      BY <2>1, SameAlloc DEF TInv, ConnOK, readVars
  <2> QED BY <2>1, <2>2, FramesSame DEF TInv
<1> QED BY <1>1, <1>2, <1>3, <1>4 DEF Handling

\* A goroutine inside KickOnlineMessage or close.
LEMMA ClosingTyped ==
    ASSUME TInv, NEW t \in Thread, Closing(t)
    PROVE  TInv'
<1>0. /\ call \in [Thread -> [step : CallStep, cl : Client \union {NoConn},
                              on : Conn \union {NoConn}]]
      /\ \A s \in Thread : call[s].step # "none" => call[s].cl \in Alloc
    BY DEF TInv, CallOK
<1>1. UNCHANGED <<conf, conn>> /\ Alloc' = Alloc
  <2>1. UNCHANGED <<conf, conn>>
      BY DEF Closing, KickWrite, CloseCheck, CloseLock, ConnClose, UnRegister, structVars
  <2> QED BY <2>1, SameAlloc
<1>2. UNCHANGED <<told, countVars, status, kicked>> /\ UNCHANGED clients /\ UNCHANGED loop
      /\ UNCHANGED rpc /\ UNCHANGED registerChan /\ UNCHANGED kickHandlerChan
      /\ UNCHANGED <<handler, struct, readVars>> /\ UNCHANGED clientPool
    BY DEF Closing, KickWrite, CloseCheck, CloseLock, ConnClose, UnRegister, structVars, connVars, readVars,
           chanVars, countVars
<1>3. ConfOK' /\ MapOK' /\ LoopOK' /\ RpcOK'
    BY <1>1, <1>2, FramesSame
<1>4. CallOK'
  <2>1. \E n \in [step : CallStep, cl : Client \union {NoConn}, on : Conn \union {NoConn}] :
            /\ call' = [call EXCEPT ![t] = n]
            /\ n.step # "none" => n.cl \in Alloc
    <3>1. CASE KickWrite(t) \/ ConnClose(t)
      <4> DEFINE k == IF call[t].step = "write" THEN "check" ELSE "send"
                 n == [call[t] EXCEPT !.step = k]
      <4>1. n \in [step : CallStep, cl : Client \union {NoConn}, on : Conn \union {NoConn}]
            /\ n.cl = call[t].cl
          BY <1>0 DEF CallStep
      <4>2. call' = [call EXCEPT ![t] = n] /\ call[t].step \in {"write", "shut"}
          BY <1>0, <3>1 DEF KickWrite, ConnClose
      <4> HIDE DEF n
      <4> QED BY <1>0, <4>1, <4>2
    <3>2. CASE CloseCheck(t)
      <4>1. call[t].step = "check" /\ call[t].cl \in Alloc /\ call[t].cl \in Client
          BY <1>0, <3>2 DEF CloseCheck, Alloc
      <4>2. \E n \in {NoCall, Call("lock", call[t].cl)} : call' = [call EXCEPT ![t] = n]
          BY <1>0, <3>2 DEF CloseCheck
      <4> QED BY <4>1, <4>2 DEF NoCall, Call, CallStep
    <3>3. CASE CloseLock(t)
      <4>1. call[t].step = "lock" /\ call[t].cl \in Alloc /\ call[t].cl \in Client
          BY <1>0, <3>3 DEF CloseLock, Alloc
      <4>2. call' = [call EXCEPT ![t] = [step |-> "shut", cl |-> call[t].cl,
                                         on |-> conn[call[t].cl]]]
          BY <3>3 DEF CloseLock
      <4>3. conn[call[t].cl] \in Conn
          BY <4>1 DEF TInv, StructOK, Alloc
      <4> DEFINE n == [step |-> "shut", cl |-> call[t].cl, on |-> conn[call[t].cl]]
      <4>4. n \in [step : CallStep, cl : Client \union {NoConn}, on : Conn \union {NoConn}]
            /\ n.cl = call[t].cl
          BY <4>1, <4>3 DEF CallStep
      <4>5. call' = [call EXCEPT ![t] = n]
          BY <4>2
      <4> HIDE DEF n
      <4> QED BY <4>1, <4>4, <4>5
    <3>4. CASE UnRegister(t)
      <4>1. NoCall \in [step : CallStep, cl : Client \union {NoConn}, on : Conn \union {NoConn}]
            /\ NoCall.step = "none"
          BY DEF NoCall, CallStep
      <4> QED BY <3>4, <4>1 DEF UnRegister
    <3> QED BY <3>1, <3>2, <3>3, <3>4 DEF Closing
  <2> QED BY <1>0, <1>1, <2>1 DEF CallOK
<1>5. StructOK' /\ ConnOK'
  <2>1. CASE CloseLock(t)
    <3>1. call[t].cl \in Client
        BY <1>0, <2>1 DEF CloseLock, Alloc
    <3>2. closed' = [closed EXCEPT ![call[t].cl] = TRUE] /\ UNCHANGED <<connVars, readVars>>
        BY <2>1 DEF CloseLock, connVars, readVars
    <3>3. StructOK'
        BY <1>1, <1>2, <3>1, <3>2 DEF TInv, StructOK
    <3> QED BY <1>1, <3>2, <3>3, FramesSame
  <2>2. CASE ConnClose(t)
    <3>1. conn[call[t].cl] \in Conn
        BY <1>0, <2>2 DEF ConnClose, Alloc, TInv, StructOK
    <3>2. sock' = [sock EXCEPT ![conn[call[t].cl]] = "closed"] /\ UNCHANGED structVars
        BY <2>2 DEF ConnClose, structVars
    <3>3. ConnOK'
        BY <1>1, <1>2, <3>1, <3>2 DEF TInv, ConnOK, readVars
    <3> QED BY <1>1, <3>2, <3>3, FramesSame
  <2>3. CASE ~ CloseLock(t) /\ ~ ConnClose(t)
    <3>1. UNCHANGED structVars /\ UNCHANGED <<connVars, readVars>>
        BY <2>3 DEF Closing, KickWrite, CloseCheck, UnRegister, structVars, connVars, readVars
    <3> QED BY <1>1, <3>1, FramesSame
  <2> QED BY <2>1, <2>2, <2>3
<1>6. ChanOK'
  <2>1. CASE UnRegister(t)
    <3>1. /\ Len(unregisterChan) < ChanCap /\ call[t].cl \in Alloc
          /\ unregisterChan' = Append(unregisterChan, call[t].cl)
        BY <1>0, <2>1 DEF UnRegister
    <3>2. unregisterChan \in Seq(Alloc) /\ ChanCap \in Nat /\ ChanCap' = ChanCap
        BY <1>1, SettingParts DEF TInv, ChanOK, ChanCap
    <3>3. unregisterChan' \in Seq(Alloc') /\ Len(unregisterChan') <= ChanCap'
        BY <1>1, <3>1, <3>2, AppendProperties
    <3> QED BY <1>1, <1>2, <3>3, Frames DEF ChanOK
  <2>2. CASE ~ UnRegister(t)
    <3>1. UNCHANGED chanVars
        BY <2>2 DEF Closing, KickWrite, CloseCheck, CloseLock, ConnClose, chanVars
    <3> QED BY <1>1, <3>1, FramesSame
  <2> QED BY <2>1, <2>2
<1> QED BY <1>3, <1>4, <1>5, <1>6 DEF TInv

\* The reader of a connection.
LEMMA ReadingTyped ==
    ASSUME TInv, NEW c \in Conn, Reading(c)
    PROVE  TInv'
<1>1. UNCHANGED <<conf, conn>> /\ Alloc' = Alloc
  <2>1. UNCHANGED <<conf, conn>>
      BY DEF Reading, ReadCall, ReadError, ReadMessage, CheckClosed, HandleMessage, structVars
  <2> QED BY <2>1, SameAlloc
<1>2. /\ UNCHANGED <<told, countVars, status, kicked>> /\ UNCHANGED clients /\ UNCHANGED loop
      /\ UNCHANGED rpc /\ UNCHANGED chanVars /\ UNCHANGED structVars
      /\ UNCHANGED <<handler, sock, struct>>
    BY DEF Reading, ReadCall, ReadError, ReadMessage, CheckClosed, HandleMessage, structVars,
           connVars, chanVars, countVars
<1>3. reader[c] # "none" /\ handler[c] = "served" /\ struct[c] \in Alloc
  <2>1. reader[c] # "none"
      BY DEF Reading, ReadCall, ReadError, ReadMessage, CheckClosed, HandleMessage
  <2> QED BY <2>1 DEF TInv, ConnOK
<1>4. \E k \in {"start", "read", "request", "logout", "handleRequest", "handleLogout", "exit"} :
          reader' = [reader EXCEPT ![c] = k]
    BY DEF Reading, ReadCall, ReadError, ReadMessage, CheckClosed, HandleMessage, Leave
<1>5. \E d \in Conn \union {NoConn} : readOn' = [readOn EXCEPT ![c] = d]
  <2>1. CASE ReadCall(c)
      BY <1>3, <2>1 DEF ReadCall, TInv, StructOK, Alloc
  <2>2. CASE ~ ReadCall(c)
    <3>1. readOn' = readOn
        BY <2>2 DEF Reading, ReadError, ReadMessage, CheckClosed, HandleMessage
    <3>2. readOn' = [readOn EXCEPT ![c] = readOn[c]] /\ readOn[c] \in Conn \union {NoConn}
        BY <3>1 DEF TInv, ConnOK
    <3> QED BY <3>2
  <2> QED BY <2>1, <2>2
<1>6. ConnOK'
    BY <1>1, <1>2, <1>3, <1>4, <1>5 DEF TInv, ConnOK
<1>7. CallOK'
  <2>1. UNCHANGED call \/ call' = [call EXCEPT ![c] = Call("check", struct[c])]
      BY DEF Reading, ReadCall, ReadError, ReadMessage, CheckClosed, HandleMessage, Leave
  <2>2. CASE UNCHANGED call
      BY <1>1, <2>2, FramesSame
  <2>3. CASE call' = [call EXCEPT ![c] = Call("check", struct[c])]
    <3>1. Call("check", struct[c]) \in [step : CallStep, cl : Client \union {NoConn},
                                        on : Conn \union {NoConn}]
          /\ Call("check", struct[c]).cl = struct[c] /\ c \in Thread
        BY <1>3 DEF Call, CallStep, Alloc, Thread
    <3> QED BY <1>1, <1>3, <2>3, <3>1 DEF TInv, CallOK
  <2> QED BY <2>1, <2>2, <2>3
<1> QED BY <1>1, <1>2, <1>6, <1>7, FramesSame DEF TInv

\* The head and the tail of a channel or a list that is not empty.
LEMMA Pop ==
    ASSUME NEW S, NEW q \in Seq(S), q # <<>>
    PROVE  /\ Head(q) \in S /\ Tail(q) \in Seq(S) /\ Len(Tail(q)) = Len(q) - 1
           /\ Len(q) \in Nat /\ Len(q) > 0
           /\ \A k \in DOMAIN q : q[k] = Head(q) \/ \E n \in DOMAIN Tail(q) : Tail(q)[n] = q[k]
           /\ \A n \in DOMAIN Tail(q) : n + 1 \in DOMAIN q /\ Tail(q)[n] = q[n + 1]
           /\ 1 \in DOMAIN q /\ Head(q) = q[1]
<1>1. /\ Head(q) \in S /\ Tail(q) \in Seq(S) /\ Len(Tail(q)) = Len(q) - 1
      /\ Head(q) = q[1]
      /\ \A i \in 1 .. Len(q) - 1 : Tail(q)[i] = q[i + 1]
    BY HeadTailProperties
<1>2. Len(q) \in Nat /\ DOMAIN q = 1 .. Len(q) /\ DOMAIN Tail(q) = 1 .. Len(Tail(q))
    BY <1>1, LenProperties
<1>3. Len(q) > 0
    BY <1>2, EmptySeq
<1>4. \A k \in DOMAIN q : q[k] = Head(q) \/ \E n \in DOMAIN Tail(q) : Tail(q)[n] = q[k]
  <2> TAKE k \in DOMAIN q
  <2>1. k \in Nat /\ k >= 1 /\ k <= Len(q)
      BY <1>2
  <2>2. CASE k # 1
    <3>1. k - 1 \in 1 .. Len(q) - 1 /\ (k - 1) + 1 = k
        BY <1>2, <2>1, <2>2
    <3> QED BY <1>1, <1>2, <3>1
  <2> QED BY <1>1, <2>2
<1>5. \A n \in DOMAIN Tail(q) : n + 1 \in DOMAIN q /\ Tail(q)[n] = q[n + 1]
    BY <1>1, <1>2
<1> QED BY <1>1, <1>2, <1>3, <1>4, <1>5

\* The event loop at rest.
LEMMA IdleTyped ==
    /\ Idle \in LoopState /\ Idle.pc = "idle" /\ ~ Idle.remote
    /\ Idle.old = <<>> /\ Idle.buf = <<>> /\ \A S : <<>> \in Seq(S)
<1>1. \A S : <<>> \in Seq(S)
    BY EmptySeq
<1> QED BY <1>1 DEF Idle, LoopState, LoopStep, AnyId

\* The event loop takes an element from a channel.
LEMMA TakeTyped ==
    ASSUME TInv, LoopRegister \/ LoopKickInfo \/ LoopUnregister
    PROVE  TInv'
<1>1. UNCHANGED <<conf, conn>> /\ Alloc' = Alloc /\ ChanCap' = ChanCap
  <2>1. UNCHANGED <<conf, conn>>
      BY DEF LoopRegister, LoopKickInfo, LoopUnregister, structVars
  <2> QED BY <2>1, SameAlloc DEF ChanCap
<1>2. /\ UNCHANGED <<told, countVars, status, kicked>> /\ UNCHANGED structVars
      /\ UNCHANGED <<connVars, readVars>> /\ UNCHANGED call /\ UNCHANGED clients
      /\ UNCHANGED rpc
    BY DEF LoopRegister, LoopKickInfo, LoopUnregister, structVars, connVars, readVars, countVars
<1>3. /\ registerChan \in Seq(Alloc) /\ Len(registerChan) <= ChanCap
      /\ unregisterChan \in Seq(Alloc) /\ Len(unregisterChan) <= ChanCap
      /\ kickHandlerChan \in Seq([oldClients : Seq(Alloc), newClient : AnyId])
      /\ Len(kickHandlerChan) <= ChanCap /\ ChanCap \in Nat
    BY SettingParts DEF TInv, ChanOK
<1>4. Seq(Alloc) \subseteq Seq(Client)
    BY SeqLarger DEF Alloc
<1>5. CASE LoopRegister
  <2> DEFINE o == Head(registerChan)
             all == clients[ConnUser[conn[o]]]
             old == OfPlatform(all, ConnPlatform[conn[o]])
             kick == all # <<>> /\ old # <<>> /\ Kicks(ConnPlatform[conn[o]])
             some == all # <<>>
             p == IF kick THEN "delete" ELSE "set"
             l == IF kick THEN old ELSE <<>>
             n == [Idle EXCEPT !.pc = p, !.cl = o, !.old = l, !.existed = some]
  <2>1. loop' = n /\ registerChan # <<>> /\ registerChan' = Tail(registerChan)
        /\ UNCHANGED <<unregisterChan, kickHandlerChan>>
      BY <1>5 DEF LoopRegister
  <2>2. o \in Alloc /\ registerChan' \in Seq(Alloc) /\ Len(registerChan') <= ChanCap
      BY <1>3, <2>1, Pop
  <2>3. ChanOK'
      BY <1>1, <2>1, <2>2, Frames DEF ChanOK
  <2>4. all \in Seq(Alloc)
      BY <2>2, AllocServes DEF TInv, MapOK
  <2>5. l \in Seq(Alloc) /\ p \in {"delete", "set"} /\ some \in BOOLEAN
      BY <2>4, OfPlatformSlice, IdleTyped
  <2> HIDE DEF p, l, some, o
  <2>6. /\ n \in LoopState /\ n.pc = p /\ n.cl = o /\ ~ n.remote /\ n.old = l /\ n.buf = <<>>
    <3>1. o \in Client /\ l \in Seq(Client) /\ p \in LoopStep
        BY <1>4, <2>2, <2>5 DEF Alloc, LoopStep
    <3> QED BY <2>5, <3>1, IdleTyped DEF Idle, LoopState
  <2> HIDE DEF n
  <2>7. LoopOK'
      BY <1>1, <2>1, <2>2, <2>5, <2>6, IdleTyped DEF LoopOK
  <2> QED BY <1>1, <1>2, <2>3, <2>7, FramesSame DEF TInv
<1>6. CASE LoopKickInfo
  <2> DEFINE i == Head(kickHandlerChan)
             n == [Idle EXCEPT !.pc = "delete", !.remote = TRUE, !.new = i.newClient,
                               !.old = i.oldClients]
  <2>1. loop' \in {n, Idle} /\ kickHandlerChan # <<>> /\ kickHandlerChan' = Tail(kickHandlerChan)
        /\ UNCHANGED <<registerChan, unregisterChan>>
      BY <1>6 DEF LoopKickInfo
  <2>2. /\ i \in [oldClients : Seq(Alloc), newClient : AnyId]
        /\ kickHandlerChan' \in Seq([oldClients : Seq(Alloc), newClient : AnyId])
        /\ Len(kickHandlerChan') <= ChanCap
    <3> DEFINE I == [oldClients : Seq(Alloc), newClient : AnyId]
    <3>1. kickHandlerChan \in Seq(I)
        BY <1>3
    <3> HIDE DEF I
    <3>2. i \in I /\ kickHandlerChan' \in Seq(I) /\ Len(kickHandlerChan') <= ChanCap
        BY <1>3, <2>1, <3>1, Pop
    <3> QED BY <3>2 DEF I
  <2>3. ChanOK'
      BY <1>1, <2>1, <2>2, Frames DEF ChanOK
  <2>4. i.oldClients \in Seq(Alloc) /\ i.newClient \in AnyId
      BY <2>2
  <2> HIDE DEF i
  <2>5. /\ n \in LoopState /\ n.pc = "delete" /\ n.remote /\ n.new \in AnyId
        /\ n.old \in Seq(Alloc) /\ n.buf = <<>>
    <3>1. i.oldClients \in Seq(Client)
        BY <1>4, <2>4
    <3> QED BY <2>4, <3>1, IdleTyped DEF Idle, LoopState, LoopStep
  <2> HIDE DEF n
  <2>6. LoopOK'
      BY <1>1, <2>1, <2>5, IdleTyped DEF LoopOK
  <2> QED BY <1>1, <1>2, <2>3, <2>6, FramesSame DEF TInv
<1>7. CASE LoopUnregister
  <2> DEFINE o == Head(unregisterChan)
             all == clients[ConnUser[conn[o]]]
             some == all # <<>>
             who == Identity(conn[o])
             w == Without(all, {conn[o]})
             n == [Idle EXCEPT !.pc = "unStore", !.cl = o, !.new = who, !.buf = w,
                               !.existed = some]
  <2>1. loop' = n /\ unregisterChan # <<>> /\ unregisterChan' = Tail(unregisterChan)
        /\ UNCHANGED <<registerChan, kickHandlerChan>>
      BY <1>7 DEF LoopUnregister
  <2>2. o \in Alloc /\ unregisterChan' \in Seq(Alloc) /\ Len(unregisterChan') <= ChanCap
      BY <1>3, <2>1, Pop
  <2>3. ChanOK'
      BY <1>1, <2>1, <2>2, Frames DEF ChanOK
  <2>4. all \in Seq(Alloc) /\ who \in AnyId
      BY <2>2, AllocServes DEF TInv, MapOK
  <2>5. w \in Seq(Alloc) /\ some \in BOOLEAN
      BY <2>4, WithoutSlice
  <2> HIDE DEF w, who, some, o
  <2>6. /\ n \in LoopState /\ n.pc = "unStore" /\ n.cl = o /\ ~ n.remote /\ n.old = <<>>
        /\ n.buf = w /\ n.new = who
    <3>1. o \in Client /\ w \in Seq(Client)
        BY <1>4, <2>2, <2>5 DEF Alloc
    <3> QED BY <2>4, <2>5, <3>1, IdleTyped DEF Idle, LoopState, LoopStep
  <2> HIDE DEF n
  <2>7. LoopOK'
      BY <1>1, <2>1, <2>2, <2>4, <2>5, <2>6, IdleTyped DEF LoopOK
  <2> QED BY <1>1, <1>2, <2>3, <2>7, FramesSame DEF TInv
<1> QED BY <1>5, <1>6, <1>7

\* A login or another node's login is processed: the map is loaded, stored or left alone.
LEMMA LoadTyped ==
    ASSUME TInv, LoopDeleteLoad \/ LoopSetLoad \/ LoopKick \/ LoopTokens
    PROVE  TInv'
<1>1. UNCHANGED <<conf, conn>> /\ Alloc' = Alloc
  <2>1. UNCHANGED <<conf, conn>>
      BY DEF LoopDeleteLoad, LoopSetLoad, LoopKick, LoopTokens, structVars
  <2> QED BY <2>1, SameAlloc
<1>2. /\ UNCHANGED structVars /\ UNCHANGED <<connVars, readVars>> /\ UNCHANGED chanVars
      /\ UNCHANGED clients /\ UNCHANGED rpc /\ UNCHANGED <<told, countVars, status>>
    BY DEF LoopDeleteLoad, LoopSetLoad, LoopKick, LoopTokens, structVars, connVars, readVars,
           chanVars, countVars
<1>3. StructOK' /\ ConnOK' /\ ChanOK' /\ MapOK' /\ RpcOK'
    BY <1>1, <1>2, FramesSame
<1>4. /\ loop \in LoopState /\ loop.old \in Seq(Alloc) /\ loop.buf \in Seq(Alloc)
      /\ (loop.pc # "idle" /\ ~ loop.remote => loop.cl \in Alloc)
      /\ (loop.remote => loop.pc \in {"delete", "deleteStore", "kick"})
      /\ (loop.remote \/ loop.pc \in {"deleteStore", "setStore", "unStore"} => loop.new \in AnyId)
    BY DEF TInv, LoopOK
<1>5. Seq(Alloc) \subseteq Seq(Client)
    BY SeqLarger DEF Alloc
<1>6. CASE LoopDeleteLoad
  <2> DEFINE who == New
             all == clients[who.user]
             some == all # <<>>
             w == Without(all, Serving(loop.old))
             n == [loop EXCEPT !.pc = "deleteStore", !.buf = w, !.new = who, !.existed = some]
  <2>1. loop.pc = "delete" /\ loop' = n
      BY <1>6 DEF LoopDeleteLoad
  <2>2. who \in AnyId /\ who.user \in User
      BY <2>1, NewType
  <2>3. all \in Seq(Alloc)
      BY <2>2 DEF TInv, MapOK
  <2>4. w \in Seq(Alloc) /\ some \in BOOLEAN
      BY <2>3, WithoutSlice
  <2> HIDE DEF w, who, some
  <2>5. /\ n \in LoopState /\ n.pc = "deleteStore" /\ n.cl = loop.cl /\ n.remote = loop.remote
        /\ n.old = loop.old /\ n.buf = w /\ n.new = who
      BY <1>4, <1>5, <2>2, <2>4 DEF LoopState, LoopStep
  <2> HIDE DEF n
  <2>6. LoopOK'
      BY <1>1, <1>4, <2>1, <2>2, <2>4, <2>5 DEF LoopOK
  <2>7. ConfOK' /\ CallOK'
      BY <1>1, <1>2, <1>6, FramesSame DEF LoopDeleteLoad
  <2> QED BY <1>3, <2>6, <2>7 DEF TInv
<1>7. CASE LoopSetLoad
  <2> DEFINE who == New
             all == clients[who.user]
             w == Append(all, loop.cl)
             n == [loop EXCEPT !.pc = "setStore", !.buf = w, !.new = who]
  <2>1. loop.pc = "set" /\ loop' = n /\ ~ loop.remote /\ loop.cl \in Alloc
      BY <1>4, <1>7 DEF LoopSetLoad
  <2>2. who \in AnyId /\ who.user \in User
      BY <2>1, NewType
  <2>3. all \in Seq(Alloc)
      BY <2>2 DEF TInv, MapOK
  <2>4. w \in Seq(Alloc)
      BY <2>1, <2>3, AppendProperties
  <2> HIDE DEF w, who
  <2>5. /\ n \in LoopState /\ n.pc = "setStore" /\ n.cl = loop.cl /\ n.remote = loop.remote
        /\ n.old = loop.old /\ n.buf = w /\ n.new = who
      BY <1>4, <1>5, <2>2, <2>4 DEF LoopState, LoopStep
  <2> HIDE DEF n
  <2>6. LoopOK'
      BY <1>1, <1>4, <2>1, <2>2, <2>4, <2>5 DEF LoopOK
  <2>7. ConfOK' /\ CallOK'
      BY <1>1, <1>2, <1>7, FramesSame DEF LoopSetLoad
  <2> QED BY <1>3, <2>6, <2>7 DEF TInv
<1>8. CASE LoopKick
  <2> DEFINE o == Head(loop.old)
             n == [loop EXCEPT !.old = Tail(loop.old)]
  <2>1. loop.pc = "kick" /\ loop' = n /\ loop.old # <<>>
        /\ call' = [call EXCEPT ![Loop] = Call("write", o)]
      BY <1>4, <1>8 DEF LoopKick, LoopState
  <2>2. o \in Alloc /\ Tail(loop.old) \in Seq(Alloc)
      BY <1>4, <2>1, Pop
  <2>3. /\ n \in LoopState /\ n.pc = "kick" /\ n.cl = loop.cl /\ n.remote = loop.remote
        /\ n.old = Tail(loop.old) /\ n.buf = loop.buf /\ n.new = loop.new
    <3> DEFINE l == Tail(loop.old)
    <3>1. l \in Seq(Client)
        BY <1>5, <2>2
    <3> HIDE DEF l
    <3>2. /\ [loop EXCEPT !.old = l] \in LoopState
          /\ [loop EXCEPT !.old = l].pc = "kick" /\ [loop EXCEPT !.old = l].cl = loop.cl
          /\ [loop EXCEPT !.old = l].remote = loop.remote /\ [loop EXCEPT !.old = l].old = l
          /\ [loop EXCEPT !.old = l].buf = loop.buf /\ [loop EXCEPT !.old = l].new = loop.new
        BY <1>4, <2>1, <3>1 DEF LoopState
    <3> QED BY <3>2 DEF l
  <2> HIDE DEF n
  <2>4. LoopOK'
      BY <1>1, <1>4, <2>1, <2>2, <2>3 DEF LoopOK
  <2>5. CallOK'
    <3>1. Call("write", o) \in [step : CallStep, cl : Client \union {NoConn},
                                on : Conn \union {NoConn}]
          /\ Call("write", o).cl = o /\ Loop \in Thread
        BY <2>2 DEF Call, CallStep, Alloc, Thread
    <3> QED BY <1>1, <2>1, <2>2, <3>1 DEF TInv, CallOK
  <2>6. ConfOK'
      BY <1>1, <1>2, <1>8, FramesSame DEF LoopKick
  <2> QED BY <1>3, <2>4, <2>5, <2>6 DEF TInv
<1>9. CASE LoopTokens
  <2> DEFINE n == [loop EXCEPT !.pc = "set"]
  <2>1. loop.pc = "kick" /\ UNCHANGED call
        /\ loop' = IF loop.remote THEN Idle ELSE n
      BY <1>9 DEF LoopTokens
  <2>2. /\ n \in LoopState /\ n.pc = "set" /\ n.cl = loop.cl /\ n.remote = loop.remote
        /\ n.old = loop.old /\ n.buf = loop.buf /\ n.new = loop.new
      BY <1>4 DEF LoopState, LoopStep
  <2> HIDE DEF n
  <2>3. LoopOK'
      BY <1>1, <1>4, <2>1, <2>2, IdleTyped DEF LoopOK
  <2>4. kicked' \subseteq Token
    <3>1. kicked \subseteq Token
        BY DEF TInv, ConfOK
    <3>2. TokensOf(New.user, New.platform) \subseteq Token
        BY GatewayAssumption DEF TokensOf
    <3> QED BY <1>9, <3>1, <3>2 DEF LoopTokens
  <2>5. ConfOK'
      BY <1>1, <1>2, <2>4 DEF TInv, ConfOK, countVars, RemoteLogin
  <2> QED BY <1>1, <1>3, <2>1, <2>3, <2>5, FramesSame DEF TInv
<1> QED BY <1>6, <1>7, <1>8, <1>9

\* The event loop stores a user's slice and counts, or tells the user service.
LEMMA StoreTyped ==
    ASSUME TInv, LoopDeleteStore \/ LoopSetStore \/ LoopUnStore \/ LoopOnline \/ LoopOffline
    PROVE  TInv'
<1>1. UNCHANGED <<conf, conn>> /\ Alloc' = Alloc
  <2>1. UNCHANGED <<conf, conn>>
      BY DEF LoopDeleteStore, LoopSetStore, LoopUnStore, LoopOnline, LoopOffline, structVars
  <2> QED BY <2>1, SameAlloc
<1>2. /\ UNCHANGED closed /\ UNCHANGED <<connVars, readVars>> /\ UNCHANGED chanVars
      /\ UNCHANGED rpc /\ UNCHANGED call /\ UNCHANGED <<told, kicked>>
    BY DEF LoopDeleteStore, LoopSetStore, LoopUnStore, LoopOnline, LoopOffline, structVars,
           connVars, readVars, chanVars, countVars
<1>3. ConnOK' /\ ChanOK' /\ RpcOK' /\ CallOK'
    BY <1>1, <1>2, FramesSame
<1>4. /\ loop \in LoopState /\ loop.old \in Seq(Alloc) /\ loop.buf \in Seq(Alloc)
      /\ (loop.pc # "idle" /\ ~ loop.remote => loop.cl \in Alloc)
      /\ (loop.remote => loop.pc \in {"delete", "deleteStore", "kick"})
      /\ (loop.remote \/ loop.pc \in {"deleteStore", "setStore", "unStore"} => loop.new \in AnyId)
    BY DEF TInv, LoopOK
<1>5. LoopOK'
  <2>1. CASE LoopDeleteStore
    <3> DEFINE n == [loop EXCEPT !.pc = "kick", !.buf = <<>>, !.existed = TRUE]
    <3>1. loop' = n /\ loop.pc = "deleteStore"
        BY <2>1 DEF LoopDeleteStore
    <3>2. /\ n \in LoopState /\ n.pc = "kick" /\ n.cl = loop.cl /\ n.remote = loop.remote
          /\ n.old = loop.old /\ n.buf = <<>> /\ n.new = loop.new
        BY <1>4, IdleTyped DEF LoopState, LoopStep
    <3> HIDE DEF n
    <3> QED BY <1>1, <1>4, <3>1, <3>2, IdleTyped DEF LoopOK
  <2>2. CASE LoopSetStore \/ LoopUnStore
    <3> DEFINE p == IF loop.pc = "setStore" THEN "online" ELSE "offline"
               n == [loop EXCEPT !.pc = p, !.buf = <<>>, !.new = NoConn]
    <3>1. loop' = n /\ loop.pc \in {"setStore", "unStore"} /\ p \in {"online", "offline"}
        BY <2>2 DEF LoopSetStore, LoopUnStore
    <3> HIDE DEF p
    <3>2. /\ n \in LoopState /\ n.pc = p /\ n.cl = loop.cl /\ n.remote = loop.remote
          /\ n.old = loop.old /\ n.buf = <<>>
        BY <1>4, <3>1, IdleTyped DEF LoopState, LoopStep
    <3> HIDE DEF n
    <3> QED BY <1>1, <1>4, <3>1, <3>2, IdleTyped DEF LoopOK
  <2>3. CASE LoopOnline \/ LoopOffline
    <3>1. loop' = Idle
        BY <2>3 DEF LoopOnline, LoopOffline
    <3> QED BY <1>1, <3>1, IdleTyped DEF LoopOK
  <2> QED BY <2>1, <2>2, <2>3
<1>6. MapOK'
  <2>1. CASE LoopDeleteStore \/ LoopSetStore \/ LoopUnStore
    <3>1. \/ clients' = clients
          \/ clients' = [clients EXCEPT ![loop.new.user] = loop.buf]
        BY <2>1 DEF LoopDeleteStore, LoopSetStore, LoopUnStore
    <3> QED BY <1>1, <1>4, <3>1 DEF TInv, MapOK
  <2>2. CASE LoopOnline \/ LoopOffline
    <3>1. UNCHANGED clients
        BY <2>2 DEF LoopOnline, LoopOffline
    <3> QED BY <1>1, <3>1, FramesSame
  <2> QED BY <2>1, <2>2
<1>7. StructOK'
  <2>1. CASE LoopOffline
    <3>1. loop.cl \in Client /\ clientPool' = [clientPool EXCEPT ![loop.cl] = @ + 1]
        BY <1>4, <2>1 DEF LoopOffline, Alloc
    <3> QED BY <1>1, <1>2, <3>1 DEF TInv, StructOK
  <2>2. CASE ~ LoopOffline
    <3>1. UNCHANGED structVars
        BY <2>2 DEF LoopDeleteStore, LoopSetStore, LoopUnStore, LoopOnline, structVars
    <3> QED BY <1>1, <3>1, FramesSame
  <2> QED BY <2>1, <2>2
<1>8. ConfOK'
  <2>1. onlineUserNum' \in Int /\ onlineUserConnNum' \in Int /\ gauge' \in Int
    <3>1. onlineUserNum \in Int /\ onlineUserConnNum \in Int /\ gauge \in Int
        BY DEF TInv, ConfOK
    <3>2. /\ onlineUserNum' \in {onlineUserNum, onlineUserNum - 1, onlineUserNum + 1}
          /\ onlineUserConnNum' \in
                 {onlineUserConnNum, onlineUserConnNum - 1, onlineUserConnNum + 1}
          /\ gauge' \in {gauge, gauge - 1, gauge + 1}
      <4>1. CASE LoopDeleteStore
          BY <4>1, Zenon DEF LoopDeleteStore
      <4>2. CASE LoopSetStore
          BY <4>2, Zenon DEF LoopSetStore
      <4>3. CASE LoopUnStore
          BY <4>3, Zenon DEF LoopUnStore
      <4>4. CASE LoopOnline \/ LoopOffline
          BY <4>4 DEF LoopOnline, LoopOffline, countVars
      <4> QED BY <4>1, <4>2, <4>3, <4>4
    <3> QED BY <3>1, <3>2
  <2>2. status' \subseteq User \X Platform
    <3>1. status \subseteq User \X Platform
        BY DEF TInv, ConfOK
    <3>2. CASE LoopOnline \/ LoopOffline
      <4>1. New.user \in User /\ New.platform \in Platform
        <5>1. loop.pc # "idle"
            BY <3>2 DEF LoopOnline, LoopOffline
        <5> QED BY <5>1, NewType
      <4>2. status' \subseteq status \union {<<New.user, New.platform>>}
          BY <3>2 DEF LoopOnline, LoopOffline, SetUserOnlineStatus
      <4> QED BY <3>1, <4>1, <4>2
    <3>3. CASE LoopDeleteStore \/ LoopSetStore \/ LoopUnStore
        BY <3>1, <3>3 DEF LoopDeleteStore, LoopSetStore, LoopUnStore
    <3> QED BY <3>2, <3>3
  <2> QED BY <1>1, <1>2, <2>1, <2>2 DEF TInv, ConfOK, RemoteLogin
<1> QED BY <1>3, <1>5, <1>6, <1>7, <1>8 DEF TInv

\* The RPCs of the node.
LEMMA RpcTyped ==
    ASSUME TInv,
           \/ \E l \in RemoteLogin : MultiTerminalLoginCheck(l)
           \/ \E r \in KickRpc : Kicking(r)
           \/ \E r \in KickRpc, k \in KickTarget : KickUserOffline(r, k[1], k[2])
    PROVE  TInv'
<1>1. UNCHANGED <<conf, conn>> /\ Alloc' = Alloc /\ ChanCap' = ChanCap
  <2>1. UNCHANGED <<conf, conn>>
      BY DEF MultiTerminalLoginCheck, Kicking, KickLoad, KickStore, KickReturn, KickUserOffline,
             structVars
  <2> QED BY <2>1, SameAlloc DEF ChanCap
<1>2. /\ UNCHANGED structVars /\ UNCHANGED <<connVars, readVars>> /\ UNCHANGED loop
      /\ UNCHANGED <<countVars, status, kicked>>
    BY DEF MultiTerminalLoginCheck, Kicking, KickLoad, KickStore, KickReturn, KickUserOffline,
           structVars, connVars, readVars, countVars
<1>3. StructOK' /\ ConnOK' /\ LoopOK'
    BY <1>1, <1>2, FramesSame
<1>4. /\ rpc \in [KickRpc -> RpcState]
      /\ \A r \in KickRpc : /\ rpc[r].list \in Seq(Alloc) /\ rpc[r].buf \in Seq(Alloc)
                            /\ rpc[r].pc = "store" => rpc[r].list # <<>> /\ rpc[r].user \in User
    BY DEF TInv, RpcOK
<1>5. Seq(Alloc) \subseteq Seq(Client)
    BY SeqLarger DEF Alloc
<1>6. ASSUME NEW l \in RemoteLogin, MultiTerminalLoginCheck(l) PROVE TInv'
  <2>1. UNCHANGED call /\ UNCHANGED clients /\ UNCHANGED rpc /\ UNCHANGED registerChan
        /\ UNCHANGED unregisterChan /\ told' = told \union {l}
      BY <1>6 DEF MultiTerminalLoginCheck
  <2>2. ConfOK'
      BY <1>1, <1>2, <2>1 DEF TInv, ConfOK, countVars, RemoteLogin
  <2>3. /\ kickHandlerChan' \in Seq([oldClients : Seq(Alloc), newClient : AnyId])
        /\ Len(kickHandlerChan') <= ChanCap
    <3> DEFINE I == [oldClients : Seq(Alloc), newClient : AnyId]
               i == [oldClients |-> OfPlatform(clients[l.user], l.platform), newClient |-> l]
    <3>1. kickHandlerChan \in Seq(I) /\ Len(kickHandlerChan) <= ChanCap /\ ChanCap \in Nat
        BY SettingParts DEF TInv, ChanOK
    <3>2. l \in AnyId /\ l.user \in User
        BY SettingParts DEF TInv, AnyId
    <3>3. OfPlatform(clients[l.user], l.platform) \in Seq(Alloc)
        BY <3>2, OfPlatformSlice DEF TInv, MapOK
    <3>4. i \in I
        BY <3>2, <3>3
    <3>5. \/ UNCHANGED kickHandlerChan
          \/ Len(kickHandlerChan) < ChanCap /\ kickHandlerChan' = Append(kickHandlerChan, i)
        BY <1>6 DEF MultiTerminalLoginCheck
    <3> HIDE DEF I, i
    <3>6. kickHandlerChan' \in Seq(I) /\ Len(kickHandlerChan') <= ChanCap
        BY <3>1, <3>4, <3>5, AppendProperties
    <3> QED BY <3>6 DEF I
  <2>4. ChanOK'
      BY <1>1, <2>1, <2>3, Frames DEF ChanOK
  <2> QED BY <1>1, <1>3, <2>1, <2>2, <2>4, FramesSame DEF TInv
<1>7. ASSUME NEW r \in KickRpc, NEW n \in RpcState, rpc' = [rpc EXCEPT ![r] = n],
             n.list \in Seq(Alloc), n.buf \in Seq(Alloc),
             n.pc = "store" => n.list # <<>> /\ n.user \in User
      PROVE  RpcOK'
    BY <1>1, <1>4, <1>7 DEF RpcOK
<1>8. ASSUME NEW r \in KickRpc, NEW u \in User, NEW p \in Platform, KickUserOffline(r, u, p)
      PROVE  TInv'
  <2> DEFINE list == OfPlatform(clients[u], p)
             s == IF list = <<>> THEN "done" ELSE "next"
             f == Serving(list)
             n == [rpc[r] EXCEPT !.pc = s, !.list = list, !.found = f]
  <2>1. list \in Seq(Alloc)
      BY OfPlatformSlice DEF TInv, MapOK
  <2>2. s \in {"done", "next"} /\ f \in SUBSET Conn
    <3>1. \A i \in DOMAIN list : list[i] \in Alloc
        BY <2>1, ElementOfSeq, LenProperties
    <3>2. \A i \in DOMAIN list : conn[list[i]] \in Conn
        BY <3>1, AllocServes DEF TInv
    <3> QED BY <3>2 DEF Serving
  <2>3. rpc' = [rpc EXCEPT ![r] = n]
      BY <1>4, <1>8 DEF KickUserOffline, RpcState
  <2> HIDE DEF s, f, list
  <2>4. n \in RpcState /\ n.list = list /\ n.buf = rpc[r].buf /\ n.pc = s
      BY <1>4, <1>5, <2>1, <2>2 DEF RpcState
  <2> HIDE DEF n
  <2>5. RpcOK'
      BY <1>4, <1>7, <2>1, <2>2, <2>3, <2>4
  <2>6. UNCHANGED call /\ UNCHANGED clients /\ UNCHANGED chanVars /\ UNCHANGED told
      BY <1>8 DEF KickUserOffline
  <2> QED BY <1>1, <1>2, <1>3, <2>5, <2>6, FramesSame DEF TInv
<1>9. ASSUME NEW r \in KickRpc, KickLoad(r) PROVE TInv'
  <2> DEFINE o == Head(rpc[r].list)
             u == ConnUser[conn[o]]
             all == clients[u]
             w == Without(all, {conn[o]})
             some == all # <<>>
             n == [rpc[r] EXCEPT !.pc = "store", !.user = u, !.buf = w, !.existed = some]
  <2>1. rpc[r].list # <<>> /\ rpc[r].list \in Seq(Alloc)
      BY <1>4, <1>9 DEF KickLoad
  <2>2. o \in Alloc
      BY <2>1, Pop
  <2>3. u \in User /\ some \in BOOLEAN
      BY <2>2, AllocServes DEF TInv
  <2>4. all \in Seq(Alloc)
      BY <2>3 DEF TInv, MapOK
  <2>5. w \in Seq(Alloc)
      BY <2>4, WithoutSlice
  <2>6. rpc' = [rpc EXCEPT ![r] = n]
      BY <1>4, <1>9 DEF KickLoad, RpcState
  <2> HIDE DEF u, w, some
  <2>7. n \in RpcState /\ n.list = rpc[r].list /\ n.buf = w /\ n.pc = "store" /\ n.user = u
      BY <1>4, <1>5, <2>3, <2>5 DEF RpcState
  <2> HIDE DEF n
  <2>8. RpcOK'
      BY <1>7, <2>1, <2>3, <2>5, <2>6, <2>7
  <2>9. UNCHANGED call /\ UNCHANGED clients /\ UNCHANGED chanVars /\ UNCHANGED told
      BY <1>9 DEF KickLoad
  <2> QED BY <1>1, <1>2, <1>3, <2>8, <2>9, FramesSame DEF TInv
<1>10. ASSUME NEW r \in KickRpc, KickStore(r) PROVE TInv'
  <2> DEFINE o == Head(rpc[r].list)
             l == Tail(rpc[r].list)
             n == [rpc[r] EXCEPT !.pc = "next", !.list = l, !.buf = <<>>, !.user = NoConn,
                                 !.existed = FALSE]
  <2>1. /\ rpc[r].pc = "store" /\ rpc[r].list # <<>> /\ rpc[r].user \in User
        /\ rpc[r].list \in Seq(Alloc) /\ rpc[r].buf \in Seq(Alloc)
      BY <1>4, <1>10 DEF KickStore
  <2>2. o \in Alloc /\ l \in Seq(Alloc)
      BY <2>1, Pop
  <2>3. rpc' = [rpc EXCEPT ![r] = n]
      BY <1>4, <1>10 DEF KickStore, RpcState
  <2> HIDE DEF l
  <2>4. n \in RpcState /\ n.list = l /\ n.buf = <<>> /\ n.pc = "next"
      BY <1>4, <1>5, <2>2, IdleTyped DEF RpcState
  <2> HIDE DEF n
  <2>5. RpcOK'
      BY <1>7, <2>2, <2>3, <2>4, IdleTyped
  <2>6. CallOK'
    <3>1. Call("write", o) \in [step : CallStep, cl : Client \union {NoConn},
                                on : Conn \union {NoConn}]
          /\ Call("write", o).cl = o /\ r \in Thread
        BY <2>2 DEF Call, CallStep, Alloc, Thread
    <3>2. call' = [call EXCEPT ![r] = Call("write", o)]
        BY <1>10 DEF KickStore
    <3> QED BY <1>1, <2>2, <3>1, <3>2 DEF TInv, CallOK
  <2>7. MapOK'
    <3>1. \/ clients' = clients
          \/ clients' = [clients EXCEPT ![rpc[r].user] = rpc[r].buf]
        BY <1>10 DEF KickStore
    <3> QED BY <1>1, <2>1, <3>1 DEF TInv, MapOK
  <2>8. UNCHANGED chanVars /\ UNCHANGED told
      BY <1>10 DEF KickStore
  <2> QED BY <1>1, <1>2, <1>3, <2>5, <2>6, <2>7, <2>8, FramesSame DEF TInv
<1>11. ASSUME NEW r \in KickRpc, KickReturn(r) PROVE TInv'
  <2> DEFINE n == [rpc[r] EXCEPT !.pc = "done"]
  <2>1. rpc' = [rpc EXCEPT ![r] = n]
      BY <1>4, <1>11 DEF KickReturn, RpcState
  <2>2. n \in RpcState /\ n.list = rpc[r].list /\ n.buf = rpc[r].buf /\ n.pc = "done"
      BY <1>4 DEF RpcState
  <2> HIDE DEF n
  <2>3. RpcOK'
      BY <1>4, <1>7, <2>1, <2>2
  <2>4. UNCHANGED call /\ UNCHANGED clients /\ UNCHANGED chanVars /\ UNCHANGED told
      BY <1>11 DEF KickReturn
  <2> QED BY <1>1, <1>2, <1>3, <2>3, <2>4, FramesSame DEF TInv
<1>12. \A k \in KickTarget : k[1] \in User /\ k[2] \in Platform
    BY GatewayAssumption
<1> QED BY <1>6, <1>8, <1>9, <1>10, <1>11, <1>12 DEF Kicking

\* The type invariant, with what makes it inductive, holds initially.
LEMMA TInvInit == Init => TInv
<1> SUFFICES ASSUME Init PROVE TInv
    OBVIOUS
<1>1. \A S : <<>> \in Seq(S) /\ Len(<<>>) = 0
    BY EmptySeq
<1>2. ConfOK
    BY DEF Init, ConfOK
<1>3. ChanCap \in Nat
    BY <1>2, SettingParts
<1>4. StructOK /\ MapOK
    BY <1>1 DEF Init, StructOK, MapOK
<1>5. ConnOK
    BY DEF Init, ConnOK
<1>6. CallOK
    BY DEF Init, CallOK, NoCall, CallStep
<1>7. ChanOK
    BY <1>1, <1>3 DEF Init, ChanOK
<1>8. LoopOK
    BY IdleTyped DEF Init, LoopOK
<1>9. RpcOK
  <2>1. [pc |-> "idle", user |-> NoConn, list |-> <<>>, buf |-> <<>>, existed |-> FALSE,
         found |-> {}] \in RpcState
      BY <1>1 DEF RpcState
  <2> QED BY <1>1, <2>1 DEF Init, RpcOK
<1> QED BY <1>2, <1>4, <1>5, <1>6, <1>7, <1>8, <1>9 DEF TInv

\* The type invariant under every step of the node.
LEMMA TInvNext == TInv /\ [Next]_vars => TInv'
<1> SUFFICES ASSUME TInv, [Next]_vars PROVE TInv'
    OBVIOUS
<1>1. CASE UNCHANGED vars
  <2>1. /\ UNCHANGED <<conf, conn>> /\ UNCHANGED <<told, countVars, status, kicked>>
        /\ UNCHANGED structVars /\ UNCHANGED <<connVars, readVars>> /\ UNCHANGED call
        /\ UNCHANGED chanVars /\ UNCHANGED clients /\ UNCHANGED loop /\ UNCHANGED rpc
      BY <1>1 DEF vars, countVars, structVars, connVars, readVars, chanVars
  <2> QED BY <2>1, FramesSame DEF TInv
<1>2. CASE \E c \in Conn : Handling(c) \/ HangUp(c) \/ Reading(c)
    BY <1>2, HandlingTyped, ReadingTyped
<1>3. CASE \E t \in Thread : Closing(t)
    BY <1>3, ClosingTyped
<1>4. CASE Run
    BY <1>4, TakeTyped, LoadTyped, StoreTyped DEF Run
<1>5. CASE \/ \E l \in RemoteLogin : MultiTerminalLoginCheck(l)
           \/ \E r \in KickRpc : Kicking(r)
           \/ \E r \in KickRpc, k \in KickTarget : KickUserOffline(r, k[1], k[2])
    BY <1>5, RpcTyped
<1> QED BY <1>1, <1>2, <1>3, <1>4, <1>5 DEF Next

\* Every variable of the node keeps its type, for every number of connections, users and
\* goroutines: the channels never hold more than their capacity, and neither they nor the
\* user map (registerClient, UserMap.Set, delete, deleteClients) ever lead to a struct
\* that was not Reset.
THEOREM GatewayTypeCorrect == Spec => []TypeOK
<1>1. TInv => TypeOK
  <2> SUFFICES ASSUME TInv PROVE TypeOK
      OBVIOUS
  <2>1. Seq(Alloc) \subseteq Seq(Client)
      BY SeqLarger DEF Alloc
  <2>2. kickHandlerChan \in Seq([oldClients : Seq(Client), newClient : AnyId])
    <3>1. kickHandlerChan \in Seq([oldClients : Seq(Alloc), newClient : AnyId])
        BY DEF TInv, ChanOK
    <3>2. ASSUME NEW S, NEW T, S \subseteq T
          PROVE  [oldClients : S, newClient : AnyId] \subseteq [oldClients : T, newClient : AnyId]
        BY <3>2
    <3>3. [oldClients : Seq(Alloc), newClient : AnyId]
              \subseteq [oldClients : Seq(Client), newClient : AnyId]
        BY <2>1, <3>2
    <3> QED BY <3>1, <3>3, SeqLarger
  <2>3. \A q \in {registerChan, unregisterChan} : q \in Seq(Alloc) /\ Len(q) <= ChanCap
      BY DEF TInv, ChanOK
  <2>4. ConfOK /\ StructOK /\ ConnOK /\ CallOK /\ ChanOK /\ MapOK /\ LoopOK /\ RpcOK
      BY DEF TInv
  <2> QED BY <2>2, <2>3, <2>4 DEF TypeOK, ConfOK, StructOK, ConnOK, CallOK, CallStep, ChanOK,
             MapOK, LoopOK, LoopState, LoopStep, RpcOK, RpcState, Alloc
<1> QED BY <1>1, TInvInit, TInvNext, PTL DEF Spec
-----------------------------------------------------------------------------
(* Who holds a struct, and who is inside close.                            *)

Accepted == {"upgraded", "served"}

\* A socket exists from the upgrade on; a struct serves an accepted connection, whose
\* handler holds it, and a struct in the pool was allocated.
AcceptInv ==
    /\ \A c \in Conn : sock[c] # "none" <=> handler[c] \in Accepted
    /\ \A o \in Alloc :
          handler[conn[o]] \in Accepted /\ struct[conn[o]] = o /\ handler[o] \in Accepted
    /\ \A o \in Client : clientPool[o] > 0 => o \in Alloc

\* A goroutine calls close or KickOnlineMessage at its own place only: a reader when it
\* leaves, a KickUserOffline between two loads.
CallerInv ==
    /\ \A c \in Conn : call[c].step # "none" => reader[c] = "exit"
    /\ \A r \in KickRpc : rpc[r].pc = "store" => call[r].step = "none"

AInv == TInv /\ AcceptInv /\ CallerInv

\* Goroutines are of one kind.
LEMMA ThreadKinds ==
    /\ Conn \subseteq Thread /\ KickRpc \subseteq Thread /\ Loop \in Thread
    /\ Loop \notin Conn /\ Loop \notin KickRpc
    /\ \A c \in Conn, r \in KickRpc : c # r
BY GatewayAssumption DEF Thread

\* Steps of other actors than the handler of a connection, HangUp and close leave the
\* sockets and the structs as they are.
LEMMA AcceptFrame ==
    ASSUME AcceptInv, UNCHANGED <<conn, clientPool, handler, sock, struct>>
    PROVE  AcceptInv'
<1>1. Alloc' = Alloc
    BY SameAlloc
<1> QED BY <1>1 DEF AcceptInv

\* Sockets and structs under every step of the node.
LEMMA AcceptNext == ASSUME TInv, AcceptInv, Next PROVE AcceptInv'
<1>0. /\ conn \in [Client -> Conn \union {NoConn}] /\ clientPool \in [Client -> Nat]
      /\ handler \in [Conn -> {"new", "admitted", "refused", "upgraded", "served"}]
      /\ sock \in [Conn -> {"none", "open", "hung", "closed"}]
      /\ struct \in [Conn -> Client \union {NoConn}]
    BY DEF TInv, StructOK, ConnOK
<1>1. ASSUME NEW c \in Conn, WsAdmit(c) \/ WsRefuse(c) PROVE AcceptInv'
  <2>1. /\ handler[c] \notin Accepted
        /\ \E h \in {"refused", "admitted"} : handler' = [handler EXCEPT ![c] = h]
        /\ UNCHANGED <<conn, clientPool, sock, struct>>
      BY <1>1 DEF WsAdmit, WsRefuse, Accepted, structVars
  <2>2. \A d \in Conn : handler'[d] \in Accepted <=> handler[d] \in Accepted
      BY <1>0, <2>1 DEF Accepted
  <2>3. \A o \in Alloc : o \in Conn /\ conn[o] \in Conn
      BY <1>0 DEF Alloc, Client
  <2> QED BY <2>1, <2>2, <2>3, SameAlloc DEF AcceptInv
<1>2. ASSUME NEW c \in Conn, WsUpgrade(c) PROVE AcceptInv'
  <2>1. PICK o \in Client :
            /\ \/ o = c /\ UNCHANGED clientPool
               \/ clientPool[o] > 0 /\ clientPool' = [clientPool EXCEPT ![o] = @ - 1]
            /\ conn' = [conn EXCEPT ![o] = c]
            /\ struct' = [struct EXCEPT ![c] = o]
      BY <1>2 DEF WsUpgrade, ResetClient
  <2>2. /\ handler[c] = "admitted" /\ handler' = [handler EXCEPT ![c] = "upgraded"]
        /\ sock' = [sock EXCEPT ![c] = "open"]
      BY <1>2 DEF WsUpgrade
  <2>3. c # NoConn
      BY GatewayAssumption
  <2>4. \A x \in Client : x \in Alloc' <=> x \in Alloc \/ x = o
      BY <1>0, <2>1, <2>3 DEF Alloc
  <2>5. \A d \in Conn : sock'[d] # "none" <=> handler'[d] \in Accepted
      BY <1>0, <2>2 DEF AcceptInv, Accepted
  <2>6. \A x \in Alloc : conn[x] \in Conn /\ conn[x] # c /\ x \in Client
      BY <1>0, <2>2 DEF AcceptInv, Accepted, Alloc
  <2>7. \A d \in Conn : handler[d] \in Accepted => handler'[d] \in Accepted
      BY <1>0, <2>2 DEF Accepted
  <2>8. handler'[o] \in Accepted
      BY <1>0, <2>1, <2>2, <2>7 DEF AcceptInv, Accepted, Client
  <2>9. ASSUME NEW x \in Alloc'
        PROVE  handler'[conn'[x]] \in Accepted /\ struct'[conn'[x]] = x /\ handler'[x] \in Accepted
    <3>1. CASE x = o
      <4>1. conn'[x] = c
          BY <1>0, <2>1, <3>1
      <4> QED BY <1>0, <2>1, <2>2, <2>8, <3>1, <4>1 DEF Accepted
    <3>2. CASE x # o
      <4>1. x \in Alloc
          BY <2>4, <3>2 DEF Alloc
      <4>2. conn'[x] = conn[x] /\ conn[x] \in Conn /\ conn[x] # c /\ x \in Conn
          BY <1>0, <2>1, <2>6, <3>2, <4>1 DEF Client
      <4> QED BY <1>0, <2>1, <2>7, <4>1, <4>2 DEF AcceptInv
    <3> QED BY <3>1, <3>2
  <2>10. \A x \in Client : clientPool'[x] > 0 => x \in Alloc'
      BY <1>0, <2>1, <2>4 DEF AcceptInv
  <2> QED BY <2>5, <2>9, <2>10 DEF AcceptInv
<1>3. ASSUME NEW c \in Conn, WsRegister(c) PROVE AcceptInv'
  <2>1. /\ handler[c] = "upgraded" /\ handler' = [handler EXCEPT ![c] = "served"]
        /\ UNCHANGED <<conn, clientPool, sock, struct>>
      BY <1>3 DEF WsRegister, structVars
  <2>2. \A d \in Conn : handler'[d] \in Accepted <=> handler[d] \in Accepted
      BY <1>0, <2>1 DEF Accepted
  <2>3. \A o \in Alloc : o \in Conn /\ conn[o] \in Conn
      BY <1>0 DEF Alloc, Client
  <2> QED BY <2>1, <2>2, <2>3, SameAlloc DEF AcceptInv
<1>4. ASSUME NEW c \in Conn, HangUp(c) PROVE AcceptInv'
  <2>1. /\ sock[c] = "open" /\ sock' = [sock EXCEPT ![c] = "hung"]
        /\ UNCHANGED <<conn, clientPool, handler, struct>>
      BY <1>4 DEF HangUp, structVars
  <2>2. \A d \in Conn : sock'[d] # "none" <=> sock[d] # "none"
      BY <1>0, <2>1
  <2> QED BY <2>1, <2>2, SameAlloc DEF AcceptInv
<1>5. ASSUME NEW t \in Thread, ConnClose(t) PROVE AcceptInv'
  <2> DEFINE d == conn[call[t].cl]
  <2>1. /\ call[t].step = "shut" /\ sock' = [sock EXCEPT ![d] = "closed"]
        /\ UNCHANGED <<conn, clientPool, handler, struct>>
      BY <1>5 DEF ConnClose, structVars
  <2>2. call[t].cl \in Alloc
      BY <2>1 DEF TInv, CallOK
  <2>3. d \in Conn /\ sock[d] # "none"
      BY <1>0, <2>2 DEF AcceptInv, Alloc
  <2>4. \A e \in Conn : sock'[e] # "none" <=> sock[e] # "none"
      BY <1>0, <2>1, <2>3
  <2> QED BY <2>1, <2>4, SameAlloc DEF AcceptInv
<1>6. ASSUME LoopOffline PROVE AcceptInv'
  <2>1. /\ loop.pc = "offline" /\ clientPool' = [clientPool EXCEPT ![loop.cl] = @ + 1]
        /\ UNCHANGED <<conn, handler, sock, struct>>
      BY <1>6 DEF LoopOffline, connVars
  <2>2. loop.cl \in Alloc
      BY <2>1 DEF TInv, LoopOK
  <2>3. \A o \in Client : clientPool'[o] > 0 => o \in Alloc
      BY <1>0, <2>1, <2>2 DEF AcceptInv
  <2> QED BY <2>1, <2>3, SameAlloc DEF AcceptInv
<1>7. CASE \E c \in Conn : Reading(c)
  <2>1. UNCHANGED <<conn, clientPool, handler, sock, struct>>
      BY <1>7 DEF Reading, ReadCall, ReadError, ReadMessage, CheckClosed, HandleMessage,
                  structVars, connVars
  <2> QED BY <2>1, AcceptFrame
<1>8. CASE \E t \in Thread : KickWrite(t) \/ CloseCheck(t) \/ CloseLock(t) \/ UnRegister(t)
  <2>1. UNCHANGED <<conn, clientPool, handler, sock, struct>>
      BY <1>8 DEF KickWrite, CloseCheck, CloseLock, UnRegister, structVars, connVars
  <2> QED BY <2>1, AcceptFrame
<1>9. CASE Run /\ ~ LoopOffline
  <2>1. UNCHANGED <<conn, clientPool, handler, sock, struct>>
      BY <1>9 DEF Run, LoopRegister, LoopKickInfo, LoopDeleteLoad, LoopDeleteStore, LoopKick,
                  LoopTokens, LoopSetLoad, LoopSetStore, LoopOnline, LoopUnregister, LoopUnStore,
                  structVars, connVars
  <2> QED BY <2>1, AcceptFrame
<1>10. CASE \/ \E l \in RemoteLogin : MultiTerminalLoginCheck(l)
            \/ \E r \in KickRpc : Kicking(r)
            \/ \E r \in KickRpc, k \in KickTarget : KickUserOffline(r, k[1], k[2])
  <2>1. UNCHANGED <<conn, clientPool, handler, sock, struct>>
      BY <1>10 DEF MultiTerminalLoginCheck, Kicking, KickLoad, KickStore, KickReturn,
                   KickUserOffline, structVars, connVars
  <2> QED BY <2>1, AcceptFrame
<1> QED BY <1>1, <1>2, <1>3, <1>4, <1>5, <1>6, <1>7, <1>8, <1>9, <1>10
        DEF Next, Handling, Closing, Run

\* Each step changes the calls in one of five ways.
LEMMA CallEffects ==
    ASSUME TInv, Next
    PROVE  \/ UNCHANGED call
           \/ \E c \in Conn : /\ reader[c] # "exit" /\ reader' = [reader EXCEPT ![c] = "exit"]
                              /\ call' = [call EXCEPT ![c] = Call("check", struct[c])]
                              /\ UNCHANGED rpc
           \/ /\ call[Loop].step = "none" /\ UNCHANGED <<reader, rpc>>
              /\ call' = [call EXCEPT ![Loop] = Call("write", Head(loop.old))]
           \/ \E r \in KickRpc : /\ rpc[r].pc = "store" /\ UNCHANGED reader
                                 /\ \A s \in KickRpc : rpc'[s].pc = "store" => rpc[s].pc = "store"
                                 /\ rpc'[r].pc = "next"
                                 /\ call' = [call EXCEPT ![r] = Call("write", Head(rpc[r].list))]
           \/ \E t \in Thread : /\ call[t].step # "none" /\ UNCHANGED <<reader, rpc>>
                                /\ \E n : call' = [call EXCEPT ![t] = n]
<1>1. CASE \E c \in Conn : Handling(c) \/ HangUp(c)
  <2>1. UNCHANGED call
      BY <1>1 DEF Handling, WsAdmit, WsRefuse, WsUpgrade, WsRegister, HangUp
  <2> QED BY <2>1
<1>2. ASSUME NEW c \in Conn, Reading(c)
      PROVE  \/ UNCHANGED call
             \/ /\ reader[c] # "exit" /\ reader' = [reader EXCEPT ![c] = "exit"]
                /\ call' = [call EXCEPT ![c] = Call("check", struct[c])]
                /\ UNCHANGED rpc
    BY <1>2 DEF Reading, ReadCall, ReadError, ReadMessage, CheckClosed, HandleMessage, Leave
<1>3. ASSUME NEW t \in Thread, Closing(t)
      PROVE  /\ call[t].step # "none" /\ UNCHANGED <<reader, rpc>>
             /\ \E n : call' = [call EXCEPT ![t] = n]
  <2>1. call[t].step # "none" /\ UNCHANGED <<reader, rpc>>
      BY <1>3 DEF Closing, KickWrite, CloseCheck, CloseLock, ConnClose, UnRegister, readVars
  <2>2. \E n : call' = [call EXCEPT ![t] = n]
    <3>1. CASE KickWrite(t) \/ ConnClose(t)
      <4>1. \E k : call' = [call EXCEPT ![t] = [@ EXCEPT !.step = k]]
          BY <3>1 DEF KickWrite, ConnClose
      <4> QED BY <4>1
    <3>2. CASE CloseCheck(t)
      <4>1. call' = [call EXCEPT ![t] = IF closed[@.cl] THEN NoCall ELSE Call("lock", @.cl)]
          BY <3>2 DEF CloseCheck
      <4> QED BY <4>1
    <3>3. CASE CloseLock(t) \/ UnRegister(t)
        BY <3>3 DEF CloseLock, UnRegister
    <3> QED BY <1>3, <3>1, <3>2, <3>3 DEF Closing
  <2> QED BY <2>1, <2>2
<1>4. CASE Run
  <2>1. CASE LoopKick
      BY <2>1 DEF LoopKick, NoCall, readVars
  <2>2. CASE ~ LoopKick
    <3>1. UNCHANGED call
        BY <1>4, <2>2 DEF Run, LoopRegister, LoopKickInfo, LoopDeleteLoad, LoopDeleteStore,
                  LoopTokens, LoopSetLoad, LoopSetStore, LoopOnline, LoopUnregister, LoopUnStore,
                  LoopOffline
    <3> QED BY <3>1
  <2> QED BY <2>1, <2>2
<1>5. ASSUME NEW r \in KickRpc, KickStore(r)
      PROVE  /\ rpc[r].pc = "store" /\ UNCHANGED reader
             /\ \A s \in KickRpc : rpc'[s].pc = "store" => rpc[s].pc = "store"
             /\ rpc'[r].pc = "next"
             /\ call' = [call EXCEPT ![r] = Call("write", Head(rpc[r].list))]
  <2>1. /\ rpc[r].pc = "store" /\ UNCHANGED reader
        /\ call' = [call EXCEPT ![r] = Call("write", Head(rpc[r].list))]
      BY <1>5 DEF KickStore, readVars
  <2>2. PICK n : rpc' = [rpc EXCEPT ![r] = n] /\ n.pc = "next"
    <3> DEFINE n == [rpc[r] EXCEPT !.pc = "next", !.list = Tail(@), !.buf = <<>>,
                                   !.user = NoConn, !.existed = FALSE]
    <3>1. rpc \in [KickRpc -> RpcState]
        BY DEF TInv, RpcOK
    <3>2. rpc' = [rpc EXCEPT ![r] = n]
        BY <1>5, <3>1 DEF KickStore, RpcState
    <3>3. n.pc = "next"
        BY <3>1 DEF RpcState
    <3> QED BY <3>2, <3>3
  <2>3. rpc \in [KickRpc -> RpcState]
      BY DEF TInv, RpcOK
  <2>4. rpc'[r] = n /\ \A s \in KickRpc : s # r => rpc'[s] = rpc[s]
      BY <2>2, <2>3
  <2> QED BY <2>1, <2>2, <2>4
<1>6. CASE \/ \E l \in RemoteLogin : MultiTerminalLoginCheck(l)
           \/ \E r \in KickRpc : KickLoad(r) \/ KickReturn(r)
           \/ \E r \in KickRpc, k \in KickTarget : KickUserOffline(r, k[1], k[2])
  <2>1. UNCHANGED call
      BY <1>6 DEF MultiTerminalLoginCheck, KickLoad, KickReturn, KickUserOffline
  <2> QED BY <2>1
<1> QED BY <1>1, <1>2, <1>3, <1>4, <1>5, <1>6 DEF Next, Kicking

\* A reader that left does not come back, and a KickUserOffline loads a slice only when
\* its last call has returned.
LEMMA CallerEffects ==
    ASSUME TInv, Next
    PROVE  /\ \A c \in Conn : reader[c] = "exit" => reader'[c] = "exit"
           /\ \A r \in KickRpc : rpc'[r].pc = "store" => rpc[r].pc = "store" \/ call[r].step = "none"
<1>1. \A c \in Conn : reader[c] = "exit" => reader'[c] = "exit"
  <2>0. reader \in [Conn -> {"none", "start", "read", "request", "logout", "handleRequest",
                             "handleLogout", "exit"}]
        /\ \A c \in Conn : reader[c] # "none" => handler[c] = "served"
      BY DEF TInv, ConnOK
  <2>1. \/ UNCHANGED reader
        \/ \E c \in Conn : \E k : reader[c] # "exit" /\ reader' = [reader EXCEPT ![c] = k]
    <3>1. CASE \E c \in Conn : WsRegister(c)
        BY <2>0, <3>1 DEF WsRegister
    <3>2. ASSUME NEW c \in Conn, Reading(c)
          PROVE  \E k : reader[c] # "exit" /\ reader' = [reader EXCEPT ![c] = k]
        BY <3>2 DEF Reading, ReadCall, ReadError, ReadMessage, CheckClosed, HandleMessage, Leave
    <3>3. CASE ~ \E c \in Conn : WsRegister(c) \/ Reading(c)
      <4>1. CASE \E c \in Conn : Handling(c) \/ HangUp(c) \/ Reading(c)
          BY <3>3, <4>1 DEF Handling, WsAdmit, WsRefuse, WsUpgrade, HangUp, readVars
      <4>2. CASE \E t \in Thread : Closing(t)
          BY <4>2 DEF Closing, KickWrite, CloseCheck, CloseLock, ConnClose, UnRegister, readVars
      <4>3. CASE Run
          BY <4>3 DEF Run, LoopRegister, LoopKickInfo, LoopDeleteLoad, LoopDeleteStore, LoopKick,
                  LoopTokens, LoopSetLoad, LoopSetStore, LoopOnline, LoopUnregister, LoopUnStore,
                  LoopOffline, readVars
      <4>4. CASE \/ \E l \in RemoteLogin : MultiTerminalLoginCheck(l)
                 \/ \E r \in KickRpc : Kicking(r)
                 \/ \E r \in KickRpc, k \in KickTarget : KickUserOffline(r, k[1], k[2])
          BY <4>4 DEF MultiTerminalLoginCheck, Kicking, KickLoad, KickStore, KickReturn,
                      KickUserOffline, readVars
      <4> QED BY <4>1, <4>2, <4>3, <4>4 DEF Next
    <3> QED BY <3>1, <3>2, <3>3
  <2> QED BY <2>0, <2>1
<1>2. \A r \in KickRpc : rpc'[r].pc = "store" => rpc[r].pc = "store" \/ call[r].step = "none"
  <2>0. rpc \in [KickRpc -> RpcState]
      BY DEF TInv, RpcOK
  <2>1. \/ UNCHANGED rpc
        \/ \E r \in KickRpc : \E n :
               /\ rpc' = [rpc EXCEPT ![r] = n]
               /\ n.pc = "store" => call[r].step = "none"
    <3>1. CASE \E c \in Conn : Handling(c) \/ HangUp(c) \/ Reading(c)
      <4>1. CASE \E c \in Conn : Handling(c) \/ HangUp(c)
          BY <4>1 DEF Handling, WsAdmit, WsRefuse, WsUpgrade, WsRegister, HangUp
      <4>2. CASE \E c \in Conn : Reading(c)
          BY <4>2 DEF Reading, ReadCall, ReadError, ReadMessage, CheckClosed, HandleMessage
      <4> QED BY <3>1, <4>1, <4>2
    <3>2. CASE \E t \in Thread : Closing(t)
        BY <3>2 DEF Closing, KickWrite, CloseCheck, CloseLock, ConnClose, UnRegister
    <3>3. CASE Run
        BY <3>3 DEF Run, LoopRegister, LoopKickInfo, LoopDeleteLoad, LoopDeleteStore, LoopKick,
                LoopTokens, LoopSetLoad, LoopSetStore, LoopOnline, LoopUnregister, LoopUnStore,
                LoopOffline
    <3>4. CASE \E l \in RemoteLogin : MultiTerminalLoginCheck(l)
        BY <3>4 DEF MultiTerminalLoginCheck
    <3>5. ASSUME NEW r \in KickRpc, KickLoad(r)
          PROVE  \E n : rpc' = [rpc EXCEPT ![r] = n] /\ call[r].step = "none"
      <4>1. call[r].step = "none"
          BY <3>5 DEF KickLoad, NoCall
      <4>2. \E n : rpc' = [rpc EXCEPT ![r] = n]
          BY <3>5 DEF KickLoad
      <4> QED BY <4>1, <4>2
    <3>6. ASSUME NEW r \in KickRpc, KickStore(r) \/ KickReturn(r)
          PROVE  \E n : rpc' = [rpc EXCEPT ![r] = n] /\ n.pc # "store"
      <4>1. CASE KickStore(r)
        <5> DEFINE n == [rpc[r] EXCEPT !.pc = "next", !.list = Tail(@), !.buf = <<>>,
                                       !.user = NoConn, !.existed = FALSE]
        <5>1. rpc' = [rpc EXCEPT ![r] = n] /\ n.pc = "next"
            BY <2>0, <4>1 DEF KickStore, RpcState
        <5> HIDE DEF n
        <5> QED BY <5>1
      <4>2. CASE KickReturn(r)
        <5> DEFINE n == [rpc[r] EXCEPT !.pc = "done"]
        <5>1. rpc' = [rpc EXCEPT ![r] = n] /\ n.pc = "done"
            BY <2>0, <4>2 DEF KickReturn, RpcState
        <5> HIDE DEF n
        <5> QED BY <5>1
      <4> QED BY <3>6, <4>1, <4>2
    <3>7. ASSUME NEW r \in KickRpc, NEW u, NEW p, KickUserOffline(r, u, p)
          PROVE  \E n : rpc' = [rpc EXCEPT ![r] = n] /\ n.pc # "store"
      <4> DEFINE list == OfPlatform(clients[u], p)
                 s == IF list = <<>> THEN "done" ELSE "next"
                 f == Serving(list)
                 n == [rpc[r] EXCEPT !.pc = s, !.list = list, !.found = f]
      <4>1. s # "store"
          OBVIOUS
      <4>2. rpc' = [rpc EXCEPT ![r] = n]
          BY <2>0, <3>7 DEF KickUserOffline, RpcState
      <4> HIDE DEF s, f, list
      <4>3. n.pc = s
          BY <2>0 DEF RpcState
      <4> HIDE DEF n
      <4> QED BY <4>1, <4>2, <4>3
    <3> QED BY <3>1, <3>2, <3>3, <3>4, <3>5, <3>6, <3>7 DEF Next, Kicking
  <2> QED BY <2>0, <2>1
<1> QED BY <1>1, <1>2

\* Calls under every step of the node.
LEMMA CallerNext == ASSUME TInv, CallerInv, Next PROVE CallerInv'
<1>0. call \in [Thread -> [step : CallStep, cl : Client \union {NoConn},
                           on : Conn \union {NoConn}]]
      /\ reader \in [Conn -> {"none", "start", "read", "request", "logout", "handleRequest",
                              "handleLogout", "exit"}]
    BY DEF TInv, CallOK, ConnOK
<1>1. CASE UNCHANGED call
    BY <1>1, CallerEffects DEF CallerInv
<1>2. ASSUME NEW c \in Conn, reader[c] # "exit", reader' = [reader EXCEPT ![c] = "exit"],
             call' = [call EXCEPT ![c] = Call("check", struct[c])], UNCHANGED rpc
      PROVE  CallerInv'
  <2>1. \A d \in Conn : d # c => call'[d] = call[d] /\ reader'[d] = reader[d]
      BY <1>0, <1>2, ThreadKinds
  <2>2. reader'[c] = "exit"
      BY <1>0, <1>2
  <2>3. \A r \in KickRpc : call'[r] = call[r]
      BY <1>0, <1>2, ThreadKinds
  <2> QED BY <1>2, <2>1, <2>2, <2>3 DEF CallerInv
<1>3. CASE /\ UNCHANGED <<reader, rpc>>
           /\ call' = [call EXCEPT ![Loop] = Call("write", Head(loop.old))]
  <2>1. \A s \in Thread : s # Loop => call'[s] = call[s]
      BY <1>0, <1>3
  <2> QED BY <1>3, <2>1, ThreadKinds DEF CallerInv
<1>4. ASSUME NEW r \in KickRpc, UNCHANGED reader,
             \A s \in KickRpc : rpc'[s].pc = "store" => rpc[s].pc = "store",
             rpc'[r].pc = "next",
             call' = [call EXCEPT ![r] = Call("write", Head(rpc[r].list))]
      PROVE  CallerInv'
  <2>1. \A s \in Thread : s # r => call'[s] = call[s]
      BY <1>0, <1>4
  <2> QED BY <1>4, <2>1, ThreadKinds DEF CallerInv
<1>5. ASSUME NEW t \in Thread, call[t].step # "none", UNCHANGED <<reader, rpc>>,
             \E n : call' = [call EXCEPT ![t] = n]
      PROVE  CallerInv'
  <2>1. \A s \in Thread : s # t => call'[s] = call[s]
      BY <1>0, <1>5
  <2> QED BY <1>5, <2>1, ThreadKinds DEF CallerInv
<1> QED BY <1>1, <1>2, <1>3, <1>4, <1>5, CallEffects

\* Types, accepted connections and callers, for every reachable state.
LEMMA AInvInit == Init => AInv
<1> SUFFICES ASSUME Init PROVE AInv
    OBVIOUS
<1>1. AcceptInv
    BY DEF Init, AcceptInv, Accepted, Alloc, Client
<1>2. CallerInv
    BY ThreadKinds DEF Init, CallerInv, NoCall
<1> QED BY <1>1, <1>2, TInvInit DEF AInv

\* Every step of the node keeps them.
LEMMA AInvNext == AInv /\ [Next]_vars => AInv'
<1> SUFFICES ASSUME AInv, [Next]_vars PROVE AInv'
    OBVIOUS
<1>1. TInv'
    BY TInvNext DEF AInv
<1>2. CASE Next
    BY <1>1, <1>2, AcceptNext, CallerNext DEF AInv
<1>3. CASE UNCHANGED vars
  <2>1. UNCHANGED <<conn, clientPool, handler, sock, struct>> /\ UNCHANGED <<call, reader, rpc>>
      BY <1>3 DEF vars
  <2>2. CallerInv'
      BY <2>1 DEF AInv, CallerInv
  <2> QED BY <1>1, <2>1, <2>2, AcceptFrame DEF AInv
<1> QED BY <1>2, <1>3
-----------------------------------------------------------------------------
(* Counting connections.                                                   *)

Served == {c \in Conn : handler[c] = "served"}
Shut == {c \in Conn : sock[c] = "closed"}
Sending == {t \in Thread : call[t].step = "send"}

\* Is the event loop registering a connection it has not counted yet, or unregistering
\* one it has not counted off yet?
Registering ==
    IF loop.pc \in {"delete", "deleteStore", "kick", "set", "setStore"} /\ ~ loop.remote
    THEN 1 ELSE 0
Unregistering == IF loop.pc = "unStore" THEN 1 ELSE 0

\* How many unregistrations a node has had, or will have, too many.  A served connection
\* is counted on once, and a closed one counted off at least once; the difference is what
\* is still on its way.
Surplus ==
    (Cardinality(Served) + Cardinality(Sending) + Len(unregisterChan) + Unregistering)
    - (onlineUserConnNum + Len(registerChan) + Registering + Cardinality(Shut))

\* Finitely many connections are served, closed or being closed: one step adds one.
FiniteInv == IsFiniteSet(Served) /\ IsFiniteSet(Shut) /\ IsFiniteSet(Sending)

\* The terms of Surplus are numbers.
LEMMA CountTypes ==
    ASSUME TInv, FiniteInv
    PROVE  /\ Cardinality(Served) \in Nat /\ Cardinality(Shut) \in Nat
           /\ Cardinality(Sending) \in Nat /\ Len(unregisterChan) \in Nat
           /\ Len(registerChan) \in Nat /\ onlineUserConnNum \in Int
           /\ Registering \in Int /\ Unregistering \in Int /\ Surplus \in Int
<1>1. /\ Cardinality(Served) \in Nat /\ Cardinality(Shut) \in Nat
      /\ Cardinality(Sending) \in Nat
    BY FS_CardinalityType DEF FiniteInv
<1>2. Len(unregisterChan) \in Nat /\ Len(registerChan) \in Nat /\ onlineUserConnNum \in Int
    BY LenProperties DEF TInv, ChanOK, ConfOK
<1>3. Registering \in Int /\ Unregistering \in Int
    BY DEF Registering, Unregistering
<1>4. Surplus \in Int
    BY <1>1, <1>2, <1>3 DEF Surplus
<1> QED BY <1>1, <1>2, <1>3, <1>4

\* A goroutine's call changes: is one goroutine more, or less, sending?
LEMMA SendingEffect ==
    ASSUME TInv, NEW t \in Thread, NEW n, call' = [call EXCEPT ![t] = n]
    PROVE  /\ (n.step = "send" <=> call[t].step = "send") => Sending' = Sending
           /\ n.step = "send" => Sending' = Sending \union {t}
           /\ n.step # "send" => Sending' = Sending \ {t}
<1>1. /\ call'[t] = n
      /\ \A s \in Thread : s # t => call'[s] = call[s]
    BY DEF TInv, CallOK
<1> QED BY <1>1 DEF Sending

\* What the steps that move nothing between the terms of Surplus leave alone.
LEMMA StillCounts ==
    ASSUME Served' = Served, Shut' = Shut, Sending' = Sending, FiniteInv,
           Registering' = Registering, Unregistering' = Unregistering,
           UNCHANGED <<registerChan, unregisterChan, onlineUserConnNum>>
    PROVE  FiniteInv' /\ Surplus' = Surplus
BY DEF FiniteInv, Surplus

\* The sets of Surplus follow their variables.
LEMMA SameSets ==
    /\ UNCHANGED handler => Served' = Served
    /\ UNCHANGED sock => Shut' = Shut
    /\ UNCHANGED call => Sending' = Sending
    /\ UNCHANGED loop => Registering' = Registering /\ Unregistering' = Unregistering
BY DEF Served, Shut, Sending, Registering, Unregistering

\* The handler of a connection: the hand-over to the event loop counts it as served and
\* as on its way to the event loop.
LEMMA HandlingCounts ==
    ASSUME AInv, FiniteInv, NEW c \in Conn, Handling(c) \/ HangUp(c)
    PROVE  FiniteInv' /\ Surplus' = Surplus
<1>0. /\ TInv
      /\ handler \in [Conn -> {"new", "admitted", "refused", "upgraded", "served"}]
      /\ sock \in [Conn -> {"none", "open", "hung", "closed"}]
    BY DEF AInv, TInv, ConnOK
<1>1. UNCHANGED <<call, loop, unregisterChan, onlineUserConnNum>>
    BY DEF Handling, WsAdmit, WsRefuse, WsUpgrade, WsRegister, HangUp, chanVars, countVars
<1>2. CASE ~ WsRegister(c)
  <2>1. UNCHANGED registerChan
      BY <1>2 DEF Handling, WsAdmit, WsRefuse, WsUpgrade, HangUp, chanVars
  <2>2. Served' = Served
    <3>1. \/ UNCHANGED handler
          \/ /\ handler[c] # "served"
             /\ \E h \in {"refused", "admitted", "upgraded"} : handler' = [handler EXCEPT ![c] = h]
        BY <1>2 DEF Handling, WsAdmit, WsRefuse, WsUpgrade, HangUp
    <3> QED BY <1>0, <3>1 DEF Served
  <2>3. Shut' = Shut
    <3>1. CASE WsUpgrade(c)
      <4>1. handler[c] = "admitted" /\ sock' = [sock EXCEPT ![c] = "open"]
          BY <3>1 DEF WsUpgrade
      <4>2. sock[c] = "none"
          BY <4>1 DEF AInv, AcceptInv, Accepted
      <4> QED BY <1>0, <4>1, <4>2 DEF Shut
    <3>2. CASE HangUp(c)
        BY <1>0, <3>2 DEF HangUp, Shut
    <3>3. CASE WsAdmit(c) \/ WsRefuse(c)
        BY <3>3 DEF WsAdmit, WsRefuse, Shut
    <3> QED BY <1>2, <3>1, <3>2, <3>3 DEF Handling
  <2> QED BY <1>1, <2>1, <2>2, <2>3, SameSets, StillCounts
<1>3. CASE WsRegister(c)
  <2>1. /\ handler[c] = "upgraded" /\ handler' = [handler EXCEPT ![c] = "served"]
        /\ registerChan' = Append(registerChan, struct[c]) /\ UNCHANGED sock
      BY <1>3 DEF WsRegister
  <2>2. Served' = Served \union {c} /\ c \notin Served
      BY <1>0, <2>1 DEF Served
  <2>3. IsFiniteSet(Served') /\ Cardinality(Served') = Cardinality(Served) + 1
      BY <2>2, FS_AddElement DEF FiniteInv
  <2>4. struct[c] \in Alloc /\ registerChan \in Seq(Alloc)
      BY <1>0, <2>1 DEF TInv, ConnOK, ChanOK
  <2>5. Len(registerChan') = Len(registerChan) + 1
      BY <2>1, <2>4, AppendProperties
  <2>6. /\ Shut' = Shut /\ Sending' = Sending /\ Registering' = Registering
        /\ Unregistering' = Unregistering
      BY <1>1, <2>1, SameSets
  <2>7. FiniteInv'
      BY <2>3, <2>6 DEF FiniteInv
  <2>8. /\ Cardinality(Served) \in Nat /\ Cardinality(Shut) \in Nat
        /\ Cardinality(Sending) \in Nat /\ Len(unregisterChan) \in Nat
        /\ Len(registerChan) \in Nat /\ onlineUserConnNum \in Int
        /\ Registering \in Int /\ Unregistering \in Int
      BY <1>0, CountTypes
  <2> QED BY <1>1, <2>3, <2>5, <2>6, <2>7, <2>8 DEF Surplus
<1> QED BY <1>2, <1>3

\* close counts a connection as closed and its goroutine as sending; UnRegister moves it
\* from the goroutine to the channel.  Only the close of a socket that is closed already
\* adds to the surplus.
LEMMA ClosingCounts ==
    ASSUME AInv, FiniteInv, NEW t \in Thread, Closing(t)
    PROVE  /\ FiniteInv'
           /\ \/ Surplus' = Surplus
              \/ /\ ConnClose(t) /\ sock[conn[call[t].cl]] = "closed"
                 /\ Surplus' = Surplus + 1
<1>0. /\ TInv
      /\ call \in [Thread -> [step : CallStep, cl : Client \union {NoConn},
                              on : Conn \union {NoConn}]]
    BY DEF AInv, TInv, CallOK
<1>1. UNCHANGED <<handler, loop, registerChan, onlineUserConnNum>>
    BY DEF Closing, KickWrite, CloseCheck, CloseLock, ConnClose, UnRegister, connVars, chanVars, countVars
<1>2. Served' = Served /\ Registering' = Registering /\ Unregistering' = Unregistering
    BY <1>1, SameSets
<1>3. /\ Cardinality(Served) \in Nat /\ Cardinality(Shut) \in Nat
      /\ Cardinality(Sending) \in Nat /\ Len(unregisterChan) \in Nat
      /\ Len(registerChan) \in Nat /\ onlineUserConnNum \in Int
      /\ Registering \in Int /\ Unregistering \in Int
    BY <1>0, CountTypes
<1>4. CASE KickWrite(t) \/ CloseCheck(t) \/ CloseLock(t)
  <2>1. UNCHANGED <<sock, unregisterChan>>
      BY <1>4 DEF KickWrite, CloseCheck, CloseLock, connVars, chanVars
  <2>2. Sending' = Sending
    <3>1. CASE KickWrite(t)
      <4> DEFINE n == [call[t] EXCEPT !.step = "check"]
      <4>1. call' = [call EXCEPT ![t] = n] /\ n.step = "check" /\ call[t].step = "write"
          BY <1>0, <3>1 DEF KickWrite
      <4> HIDE DEF n
      <4> QED BY <1>0, <4>1, SendingEffect
    <3>2. CASE CloseCheck(t)
      <4>1. call[t].step = "check"
            /\ \E n \in {NoCall, Call("lock", call[t].cl)} : call' = [call EXCEPT ![t] = n]
          BY <1>0, <3>2 DEF CloseCheck
      <4>2. NoCall.step = "none" /\ Call("lock", call[t].cl).step = "lock"
          BY DEF NoCall, Call
      <4> QED BY <1>0, <4>1, <4>2, SendingEffect
    <3>3. CASE CloseLock(t)
      <4> DEFINE n == [step |-> "shut", cl |-> call[t].cl, on |-> conn[call[t].cl]]
      <4>1. call' = [call EXCEPT ![t] = n] /\ n.step = "shut" /\ call[t].step = "lock"
          BY <3>3 DEF CloseLock
      <4> HIDE DEF n
      <4> QED BY <1>0, <4>1, SendingEffect
    <3> QED BY <1>4, <3>1, <3>2, <3>3
  <2> QED BY <1>1, <1>2, <2>1, <2>2, SameSets, StillCounts
<1>5. CASE ConnClose(t)
  <2> DEFINE d == conn[call[t].cl]
             n == [call[t] EXCEPT !.step = "send"]
  <2>1. /\ call[t].step = "shut" /\ sock' = [sock EXCEPT ![d] = "closed"]
        /\ call' = [call EXCEPT ![t] = n] /\ UNCHANGED unregisterChan
      BY <1>5 DEF ConnClose, chanVars
  <2>2. d \in Conn
      BY <1>0, <2>1 DEF TInv, CallOK, StructOK, Alloc
  <2>3. n.step = "send"
      BY <1>0
  <2> HIDE DEF n, d
  <2>4. Sending' = Sending \union {t} /\ t \notin Sending
    <3>1. Sending' = Sending \union {t}
        BY <1>0, <2>1, <2>3, SendingEffect
    <3> QED BY <2>1, <3>1 DEF Sending
  <2>5. IsFiniteSet(Sending') /\ Cardinality(Sending') = Cardinality(Sending) + 1
      BY <2>4, FS_AddElement DEF FiniteInv
  <2>6. Shut' = Shut \union {d}
    <3>1. sock \in [Conn -> {"none", "open", "hung", "closed"}]
        BY <1>0 DEF TInv, ConnOK
    <3> QED BY <2>1, <2>2, <3>1 DEF Shut
  <2>7. IsFiniteSet(Shut') /\ Cardinality(Shut') =
            IF d \in Shut THEN Cardinality(Shut) ELSE Cardinality(Shut) + 1
      BY <2>6, FS_AddElement DEF FiniteInv
  <2>8. d \in Shut <=> sock[d] = "closed"
      BY <2>2 DEF Shut
  <2>9. FiniteInv'
      BY <1>2, <2>5, <2>7 DEF FiniteInv
  <2>10. Surplus' = IF d \in Shut THEN Surplus + 1 ELSE Surplus
    <3>1. /\ Len(unregisterChan') = Len(unregisterChan) /\ Len(registerChan') = Len(registerChan)
          /\ onlineUserConnNum' = onlineUserConnNum /\ Registering' = Registering
          /\ Unregistering' = Unregistering /\ Cardinality(Served') = Cardinality(Served)
        BY <1>1, <1>2, <2>1
    <3> QED BY <2>5, <2>7, <3>1, <1>3 DEF Surplus
  <2> QED BY <1>5, <2>8, <2>9, <2>10 DEF d
<1>6. CASE UnRegister(t)
  <2>1. /\ call[t].step = "send" /\ call' = [call EXCEPT ![t] = NoCall] /\ UNCHANGED sock
        /\ unregisterChan' = Append(unregisterChan, call[t].cl)
      BY <1>6 DEF UnRegister, connVars
  <2>2. Sending' = Sending \ {t} /\ t \in Sending
    <3>1. NoCall.step # "send"
        BY DEF NoCall
    <3>2. Sending' = Sending \ {t}
        BY <1>0, <2>1, <3>1, SendingEffect
    <3> QED BY <2>1, <3>2 DEF Sending
  <2>3. IsFiniteSet(Sending') /\ Cardinality(Sending') = Cardinality(Sending) - 1
      BY <2>2, FS_RemoveElement DEF FiniteInv
  <2>4. unregisterChan \in Seq(Alloc) /\ call[t].cl \in Alloc
      BY <1>0, <2>1 DEF TInv, ChanOK, CallOK
  <2>5. Len(unregisterChan') = Len(unregisterChan) + 1
      BY <2>1, <2>4, AppendProperties
  <2>6. Shut' = Shut
      BY <2>1, SameSets
  <2>7. FiniteInv'
      BY <1>2, <2>3, <2>6 DEF FiniteInv
  <2>8. Surplus' = Surplus
    <3>1. /\ Cardinality(Shut') = Cardinality(Shut) /\ Len(registerChan') = Len(registerChan)
          /\ onlineUserConnNum' = onlineUserConnNum /\ Registering' = Registering
          /\ Unregistering' = Unregistering /\ Cardinality(Served') = Cardinality(Served)
        BY <1>1, <1>2, <2>6
    <3> QED BY <2>3, <2>5, <3>1, <1>3 DEF Surplus
  <2> QED BY <2>7, <2>8
<1> QED BY <1>4, <1>5, <1>6 DEF Closing

\* The event loop moves a connection between the channels and the counter.
LEMMA RunCounts ==
    ASSUME AInv, FiniteInv, Run
    PROVE  FiniteInv' /\ Surplus' = Surplus
<1>0. /\ TInv
      /\ loop \in LoopState
      /\ loop.remote => loop.pc \in {"delete", "deleteStore", "kick"}
    BY DEF AInv, TInv, LoopOK
<1>1. UNCHANGED <<handler, sock>>
    BY DEF Run, LoopRegister, LoopKickInfo, LoopDeleteLoad, LoopDeleteStore, LoopKick,
           LoopTokens, LoopSetLoad, LoopSetStore, LoopOnline, LoopUnregister, LoopUnStore,
           LoopOffline, connVars
<1>2. Served' = Served /\ Shut' = Shut
    BY <1>1, SameSets
<1>3. Sending' = Sending
  <2>1. CASE LoopKick
    <3> DEFINE n == Call("write", Head(loop.old))
    <3>1. call[Loop].step = "none" /\ call' = [call EXCEPT ![Loop] = n] /\ n.step = "write"
        BY <2>1 DEF LoopKick, NoCall, Call
    <3> HIDE DEF n
    <3> QED BY <1>0, <3>1, SendingEffect, ThreadKinds
  <2>2. CASE ~ LoopKick
    <3>1. UNCHANGED call
        BY <2>2 DEF Run, LoopRegister, LoopKickInfo, LoopDeleteLoad, LoopDeleteStore,
                LoopTokens, LoopSetLoad, LoopSetStore, LoopOnline, LoopUnregister, LoopUnStore,
                LoopOffline
    <3> QED BY <3>1, SameSets
  <2> QED BY <2>1, <2>2
<1>4. FiniteInv' /\ Cardinality(Served') = Cardinality(Served)
      /\ Cardinality(Shut') = Cardinality(Shut) /\ Cardinality(Sending') = Cardinality(Sending)
    BY <1>2, <1>3 DEF FiniteInv
<1>5. /\ Cardinality(Served) \in Nat /\ Cardinality(Shut) \in Nat
      /\ Cardinality(Sending) \in Nat /\ Len(unregisterChan) \in Nat
      /\ Len(registerChan) \in Nat /\ onlineUserConnNum \in Int
      /\ Registering \in Int /\ Unregistering \in Int
    BY <1>0, CountTypes
<1>6. CASE LoopRegister
  <2>1. /\ registerChan # <<>> /\ registerChan' = Tail(registerChan) /\ loop.pc = "idle"
        /\ UNCHANGED <<unregisterChan, onlineUserConnNum>>
      BY <1>6 DEF LoopRegister, countVars
  <2>2. Len(registerChan') = Len(registerChan) - 1
    <3>1. registerChan \in Seq(Alloc)
        BY <1>0 DEF TInv, ChanOK
    <3> QED BY <2>1, <3>1, Pop
  <2>3. loop'.pc \in {"delete", "set"} /\ ~ loop'.remote
      BY <1>6 DEF LoopRegister, Idle
  <2>4. /\ Registering = 0 /\ Registering' = 1 /\ Unregistering = 0 /\ Unregistering' = 0
      BY <2>1, <2>3 DEF Registering, Unregistering
  <2> QED BY <1>4, <1>5, <2>1, <2>2, <2>4 DEF Surplus
<1>7. CASE LoopUnregister
  <2>1. /\ unregisterChan # <<>> /\ unregisterChan' = Tail(unregisterChan) /\ loop.pc = "idle"
        /\ UNCHANGED <<registerChan, onlineUserConnNum>>
      BY <1>7 DEF LoopUnregister, countVars
  <2>2. Len(unregisterChan') = Len(unregisterChan) - 1
    <3>1. unregisterChan \in Seq(Alloc)
        BY <1>0 DEF TInv, ChanOK
    <3> QED BY <2>1, <3>1, Pop
  <2>3. loop'.pc = "unStore"
      BY <1>7 DEF LoopUnregister, Idle
  <2>4. /\ Registering = 0 /\ Registering' = 0 /\ Unregistering = 0 /\ Unregistering' = 1
      BY <2>1, <2>3 DEF Registering, Unregistering
  <2> QED BY <1>4, <1>5, <2>1, <2>2, <2>4 DEF Surplus
<1>8. CASE LoopSetStore
  <2>1. /\ loop.pc = "setStore" /\ onlineUserConnNum' = onlineUserConnNum + 1
        /\ UNCHANGED <<registerChan, unregisterChan>>
      BY <1>8 DEF LoopSetStore, chanVars
  <2>2. loop'.pc = "online" /\ ~ loop.remote
      BY <1>0, <1>8 DEF LoopSetStore, LoopState
  <2>3. /\ Registering = 1 /\ Registering' = 0 /\ Unregistering = 0 /\ Unregistering' = 0
      BY <2>1, <2>2 DEF Registering, Unregistering
  <2> QED BY <1>4, <1>5, <2>1, <2>3 DEF Surplus
<1>9. CASE LoopUnStore
  <2>1. /\ loop.pc = "unStore" /\ onlineUserConnNum' = onlineUserConnNum - 1
        /\ UNCHANGED <<registerChan, unregisterChan>>
      BY <1>9 DEF LoopUnStore, chanVars
  <2>2. loop'.pc = "offline"
      BY <1>0, <1>9 DEF LoopUnStore, LoopState
  <2>3. /\ Registering = 0 /\ Registering' = 0 /\ Unregistering = 1 /\ Unregistering' = 0
      BY <2>1, <2>2 DEF Registering, Unregistering
  <2> QED BY <1>4, <1>5, <2>1, <2>3 DEF Surplus
<1>10. CASE \/ LoopKickInfo \/ LoopDeleteLoad \/ LoopDeleteStore \/ LoopKick \/ LoopTokens
            \/ LoopSetLoad \/ LoopOnline \/ LoopOffline
  <2>1. UNCHANGED <<registerChan, unregisterChan, onlineUserConnNum>>
      BY <1>10 DEF LoopKickInfo, LoopDeleteLoad, LoopDeleteStore, LoopKick, LoopTokens,
                   LoopSetLoad, LoopOnline, LoopOffline, chanVars, countVars
  <2>2. Registering' = Registering /\ Unregistering' = Unregistering
    <3>1. CASE LoopKickInfo
      <4>1. loop.pc = "idle" /\ (loop'.remote \/ loop'.pc = "idle") /\ loop'.pc \in {"idle", "delete"}
          BY <3>1 DEF LoopKickInfo, Idle
      <4> QED BY <4>1 DEF Registering, Unregistering
    <3>2. CASE LoopDeleteLoad
      <4>1. loop.pc = "delete" /\ loop'.pc = "deleteStore" /\ loop'.remote = loop.remote
          BY <1>0, <3>2 DEF LoopDeleteLoad, LoopState
      <4> QED BY <4>1 DEF Registering, Unregistering
    <3>3. CASE LoopDeleteStore
      <4>1. loop.pc = "deleteStore" /\ loop'.pc = "kick" /\ loop'.remote = loop.remote
          BY <1>0, <3>3 DEF LoopDeleteStore, LoopState
      <4> QED BY <4>1 DEF Registering, Unregistering
    <3>4. CASE LoopKick
      <4>1. loop.pc = "kick" /\ loop'.pc = "kick" /\ loop'.remote = loop.remote
          BY <1>0, <3>4 DEF LoopKick, LoopState
      <4> QED BY <4>1 DEF Registering, Unregistering
    <3>5. CASE LoopTokens
      <4>1. loop.pc = "kick" /\ IF loop.remote THEN loop'.pc = "idle"
                                ELSE loop'.pc = "set" /\ loop'.remote = loop.remote
          BY <1>0, <3>5 DEF LoopTokens, LoopState, Idle
      <4> QED BY <4>1 DEF Registering, Unregistering
    <3>6. CASE LoopSetLoad
      <4>1. loop.pc = "set" /\ loop'.pc = "setStore" /\ loop'.remote = loop.remote
          BY <1>0, <3>6 DEF LoopSetLoad, LoopState
      <4> QED BY <4>1 DEF Registering, Unregistering
    <3>7. CASE LoopOnline \/ LoopOffline
      <4>1. loop.pc \in {"online", "offline"} /\ loop' = Idle
          BY <3>7 DEF LoopOnline, LoopOffline
      <4>2. loop'.pc = "idle"
          BY <4>1, IdleTyped
      <4> QED BY <4>1, <4>2 DEF Registering, Unregistering
    <3> QED BY <1>10, <3>1, <3>2, <3>3, <3>4, <3>5, <3>6, <3>7
  <2> QED BY <1>2, <1>3, <2>1, <2>2, StillCounts
<1> QED BY <1>6, <1>7, <1>8, <1>9, <1>10 DEF Run

\* Readers and RPCs only start calls.
LEMMA OtherCounts ==
    ASSUME AInv, FiniteInv,
           \/ \E c \in Conn : Reading(c)
           \/ \E l \in RemoteLogin : MultiTerminalLoginCheck(l)
           \/ \E r \in KickRpc : Kicking(r)
           \/ \E r \in KickRpc, k \in KickTarget : KickUserOffline(r, k[1], k[2])
    PROVE  FiniteInv' /\ Surplus' = Surplus
<1>0. TInv /\ CallerInv
    BY DEF AInv
<1>1. UNCHANGED <<handler, sock, loop, registerChan, unregisterChan, onlineUserConnNum>>
    BY DEF Reading, ReadCall, ReadError, ReadMessage, CheckClosed, HandleMessage,
           MultiTerminalLoginCheck, Kicking, KickLoad, KickStore, KickReturn, KickUserOffline,
           connVars, chanVars, countVars
<1>2. Sending' = Sending
  <2>1. ASSUME NEW c \in Conn, Reading(c) PROVE Sending' = Sending
    <3> DEFINE n == Call("check", struct[c])
    <3>1. UNCHANGED call \/ (reader[c] # "exit" /\ call' = [call EXCEPT ![c] = n])
        BY <2>1 DEF Reading, ReadCall, ReadError, ReadMessage, CheckClosed, HandleMessage, Leave
    <3>2. n.step = "check"
        BY DEF Call
    <3> HIDE DEF n
    <3>3. CASE UNCHANGED call
        BY <3>3, SameSets
    <3>4. CASE reader[c] # "exit" /\ call' = [call EXCEPT ![c] = n]
      <4>1. call[c].step = "none"
          BY <1>0, <3>4 DEF CallerInv
      <4> QED BY <1>0, <3>2, <3>4, <4>1, SendingEffect, ThreadKinds
    <3> QED BY <3>1, <3>3, <3>4
  <2>2. ASSUME NEW r \in KickRpc, KickStore(r) PROVE Sending' = Sending
    <3> DEFINE n == Call("write", Head(rpc[r].list))
    <3>1. rpc[r].pc = "store" /\ call' = [call EXCEPT ![r] = n]
        BY <2>2 DEF KickStore
    <3>2. n.step = "write"
        BY DEF Call
    <3> HIDE DEF n
    <3>3. call[r].step = "none"
        BY <1>0, <3>1 DEF CallerInv
    <3> QED BY <1>0, <3>1, <3>2, <3>3, SendingEffect, ThreadKinds
  <2>3. CASE \/ \E l \in RemoteLogin : MultiTerminalLoginCheck(l)
             \/ \E r \in KickRpc : KickLoad(r) \/ KickReturn(r)
             \/ \E r \in KickRpc, k \in KickTarget : KickUserOffline(r, k[1], k[2])
    <3>1. UNCHANGED call
        BY <2>3 DEF MultiTerminalLoginCheck, KickLoad, KickReturn, KickUserOffline
    <3> QED BY <3>1, SameSets
  <2> QED BY <2>1, <2>2, <2>3 DEF Kicking
<1> QED BY <1>1, <1>2, SameSets, StillCounts

\* Every step of the node keeps the surplus, but for a second close of a socket.
LEMMA SurplusNext ==
    ASSUME AInv, FiniteInv, [Next]_vars
    PROVE  /\ FiniteInv'
           /\ \/ Surplus' = Surplus
              \/ /\ Surplus' = Surplus + 1
                 /\ \E t \in Thread : ConnClose(t) /\ sock[conn[call[t].cl]] = "closed"
<1>1. CASE UNCHANGED vars
  <2>1. UNCHANGED <<handler, sock, call, loop, registerChan, unregisterChan, onlineUserConnNum>>
      BY <1>1 DEF vars
  <2> QED BY <2>1, SameSets, StillCounts
<1>2. CASE \E c \in Conn : Handling(c) \/ HangUp(c)
    BY <1>2, HandlingCounts
<1>3. CASE \E t \in Thread : Closing(t)
    BY <1>3, ClosingCounts
<1>4. CASE Run
    BY <1>4, RunCounts
<1>5. CASE \/ \E c \in Conn : Reading(c)
           \/ \E l \in RemoteLogin : MultiTerminalLoginCheck(l)
           \/ \E r \in KickRpc : Kicking(r)
           \/ \E r \in KickRpc, k \in KickTarget : KickUserOffline(r, k[1], k[2])
    BY <1>5, OtherCounts
<1> QED BY <1>1, <1>2, <1>3, <1>4, <1>5 DEF Next

\* A node that starts has counted nothing.
LEMMA SurplusInit == Init => FiniteInv /\ Surplus = 0
<1> SUFFICES ASSUME Init PROVE FiniteInv /\ Surplus = 0
    OBVIOUS
<1>1. Served = {} /\ Shut = {}
    BY DEF Init, Served, Shut
<1>2. Sending = {}
    BY DEF Init, Sending, NoCall
<1>3. Registering = 0 /\ Unregistering = 0
    BY DEF Init, Registering, Unregistering, Idle
<1>4. Len(registerChan) = 0 /\ Len(unregisterChan) = 0 /\ onlineUserConnNum = 0
    BY EmptySeq DEF Init
<1> QED BY <1>1, <1>2, <1>3, <1>4, FS_EmptySet DEF FiniteInv, Surplus

\* On a quiet node what is served and not closed is what is up.
LEMMA QuietCounts ==
    ASSUME AInv, FiniteInv, Quiet
    PROVE  IsFiniteSet(Up) /\ Cardinality(Up) \in Nat
           /\ Surplus = Cardinality(Up) - onlineUserConnNum
<1>0. TInv /\ AcceptInv
    BY DEF AInv
<1>1. Sending = {}
    BY DEF Quiet, Sending, NoCall
<1>2. Registering = 0 /\ Unregistering = 0
    BY DEF Quiet, Registering, Unregistering
<1>3. Len(registerChan) = 0 /\ Len(unregisterChan) = 0
    BY EmptySeq DEF Quiet
<1>4. Served = Up \union Shut /\ Up \intersect Shut = {} /\ Up \subseteq Served
  <2>1. \A c \in Conn : handler[c] = "served" <=> sock[c] # "none"
      BY <1>0 DEF Quiet, AcceptInv, Accepted, TInv, ConnOK
  <2>2. \A c \in Conn : sock[c] # "none" <=> sock[c] \in {"open", "hung"} \/ sock[c] = "closed"
      BY <1>0 DEF TInv, ConnOK
  <2>3. \A c \in Conn : ~ (sock[c] \in {"open", "hung"} /\ sock[c] = "closed")
      OBVIOUS
  <2> QED BY <2>1, <2>2, <2>3 DEF Served, Up, Shut
<1>5. IsFiniteSet(Up)
    BY <1>4, FS_Subset DEF FiniteInv
<1>6. Cardinality(Served) = Cardinality(Up) + Cardinality(Shut) - Cardinality(Up \intersect Shut)
    BY <1>4, <1>5, FS_Union DEF FiniteInv
<1>7. Cardinality(Up \intersect Shut) = 0 /\ Cardinality(Sending) = 0
    BY <1>1, <1>4, FS_EmptySet
<1>8. Cardinality(Up) \in Nat /\ Cardinality(Shut) \in Nat /\ onlineUserConnNum \in Int
    BY <1>0, <1>5, FS_CardinalityType, CountTypes
<1> QED BY <1>2, <1>3, <1>5, <1>6, <1>7, <1>8 DEF Surplus

\* However logins, kicks, hang-ups and the pool interleave, and for every policy, the
\* counter that wsHandler compares with wsMaxConnNum (onlineUserConnNum) never says more
\* than the connections that are open, once the node is quiet.
THEOREM ConnNumBoundHolds == Spec => []ConnNumBound
<1> DEFINE BInv == AInv /\ FiniteInv /\ Surplus >= 0
<1>1. Init => BInv
    BY AInvInit, SurplusInit
<1>2. BInv /\ [Next]_vars => BInv'
  <2> SUFFICES ASSUME BInv, [Next]_vars PROVE BInv'
      OBVIOUS
  <2>1. AInv'
      BY AInvNext
  <2>2. FiniteInv' /\ (Surplus' = Surplus \/ Surplus' = Surplus + 1)
      BY SurplusNext
  <2>3. Surplus \in Int
      BY CountTypes DEF AInv
  <2> QED BY <2>1, <2>2, <2>3
<1>3. BInv => ConnNumBound
  <2> SUFFICES ASSUME BInv, Quiet PROVE onlineUserConnNum <= Cardinality(Up)
      BY DEF ConnNumBound
  <2>1. Cardinality(Up) \in Nat /\ Surplus = Cardinality(Up) - onlineUserConnNum
      BY QuietCounts
  <2>2. onlineUserConnNum \in Int
      BY CountTypes DEF AInv
  <2> QED BY <2>1, <2>2
<1> HIDE DEF BInv
<1> QED BY <1>1, <1>2, <1>3, PTL DEF Spec
-----------------------------------------------------------------------------
(* Kicks, when the pool hands no struct on.                                *)

\* A closed socket stays closed.
LEMMA ShutStays ==
    ASSUME AInv, [Next]_vars, NEW c \in Conn, sock[c] = "closed"
    PROVE  sock'[c] = "closed"
<1>0. /\ sock \in [Conn -> {"none", "open", "hung", "closed"}]
      /\ \A d \in Conn : sock[d] # "none" <=> handler[d] \in Accepted
    BY DEF AInv, TInv, ConnOK, AcceptInv
<1>1. ASSUME NEW d \in Conn, WsUpgrade(d) PROVE sock'[c] = "closed"
  <2>1. handler[d] = "admitted" /\ sock' = [sock EXCEPT ![d] = "open"]
      BY <1>1 DEF WsUpgrade
  <2>2. d # c
      BY <1>0, <2>1 DEF Accepted
  <2> QED BY <1>0, <2>1, <2>2
<1>2. ASSUME NEW d \in Conn, HangUp(d) PROVE sock'[c] = "closed"
    BY <1>0, <1>2 DEF HangUp
<1>3. ASSUME NEW t \in Thread, ConnClose(t) PROVE sock'[c] = "closed"
    BY <1>0, <1>3 DEF ConnClose
<1>4. CASE \E d \in Conn : WsAdmit(d) \/ WsRefuse(d) \/ WsRegister(d)
    BY <1>4 DEF WsAdmit, WsRefuse, WsRegister
<1>5. CASE \E d \in Conn : Reading(d)
    BY <1>5 DEF Reading, ReadCall, ReadError, ReadMessage, CheckClosed, HandleMessage, connVars
<1>6. CASE \E t \in Thread : KickWrite(t) \/ CloseCheck(t) \/ CloseLock(t) \/ UnRegister(t)
    BY <1>6 DEF KickWrite, CloseCheck, CloseLock, UnRegister, connVars
<1>7. CASE Run
    BY <1>7 DEF Run, LoopRegister, LoopKickInfo, LoopDeleteLoad, LoopDeleteStore, LoopKick,
            LoopTokens, LoopSetLoad, LoopSetStore, LoopOnline, LoopUnregister, LoopUnStore,
            LoopOffline, connVars
<1>8. CASE \/ \E l \in RemoteLogin : MultiTerminalLoginCheck(l)
           \/ \E r \in KickRpc : Kicking(r)
           \/ \E r \in KickRpc, k \in KickTarget : KickUserOffline(r, k[1], k[2])
    BY <1>8 DEF MultiTerminalLoginCheck, Kicking, KickLoad, KickStore, KickReturn,
            KickUserOffline, connVars
<1>9. CASE UNCHANGED vars
    BY <1>9 DEF vars
<1> QED BY <1>1, <1>2, <1>3, <1>4, <1>5, <1>6, <1>7, <1>8, <1>9 DEF Next, Handling, Closing

\* The setting never changes.
LEMMA SameSetting == ASSUME [Next]_vars PROVE UNCHANGED conf
<1>1. CASE UNCHANGED vars
    BY <1>1 DEF vars
<1>2. CASE \E c \in Conn : Handling(c) \/ HangUp(c)
    BY <1>2 DEF Handling, WsAdmit, WsRefuse, WsUpgrade, WsRegister, HangUp
<1>3. CASE \E c \in Conn : Reading(c)
    BY <1>3 DEF Reading, ReadCall, ReadError, ReadMessage, CheckClosed, HandleMessage
<1>4. CASE \E t \in Thread : Closing(t)
    BY <1>4 DEF Closing, KickWrite, CloseCheck, CloseLock, ConnClose, UnRegister
<1>5. CASE Run
    BY <1>5 DEF Run, LoopRegister, LoopKickInfo, LoopDeleteLoad, LoopDeleteStore, LoopKick,
            LoopTokens, LoopSetLoad, LoopSetStore, LoopOnline, LoopUnregister, LoopUnStore,
            LoopOffline
<1>6. CASE \/ \E l \in RemoteLogin : MultiTerminalLoginCheck(l)
           \/ \E r \in KickRpc : Kicking(r)
           \/ \E r \in KickRpc, k \in KickTarget : KickUserOffline(r, k[1], k[2])
    BY <1>6 DEF MultiTerminalLoginCheck, Kicking, KickLoad, KickStore, KickReturn,
            KickUserOffline
<1> QED BY <1>1, <1>2, <1>3, <1>4, <1>5, <1>6 DEF Next

\* A goroutine has marked struct o closed and is about to close its socket.
Marked(o) == \E t \in Thread : call[t].step = "shut" /\ call[t].cl = o

\* A goroutine that has marked a struct closes the socket next.
LEMMA ShutStep ==
    ASSUME AInv, [Next]_vars, NEW t \in Thread, call[t].step = "shut"
    PROVE  ConnClose(t) \/ call'[t] = call[t]
<1>0. /\ call \in [Thread -> [step : CallStep, cl : Client \union {NoConn},
                              on : Conn \union {NoConn}]]
      /\ TInv /\ CallerInv
    BY DEF AInv, TInv, CallOK
<1>1. ASSUME NEW s \in Thread, Closing(s) PROVE ConnClose(t) \/ call'[t] = call[t]
  <2>1. CASE s = t
      BY <1>1, <2>1 DEF Closing, KickWrite, CloseCheck, CloseLock, UnRegister
  <2>2. CASE s # t
      BY <1>0, <1>1, <2>2 DEF Closing, KickWrite, CloseCheck, CloseLock, ConnClose, UnRegister
  <2> QED BY <2>1, <2>2
<1>2. CASE Next /\ ~ \E s \in Thread : Closing(s)
  <2>1. \/ UNCHANGED call
        \/ \E c \in Conn : /\ reader[c] # "exit"
                           /\ call' = [call EXCEPT ![c] = Call("check", struct[c])]
        \/ /\ call[Loop].step = "none"
           /\ call' = [call EXCEPT ![Loop] = Call("write", Head(loop.old))]
        \/ \E r \in KickRpc : /\ rpc[r].pc = "store"
                              /\ call' = [call EXCEPT ![r] = Call("write", Head(rpc[r].list))]
    <3>1. CASE \E c \in Conn : Handling(c) \/ HangUp(c)
        BY <3>1 DEF Handling, WsAdmit, WsRefuse, WsUpgrade, WsRegister, HangUp
    <3>2. CASE \E c \in Conn : Reading(c)
        BY <3>2 DEF Reading, ReadCall, ReadError, ReadMessage, CheckClosed, HandleMessage, Leave
    <3>3. CASE Run
      <4>1. CASE LoopKick
          BY <4>1 DEF LoopKick, NoCall
      <4>2. CASE ~ LoopKick
          BY <3>3, <4>2 DEF Run, LoopRegister, LoopKickInfo, LoopDeleteLoad, LoopDeleteStore,
                  LoopTokens, LoopSetLoad, LoopSetStore, LoopOnline, LoopUnregister, LoopUnStore,
                  LoopOffline
      <4> QED BY <4>1, <4>2
    <3>4. CASE \/ \E l \in RemoteLogin : MultiTerminalLoginCheck(l)
               \/ \E r \in KickRpc : Kicking(r)
               \/ \E r \in KickRpc, k \in KickTarget : KickUserOffline(r, k[1], k[2])
        BY <3>4 DEF MultiTerminalLoginCheck, Kicking, KickLoad, KickStore, KickReturn,
                KickUserOffline
    <3> QED BY <1>2, <3>1, <3>2, <3>3, <3>4 DEF Next
  <2>2. /\ \A c \in Conn : reader[c] # "exit" => t # c
        /\ \A r \in KickRpc : rpc[r].pc = "store" => t # r
        /\ call[Loop].step = "none" => t # Loop
      BY <1>0 DEF CallerInv
  <2> QED BY <1>0, <2>1, <2>2, ThreadKinds
<1>3. CASE UNCHANGED vars
    BY <1>3 DEF vars
<1> QED BY <1>1, <1>2, <1>3

\* A marked struct stays marked until the socket it serves is closed.
LEMMA MarkedStays ==
    ASSUME AInv, [Next]_vars, NEW o \in Alloc, Marked(o)
    PROVE  Marked(o)' \/ sock'[conn[o]] = "closed"
<1>1. PICK t \in Thread : call[t].step = "shut" /\ call[t].cl = o
    BY DEF Marked
<1>2. conn[o] \in Conn /\ sock \in [Conn -> {"none", "open", "hung", "closed"}]
    BY DEF AInv, TInv, StructOK, ConnOK, Alloc
<1>3. CASE ConnClose(t)
    BY <1>1, <1>2, <1>3 DEF ConnClose
<1>4. CASE call'[t] = call[t]
    BY <1>1, <1>4 DEF Marked
<1> QED BY <1>1, <1>3, <1>4, ShutStep

\* Without reuse a struct serves the connection it was allocated for, and is marked
\* closed only when that connection's socket is closed or about to be.
OwnInv ==
    ~ PoolReuse =>
        /\ \A o \in Alloc : conn[o] = o
        /\ \A o \in Client : closed[o] => sock[o] = "closed" \/ Marked(o)
        /\ \A t \in Thread : call[t].step = "shut" => call[t].on = call[t].cl

\* What is closed, or about to be, stays so.
LEMMA DownStays ==
    ASSUME AInv, OwnInv, ~ PoolReuse, [Next]_vars, NEW o \in Conn, sock[o] = "closed" \/ Marked(o)
    PROVE  sock'[o] = "closed" \/ Marked(o)'
<1>1. CASE sock[o] = "closed"
    BY <1>1, ShutStays
<1>2. CASE Marked(o)
  <2>1. o \in Alloc
      BY <1>2 DEF Marked, AInv, TInv, CallOK
  <2> QED BY <1>2, <2>1, MarkedStays DEF OwnInv
<1> QED BY <1>1, <1>2

\* Structs without reuse, under every step of the node.
LEMMA OwnNext == ASSUME AInv, OwnInv, [Next]_vars PROVE OwnInv'
<1>0. /\ UNCHANGED conf /\ PoolReuse' = PoolReuse
      /\ conn \in [Client -> Conn \union {NoConn}] /\ closed \in [Client -> BOOLEAN]
      /\ sock \in [Conn -> {"none", "open", "hung", "closed"}]
      /\ call \in [Thread -> [step : CallStep, cl : Client \union {NoConn},
                              on : Conn \union {NoConn}]]
    BY SameSetting DEF PoolReuse, AInv, TInv, StructOK, ConnOK, CallOK
<1> SUFFICES ASSUME ~ PoolReuse
             PROVE  /\ \A o \in Alloc' : conn'[o] = o
                    /\ \A o \in Client : closed'[o] => sock'[o] = "closed" \/ Marked(o)'
                    /\ \A t \in Thread : call'[t].step = "shut" => call'[t].on = call'[t].cl
    BY <1>0 DEF OwnInv
<1>1. /\ \A o \in Alloc : conn[o] = o
      /\ \A o \in Client : closed[o] => sock[o] = "closed" \/ Marked(o)
      /\ \A t \in Thread : call[t].step = "shut" => call[t].on = call[t].cl
    BY DEF OwnInv
<1>2. \A o \in Client : closed[o] => sock'[o] = "closed" \/ Marked(o)'
    BY <1>1, DownStays DEF Client
<1>3. ASSUME ~ \E t \in Thread : CloseLock(t)
      PROVE  /\ \A t \in Thread : call'[t].step = "shut" => call'[t].on = call'[t].cl
             /\ (\A o \in Client : closed'[o] => closed[o])
                    => \A o \in Client : closed'[o] => sock'[o] = "closed" \/ Marked(o)'
  <2>1. \A t \in Thread : call'[t].step = "shut" => call'[t] = call[t]
    <3>1. CASE UNCHANGED call
        BY <3>1
    <3>2. ASSUME NEW s \in Thread, NEW n, call' = [call EXCEPT ![s] = n], n.step # "shut"
          PROVE  \A t \in Thread : call'[t].step = "shut" => call'[t] = call[t]
        BY <1>0, <3>2
    <3>3. CASE \E s \in Thread : Closing(s)
      <4>1. PICK s \in Thread : Closing(s)
          BY <3>3
      <4>2. CASE KickWrite(s) \/ ConnClose(s)
        <5>1. PICK k \in {"check", "send"} : call' = [call EXCEPT ![s] = [@ EXCEPT !.step = k]]
            BY <4>2 DEF KickWrite, ConnClose
        <5> DEFINE n == [call[s] EXCEPT !.step = k]
        <5>2. n.step # "shut" /\ call' = [call EXCEPT ![s] = n]
            BY <1>0, <5>1
        <5> HIDE DEF n
        <5> QED BY <3>2, <5>2
      <4>3. CASE CloseCheck(s)
        <5> DEFINE n == IF closed[call[s].cl] THEN NoCall ELSE Call("lock", call[s].cl)
        <5>1. call' = [call EXCEPT ![s] = n] /\ n.step # "shut"
            BY <1>0, <4>3 DEF CloseCheck, NoCall, Call
        <5> HIDE DEF n
        <5> QED BY <3>2, <5>1
      <4>4. CASE UnRegister(s)
        <5>1. call' = [call EXCEPT ![s] = NoCall] /\ NoCall.step # "shut"
            BY <4>4 DEF UnRegister, NoCall
        <5> QED BY <3>2, <5>1
      <4> QED BY <1>3, <4>1, <4>2, <4>3, <4>4 DEF Closing
    <3>4. CASE Next /\ ~ \E s \in Thread : Closing(s)
      <4>1. \/ UNCHANGED call
            \/ \E s \in Thread : \E x : call' = [call EXCEPT ![s] = Call("check", x)]
            \/ \E s \in Thread : \E x : call' = [call EXCEPT ![s] = Call("write", x)]
        <5>1. CASE \E c \in Conn : Handling(c) \/ HangUp(c)
            BY <5>1 DEF Handling, WsAdmit, WsRefuse, WsUpgrade, WsRegister, HangUp
        <5>2. CASE \E c \in Conn : Reading(c)
            BY <5>2, ThreadKinds DEF Reading, ReadCall, ReadError, ReadMessage, CheckClosed,
                    HandleMessage, Leave
        <5>3. CASE Run
            BY <5>3, ThreadKinds DEF Run, LoopRegister, LoopKickInfo, LoopDeleteLoad,
                    LoopDeleteStore, LoopKick, LoopTokens, LoopSetLoad, LoopSetStore, LoopOnline,
                    LoopUnregister, LoopUnStore, LoopOffline
        <5>4. CASE \/ \E l \in RemoteLogin : MultiTerminalLoginCheck(l)
                   \/ \E r \in KickRpc : Kicking(r)
                   \/ \E r \in KickRpc, k \in KickTarget : KickUserOffline(r, k[1], k[2])
            BY <5>4, ThreadKinds DEF MultiTerminalLoginCheck, Kicking, KickLoad, KickStore,
                    KickReturn, KickUserOffline
        <5> QED BY <3>4, <5>1, <5>2, <5>3, <5>4 DEF Next
      <4>2. \A x : Call("check", x).step # "shut" /\ Call("write", x).step # "shut"
          BY DEF Call
      <4> QED BY <3>1, <3>2, <4>1, <4>2
    <3> QED BY <3>1, <3>3, <3>4 DEF vars
  <2> QED BY <1>1, <1>2, <2>1
<1>4. ASSUME NEW c \in Conn, WsUpgrade(c)
      PROVE  /\ \A o \in Alloc' : conn'[o] = o
             /\ \A o \in Client : closed'[o] => closed[o]
             /\ ~ \E t \in Thread : CloseLock(t)
  <2>1. conn' = [conn EXCEPT ![c] = c] /\ closed' = [closed EXCEPT ![c] = FALSE]
      BY <1>4 DEF WsUpgrade, ResetClient
  <2>2. c \in Client
      BY DEF Client
  <2>3. \A o \in Client : o # c => conn'[o] = conn[o] /\ closed'[o] = closed[o]
      BY <1>0, <2>1
  <2>4. conn'[c] = c /\ closed'[c] = FALSE
      BY <1>0, <2>1, <2>2
  <2>5. \A o \in Alloc' : o \in Client /\ (o = c \/ o \in Alloc)
      BY <2>3 DEF Alloc
  <2>6. \A o \in Alloc' : conn'[o] = o
      BY <1>1, <2>3, <2>4, <2>5
  <2>7. handler[c] = "admitted" /\ handler' = [handler EXCEPT ![c] = "upgraded"]
      BY <1>4 DEF WsUpgrade
  <2>8. handler' # handler
      BY <2>7 DEF AInv, TInv, ConnOK
  <2>9. ~ \E t \in Thread : CloseLock(t)
      BY <2>8 DEF CloseLock, connVars
  <2> QED BY <2>3, <2>4, <2>6, <2>9
<1>5. ASSUME NEW t \in Thread, CloseLock(t)
      PROVE  /\ \A o \in Alloc' : conn'[o] = o
             /\ \A o \in Client : closed'[o] => sock'[o] = "closed" \/ Marked(o)'
             /\ \A s \in Thread : call'[s].step = "shut" => call'[s].on = call'[s].cl
  <2> DEFINE x == call[t].cl
             n == [step |-> "shut", cl |-> x, on |-> conn[x]]
  <2>1. /\ call[t].step = "lock" /\ UNCHANGED conn
        /\ closed' = [closed EXCEPT ![x] = TRUE] /\ call' = [call EXCEPT ![t] = n]
      BY <1>5 DEF CloseLock
  <2>2. x \in Alloc
      BY <2>1 DEF AInv, TInv, CallOK
  <2>3. conn[x] = x /\ n.step = "shut" /\ n.cl = x /\ n.on = x
      BY <1>1, <2>2
  <2> HIDE DEF x, n
  <2>4. \A o \in Client : o # x => closed'[o] = closed[o]
      BY <1>0, <2>1
  <2>5. call'[t] = n /\ \A s \in Thread : s # t => call'[s] = call[s]
      BY <1>0, <2>1
  <2>6. \A o : o = x => Marked(o)'
      BY <2>3, <2>5 DEF Marked
  <2>7. \A o \in Client : closed'[o] => sock'[o] = "closed" \/ Marked(o)'
      BY <1>2, <2>4, <2>6
  <2>8. \A s \in Thread : call'[s].step = "shut" => call'[s].on = call'[s].cl
      BY <1>1, <2>3, <2>5
  <2> QED BY <1>1, <2>1, <2>7, <2>8, SameAlloc
<1>6. ASSUME ~ \E c \in Conn : WsUpgrade(c), ~ \E t \in Thread : CloseLock(t)
      PROVE  UNCHANGED <<conn, closed>>
  <2>1. CASE UNCHANGED vars
      BY <2>1 DEF vars
  <2>2. CASE \E c \in Conn : Handling(c) \/ HangUp(c)
      BY <1>6, <2>2 DEF Handling, WsAdmit, WsRefuse, WsRegister, HangUp, structVars
  <2>3. CASE \E c \in Conn : Reading(c)
      BY <2>3 DEF Reading, ReadCall, ReadError, ReadMessage, CheckClosed, HandleMessage,
                  structVars
  <2>4. CASE \E t \in Thread : Closing(t)
      BY <1>6, <2>4 DEF Closing, KickWrite, CloseCheck, ConnClose, UnRegister, structVars
  <2>5. CASE Run
      BY <2>5 DEF Run, LoopRegister, LoopKickInfo, LoopDeleteLoad, LoopDeleteStore, LoopKick,
              LoopTokens, LoopSetLoad, LoopSetStore, LoopOnline, LoopUnregister, LoopUnStore,
              LoopOffline, structVars
  <2>6. CASE \/ \E l \in RemoteLogin : MultiTerminalLoginCheck(l)
             \/ \E r \in KickRpc : Kicking(r)
             \/ \E r \in KickRpc, k \in KickTarget : KickUserOffline(r, k[1], k[2])
      BY <2>6 DEF MultiTerminalLoginCheck, Kicking, KickLoad, KickStore, KickReturn,
              KickUserOffline, structVars
  <2> QED BY <2>1, <2>2, <2>3, <2>4, <2>5, <2>6 DEF Next
<1>7. CASE \E c \in Conn : WsUpgrade(c)
    BY <1>3, <1>4, <1>7
<1>8. CASE (~ \E c \in Conn : WsUpgrade(c)) /\ (~ \E t \in Thread : CloseLock(t))
  <2>1. UNCHANGED <<conn, closed>>
      BY <1>6, <1>8
  <2> QED BY <1>1, <1>3, <1>8, <2>1, SameAlloc
<1> QED BY <1>5, <1>7, <1>8

\* Goroutine t is inside KickOnlineMessage or close of struct o and has not marked it.
Closes(t, o) == call[t].cl = o /\ call[t].step \in {"write", "check", "lock"}

\* A connection that a KickUserOffline found is closed or about to be, or still on the RPC's
\* list, or the one it is closing.
KickInv ==
    ~ PoolReuse => \A r \in KickRpc : \A c \in rpc[r].found :
        \/ sock[c] = "closed" \/ Marked(c)
        \/ /\ rpc[r].pc # "done"
           /\ (\E i \in DOMAIN rpc[r].list : rpc[r].list[i] = c) \/ Closes(r, c)

\* A step inside close on struct o: it goes on, or the socket of o is closed or about to be.
LEMMA ClosesNext ==
    ASSUME AInv, OwnInv, ~ PoolReuse, [Next]_vars, NEW t \in Thread, Closing(t),
           NEW o, Closes(t, o)
    PROVE  o \in Conn /\ (Closes(t, o)' \/ sock'[o] = "closed" \/ Marked(o)')
<1>0. /\ call \in [Thread -> [step : CallStep, cl : Client \union {NoConn},
                              on : Conn \union {NoConn}]]
      /\ call[t].step # "none" => call[t].cl \in Alloc
      /\ sock \in [Conn -> {"none", "open", "hung", "closed"}]
    BY DEF AInv, TInv, CallOK, ConnOK
<1>1. o \in Alloc /\ o \in Conn /\ conn[o] = o
    BY <1>0 DEF Closes, Alloc, Client, OwnInv
<1>2. CASE KickWrite(t)
  <2> DEFINE n == [call[t] EXCEPT !.step = "check"]
  <2>1. call' = [call EXCEPT ![t] = n] /\ n.step = "check" /\ n.cl = call[t].cl
      BY <1>0, <1>2 DEF KickWrite
  <2> HIDE DEF n
  <2>2. call'[t] = n
      BY <1>0, <2>1
  <2> QED BY <1>1, <2>1, <2>2 DEF Closes
<1>3. CASE CloseCheck(t)
  <2>1. call' = [call EXCEPT ![t] = IF closed[o] THEN NoCall ELSE Call("lock", o)]
        /\ UNCHANGED sock
      BY <1>0, <1>3 DEF CloseCheck, Closes, connVars
  <2>2. CASE closed[o]
      BY <1>1, <2>2, DownStays DEF OwnInv, Client
  <2>3. CASE ~ closed[o]
    <3>1. call'[t] = Call("lock", o)
        BY <1>0, <2>1, <2>3
    <3> QED BY <1>1, <3>1 DEF Closes, Call
  <2> QED BY <2>2, <2>3
<1>4. CASE CloseLock(t)
  <2> DEFINE n == [step |-> "shut", cl |-> o, on |-> conn[o]]
  <2>1. call' = [call EXCEPT ![t] = n] /\ n.step = "shut" /\ n.cl = o
      BY <1>4 DEF CloseLock, Closes
  <2> HIDE DEF n
  <2>2. call'[t] = n
      BY <1>0, <2>1
  <2> QED BY <1>1, <2>1, <2>2 DEF Marked
<1>5. CASE ConnClose(t) \/ UnRegister(t)
    BY <1>5 DEF ConnClose, UnRegister, Closes
<1> QED BY <1>2, <1>3, <1>4, <1>5 DEF Closing

\* KickUserOffline under every step of the node.
LEMMA KickNext == ASSUME AInv, OwnInv, KickInv, [Next]_vars PROVE KickInv'
<1>0. /\ PoolReuse' = PoolReuse /\ rpc \in [KickRpc -> RpcState]
      /\ call \in [Thread -> [step : CallStep, cl : Client \union {NoConn},
                              on : Conn \union {NoConn}]]
    BY SameSetting DEF PoolReuse, AInv, TInv, CallOK, RpcOK
<1> SUFFICES ASSUME ~ PoolReuse, NEW r \in KickRpc, NEW c \in rpc'[r].found
             PROVE  \/ sock'[c] = "closed" \/ Marked(c)'
                    \/ /\ rpc'[r].pc # "done"
                       /\ (\E i \in DOMAIN rpc'[r].list : rpc'[r].list[i] = c) \/ Closes(r, c)'
    BY <1>0 DEF KickInv
<1>1. r \in Thread
    BY ThreadKinds
<1>2. ASSUME c \in rpc[r].found
      PROVE  /\ c \in Conn
             /\ \/ sock'[c] = "closed" \/ Marked(c)'
                \/ /\ rpc[r].pc # "done"
                   /\ (\E i \in DOMAIN rpc[r].list : rpc[r].list[i] = c) \/ Closes(r, c)
  <2>1. c \in Conn
      BY <1>0, <1>2 DEF RpcState
  <2> QED BY <1>2, <2>1, DownStays DEF KickInv
<1>3. ASSUME rpc'[r] = rpc[r], call'[r] = call[r]
      PROVE  \/ sock'[c] = "closed" \/ Marked(c)'
             \/ /\ rpc'[r].pc # "done"
                /\ (\E i \in DOMAIN rpc'[r].list : rpc'[r].list[i] = c) \/ Closes(r, c)'
    BY <1>2, <1>3 DEF Closes
<1>4. ASSUME NEW t \in Thread, Closing(t)
      PROVE  \/ sock'[c] = "closed" \/ Marked(c)'
             \/ /\ rpc'[r].pc # "done"
                /\ (\E i \in DOMAIN rpc'[r].list : rpc'[r].list[i] = c) \/ Closes(r, c)'
  <2>1. UNCHANGED rpc
      BY <1>4 DEF Closing, KickWrite, CloseCheck, CloseLock, ConnClose, UnRegister
  <2>2. CASE t # r
    <3>1. call'[r] = call[r]
        BY <1>0, <1>1, <1>4, <2>2 DEF Closing, KickWrite, CloseCheck, CloseLock, ConnClose, UnRegister
    <3> QED BY <1>3, <2>1, <3>1
  <2>3. CASE t = r
    <3>1. Closes(r, c) => Closes(r, c)' \/ sock'[c] = "closed" \/ Marked(c)'
        BY <1>4, <2>3, ClosesNext
    <3> QED BY <1>2, <2>1, <3>1
  <2> QED BY <2>2, <2>3
<1>5. ASSUME NEW s \in KickRpc, NEW u, NEW p, KickUserOffline(s, u, p), u \in User
      PROVE  \/ sock'[c] = "closed" \/ Marked(c)'
             \/ /\ rpc'[r].pc # "done"
                /\ (\E i \in DOMAIN rpc'[r].list : rpc'[r].list[i] = c) \/ Closes(r, c)'
  <2> DEFINE list == OfPlatform(clients[u], p)
             f == Serving(list)
             q == IF list = <<>> THEN "done" ELSE "next"
             n == [rpc[s] EXCEPT !.pc = q, !.list = list, !.found = f]
  <2>1. rpc' = [rpc EXCEPT ![s] = n] /\ UNCHANGED call
      BY <1>0, <1>5 DEF KickUserOffline, RpcState
  <2>2. CASE s # r
    <3>1. rpc'[r] = rpc[r]
        BY <1>0, <2>1, <2>2
    <3> QED BY <1>3, <2>1, <3>1
  <2>3. CASE s = r
    <3>1. list \in Seq(Alloc)
        BY <1>5, OfPlatformSlice DEF AInv, TInv, MapOK
    <3>2. \A i \in DOMAIN list : list[i] \in Alloc
        BY <3>1, ElementOfSeq, LenProperties
    <3>3. \A i \in DOMAIN list : conn[list[i]] = list[i]
        BY <3>2 DEF OwnInv
    <3>4. n.found = f /\ n.list = list /\ n.pc = q
      <4> HIDE DEF f, list, q
      <4> QED BY <1>0 DEF RpcState
    <3>5. rpc'[r] = n
        BY <1>0, <2>1, <2>3
    <3>6. PICK i \in DOMAIN list : c = conn[list[i]]
        BY <3>4, <3>5 DEF Serving
    <3>7. list # <<>>
        BY <3>6
    <3> QED BY <3>3, <3>4, <3>5, <3>6, <3>7
  <2> QED BY <2>2, <2>3
<1>6. ASSUME NEW s \in KickRpc, Kicking(s)
      PROVE  \/ sock'[c] = "closed" \/ Marked(c)'
             \/ /\ rpc'[r].pc # "done"
                /\ (\E i \in DOMAIN rpc'[r].list : rpc'[r].list[i] = c) \/ Closes(r, c)'
  <2>1. CASE s # r
    <3>1. rpc'[r] = rpc[r] /\ call'[r] = call[r]
        BY <1>0, <1>1, <1>6, <2>1 DEF Kicking, KickLoad, KickStore, KickReturn
    <3> QED BY <1>3, <3>1
  <2>2. CASE s = r /\ KickLoad(r)
    <3>1. UNCHANGED call
        BY <2>2 DEF KickLoad
    <3>2. rpc'[r].pc = "store" /\ rpc'[r].list = rpc[r].list /\ rpc'[r].found = rpc[r].found
        BY <1>0, <2>2 DEF KickLoad, RpcState
    <3> QED BY <1>2, <3>1, <3>2 DEF Closes
  <2>3. CASE s = r /\ KickStore(r)
    <3> DEFINE o == Head(rpc[r].list)
    <3>1. /\ rpc[r].pc = "store" /\ call' = [call EXCEPT ![r] = Call("write", o)]
          /\ rpc'[r].pc = "next" /\ rpc'[r].list = Tail(rpc[r].list)
          /\ rpc'[r].found = rpc[r].found
        BY <1>0, <2>3 DEF KickStore, RpcState
    <3>2. rpc[r].list \in Seq(Alloc) /\ rpc[r].list # <<>> /\ call[r].step = "none"
        BY <3>1 DEF AInv, TInv, RpcOK, CallerInv
    <3>3. ~ Closes(r, c)
        BY <3>2 DEF Closes
    <3>4. CASE c = o
      <4>1. call'[r] = Call("write", o)
          BY <1>0, <1>1, <3>1
      <4> QED BY <3>1, <3>4, <4>1 DEF Closes, Call
    <3>5. CASE c # o
      <4>1. ASSUME NEW i \in DOMAIN rpc[r].list, rpc[r].list[i] = c
            PROVE  \E j \in DOMAIN Tail(rpc[r].list) : Tail(rpc[r].list)[j] = c
          BY <3>2, <3>5, <4>1, Pop
      <4> QED BY <1>2, <3>1, <3>3, <4>1
    <3> QED BY <3>4, <3>5
  <2>4. CASE s = r /\ KickReturn(r)
    <3>1. /\ call[r].step = "none" /\ rpc[r].list = <<>> /\ UNCHANGED call
          /\ rpc'[r].found = rpc[r].found
        BY <1>0, <2>4 DEF KickReturn, RpcState, NoCall
    <3>2. ~ Closes(r, c) /\ ~ \E i \in DOMAIN rpc[r].list : rpc[r].list[i] = c
        BY <3>1 DEF Closes
    <3> QED BY <1>2, <3>1, <3>2
  <2> QED BY <1>6, <2>1, <2>2, <2>3, <2>4 DEF Kicking
<1>7. CASE UNCHANGED vars \/ \E d \in Conn : Handling(d) \/ HangUp(d)
  <2>1. UNCHANGED <<rpc, call>>
      BY <1>7 DEF vars, Handling, WsAdmit, WsRefuse, WsUpgrade, WsRegister, HangUp
  <2> QED BY <1>3, <2>1
<1>8. ASSUME NEW d \in Conn, Reading(d)
      PROVE  rpc'[r] = rpc[r] /\ call'[r] = call[r]
  <2>1. UNCHANGED rpc /\ (UNCHANGED call \/ call' = [call EXCEPT ![d] = Call("check", struct[d])])
      BY <1>8 DEF Reading, ReadCall, ReadError, ReadMessage, CheckClosed, HandleMessage, Leave
  <2> QED BY <1>0, <1>1, <2>1, ThreadKinds
<1>9. CASE Run
  <2>1. UNCHANGED rpc /\ (UNCHANGED call \/ call' = [call EXCEPT ![Loop] = Call("write", Head(loop.old))])
      BY <1>9 DEF Run, LoopRegister, LoopKickInfo, LoopDeleteLoad, LoopDeleteStore, LoopKick,
              LoopTokens, LoopSetLoad, LoopSetStore, LoopOnline, LoopUnregister, LoopUnStore,
              LoopOffline
  <2>2. rpc'[r] = rpc[r] /\ call'[r] = call[r]
      BY <1>0, <1>1, <2>1, ThreadKinds
  <2> QED BY <1>3, <2>2
<1>10. CASE \E l \in RemoteLogin : MultiTerminalLoginCheck(l)
  <2>1. UNCHANGED <<rpc, call>>
      BY <1>10 DEF MultiTerminalLoginCheck
  <2> QED BY <1>3, <2>1
<1>11. \A k \in KickTarget : k[1] \in User
    BY GatewayAssumption
<1> QED BY <1>3, <1>4, <1>5, <1>6, <1>7, <1>8, <1>9, <1>10, <1>11 DEF Next

\* When clientPool.Get allocates (no struct is reused), a KickUserOffline that returned leaves
\* no connection it found in service, whatever the readers, the event loop and the other
\* RPCs did to these connections meanwhile: its socket is closed, or a goroutine that
\* marked its client closed is at the call of conn.Close.
THEOREM KickClosesHolds ==
    ASSUME \A s \in Setting : ~ s.poolReuse
    PROVE  Spec => []KickCloses
<1> DEFINE KInv == AInv /\ OwnInv /\ KickInv
<1>1. Init => KInv
  <2> SUFFICES ASSUME Init PROVE KInv
      OBVIOUS
  <2>1. OwnInv
      BY DEF Init, OwnInv, Alloc, NoCall
  <2>2. \A r \in KickRpc : rpc[r].found = {}
      BY DEF Init
  <2>3. KickInv
      BY <2>2 DEF KickInv
  <2> QED BY <2>1, <2>3, AInvInit
<1>2. KInv /\ [Next]_vars => KInv'
    BY AInvNext, OwnNext, KickNext
<1>3. KInv => KickCloses
  <2> SUFFICES ASSUME KInv, NEW r \in KickRpc, rpc[r].pc = "done", NEW c \in rpc[r].found
               PROVE  sock[c] = "closed" \/ Shutting(c)
      BY DEF KickCloses
  <2>1. ~ PoolReuse
      BY DEF AInv, TInv, ConfOK, PoolReuse
  <2>2. sock[c] = "closed" \/ Marked(c)
      BY <2>1 DEF KickInv
  <2>3. Marked(c) => Shutting(c)
      BY <2>1 DEF OwnInv, Marked, Shutting
  <2> QED BY <2>2, <2>3
<1> HIDE DEF KInv
<1> QED BY <1>1, <1>2, <1>3, PTL DEF Spec
-----------------------------------------------------------------------------
(* The pool, when nothing is kicked.                                       *)

\* With DefalutNotKick and no KickUserOffline only readers call close, each on the struct
\* of its own connection.
ReadersOnly ==
    Policy = DefalutNotKick =>
        /\ \A t \in Thread : t \notin Conn => call[t].step = "none"
        /\ \A r \in KickRpc : rpc[r].pc = "idle"
        /\ loop.pc \notin {"delete", "deleteStore", "kick"}
        /\ \A c \in Conn : /\ call[c].step \in {"none", "check", "lock", "shut", "send"}
                           /\ call[c].step # "none" => call[c].cl = struct[c]

\* The steps a node can take then.
CalmStep ==
    \/ \E c \in Conn : Handling(c) \/ HangUp(c) \/ Reading(c)
    \/ \E c \in Conn : CloseCheck(c) \/ CloseLock(c) \/ ConnClose(c) \/ UnRegister(c)
    \/ LoopRegister /\ loop'.pc = "set"
    \/ LoopKickInfo /\ loop' = Idle
    \/ LoopSetLoad \/ LoopSetStore \/ LoopOnline \/ LoopUnregister \/ LoopUnStore \/ LoopOffline
    \/ \E l \in RemoteLogin : MultiTerminalLoginCheck(l)

\* Every step of a node that kicks nothing is one of these.
LEMMA Calm ==
    ASSUME KickTarget = {}, AInv, ReadersOnly, Policy = DefalutNotKick, Next
    PROVE  CalmStep
<1>0. \A p : ~ Kicks(p)
    BY DEF Kicks, DefalutNotKick, AllLoginButSameTermKick, PCAndOther
<1>1. CASE \E t \in Thread : Closing(t)
  <2>1. PICK t \in Thread : Closing(t)
      BY <1>1
  <2>2. call[t].step # "none"
      BY <2>1 DEF Closing, KickWrite, CloseCheck, CloseLock, ConnClose, UnRegister
  <2>3. t \in Conn /\ call[t].step # "write"
      BY <2>2 DEF ReadersOnly
  <2> QED BY <2>1, <2>3 DEF Closing, KickWrite, CalmStep
<1>2. CASE LoopRegister
  <2>1. loop'.pc = "set"
      BY <1>0, <1>2 DEF LoopRegister, Idle
  <2> QED BY <1>2, <2>1 DEF CalmStep
<1>3. CASE LoopKickInfo
  <2>1. loop' = Idle
      BY <1>0, <1>3 DEF LoopKickInfo
  <2> QED BY <1>3, <2>1 DEF CalmStep
<1>4. ~ (LoopDeleteLoad \/ LoopDeleteStore \/ LoopKick \/ LoopTokens)
    BY DEF ReadersOnly, LoopDeleteLoad, LoopDeleteStore, LoopKick, LoopTokens
<1>5. \A r \in KickRpc : ~ Kicking(r)
    BY DEF ReadersOnly, Kicking, KickLoad, KickStore, KickReturn
<1>6. CASE Run
    BY <1>2, <1>3, <1>4, <1>6 DEF Run, CalmStep
<1>7. CASE \/ \E c \in Conn : Handling(c) \/ HangUp(c) \/ Reading(c)
           \/ \E l \in RemoteLogin : MultiTerminalLoginCheck(l)
    BY <1>7 DEF CalmStep
<1> QED BY <1>1, <1>5, <1>6, <1>7 DEF Next

\* Readers stay the only callers.
LEMMA ReadersOnlyNext ==
    ASSUME KickTarget = {}, AInv, ReadersOnly, [Next]_vars
    PROVE  ReadersOnly'
<1>0. /\ Policy' = Policy
      /\ call \in [Thread -> [step : CallStep, cl : Client \union {NoConn},
                              on : Conn \union {NoConn}]]
      /\ loop \in LoopState
      /\ struct \in [Conn -> Client \union {NoConn}]
      /\ \A c \in Conn : call[c].step # "none" => handler[c] = "served"
    BY SameSetting DEF Policy, AInv, TInv, CallOK, LoopOK, ConnOK, CallerInv
<1> SUFFICES ASSUME Policy = DefalutNotKick PROVE ReadersOnly'
    BY <1>0 DEF ReadersOnly
<1>1. /\ \A t \in Thread : t \notin Conn => call[t].step = "none"
      /\ \A r \in KickRpc : rpc[r].pc = "idle"
      /\ loop.pc \notin {"delete", "deleteStore", "kick"}
      /\ \A c \in Conn : /\ call[c].step \in {"none", "check", "lock", "shut", "send"}
                         /\ call[c].step # "none" => call[c].cl = struct[c]
    BY DEF ReadersOnly
<1>2. CASE UNCHANGED vars
  <2>1. UNCHANGED <<call, rpc, loop, struct>>
      BY <1>2 DEF vars
  <2> QED BY <1>1, <2>1 DEF ReadersOnly
<1>3. ASSUME NEW c \in Conn, Handling(c) \/ HangUp(c) PROVE ReadersOnly'
  <2>1. /\ UNCHANGED <<call, rpc, loop>>
        /\ \/ UNCHANGED struct
           \/ handler[c] # "served" /\ \E o : struct' = [struct EXCEPT ![c] = o]
      BY <1>3 DEF Handling, WsAdmit, WsRefuse, WsUpgrade, WsRegister, HangUp
  <2>2. \A d \in Conn : call[d].step # "none" => struct'[d] = struct[d]
      BY <1>0, <2>1
  <2> QED BY <1>1, <2>1, <2>2 DEF ReadersOnly
<1>4. ASSUME NEW c \in Conn, NEW n, call' = [call EXCEPT ![c] = n],
             n.step \in {"none", "check", "lock", "shut", "send"}, n.step # "none" => n.cl = struct[c],
             UNCHANGED <<rpc, loop, struct>>
      PROVE  ReadersOnly'
  <2>1. /\ call'[c] = n
        /\ \A t \in Thread : t # c => call'[t] = call[t]
      BY <1>0, <1>4, ThreadKinds
  <2> QED BY <1>1, <1>4, <2>1, ThreadKinds DEF ReadersOnly
<1>5. ASSUME NEW c \in Conn, Reading(c) PROVE ReadersOnly'
  <2>1. /\ UNCHANGED <<rpc, loop, struct>>
        /\ UNCHANGED call \/ call' = [call EXCEPT ![c] = Call("check", struct[c])]
      BY <1>5 DEF Reading, ReadCall, ReadError, ReadMessage, CheckClosed, HandleMessage, Leave,
                  connVars
  <2>2. CASE UNCHANGED call
      BY <1>1, <2>1, <2>2 DEF ReadersOnly
  <2>3. CASE call' = [call EXCEPT ![c] = Call("check", struct[c])]
    <3>1. Call("check", struct[c]).step = "check" /\ Call("check", struct[c]).cl = struct[c]
        BY DEF Call
    <3> QED BY <1>4, <2>1, <2>3, <3>1
  <2> QED BY <2>1, <2>2, <2>3
<1>6. ASSUME NEW c \in Conn, CloseCheck(c) \/ CloseLock(c) \/ ConnClose(c) \/ UnRegister(c)
      PROVE  ReadersOnly'
  <2>1. UNCHANGED <<rpc, loop, struct>> /\ call[c].cl = struct[c] /\ c \in Thread
      BY <1>1, <1>6, ThreadKinds DEF CloseCheck, CloseLock, ConnClose, UnRegister, connVars
  <2>2. PICK n : /\ call' = [call EXCEPT ![c] = n]
                 /\ n.step \in {"none", "check", "lock", "shut", "send"}
                 /\ n.step # "none" => n.cl = struct[c]
    <3>1. CASE CloseCheck(c)
      <4> DEFINE n == IF closed[struct[c]] THEN NoCall ELSE Call("lock", struct[c])
      <4>1. call' = [call EXCEPT ![c] = n]
          BY <1>0, <2>1, <3>1 DEF CloseCheck
      <4>2. n.step \in {"none", "lock"} /\ (n.step # "none" => n.cl = struct[c])
          BY DEF NoCall, Call
      <4> HIDE DEF n
      <4> QED BY <4>1, <4>2
    <3>2. CASE CloseLock(c)
      <4> DEFINE n == [step |-> "shut", cl |-> struct[c], on |-> conn[struct[c]]]
      <4>1. call' = [call EXCEPT ![c] = n] /\ n.step = "shut" /\ n.cl = struct[c]
          BY <2>1, <3>2 DEF CloseLock
      <4> HIDE DEF n
      <4> QED BY <4>1
    <3>3. CASE ConnClose(c)
      <4> DEFINE n == [call[c] EXCEPT !.step = "send"]
      <4>1. call' = [call EXCEPT ![c] = n] /\ n.step = "send" /\ n.cl = struct[c]
          BY <1>0, <2>1, <3>3 DEF ConnClose
      <4> HIDE DEF n
      <4> QED BY <4>1
    <3>4. CASE UnRegister(c)
      <4>1. call' = [call EXCEPT ![c] = NoCall] /\ NoCall.step = "none"
          BY <3>4 DEF UnRegister, NoCall
      <4> QED BY <4>1
    <3> QED BY <1>6, <3>1, <3>2, <3>3, <3>4
  <2> QED BY <1>4, <2>1, <2>2
<1>7. CASE \/ LoopRegister /\ loop'.pc = "set"
           \/ LoopKickInfo /\ loop' = Idle
           \/ LoopSetLoad \/ LoopSetStore \/ LoopOnline \/ LoopUnregister \/ LoopUnStore
           \/ LoopOffline
  <2>1. UNCHANGED <<call, rpc, struct>>
      BY <1>7 DEF LoopRegister, LoopKickInfo, LoopSetLoad, LoopSetStore, LoopOnline,
                  LoopUnregister, LoopUnStore, LoopOffline, connVars
  <2>2. loop'.pc \in {"idle", "set", "setStore", "online", "unStore", "offline"}
    <3>1. CASE LoopRegister /\ loop'.pc = "set"
        BY <3>1
    <3>2. CASE (LoopKickInfo /\ loop' = Idle) \/ LoopOnline \/ LoopOffline
      <4>1. loop' = Idle
          BY <3>2 DEF LoopOnline, LoopOffline
      <4> QED BY <4>1, IdleTyped
    <3>3. CASE LoopSetLoad \/ LoopSetStore \/ LoopUnStore
      <4>1. \E p \in {"setStore", "online", "offline"} : \E b, n :
                loop' = [loop EXCEPT !.pc = p, !.buf = b, !.new = n]
          BY <3>3 DEF LoopSetLoad, LoopSetStore, LoopUnStore
      <4> QED BY <1>0, <4>1 DEF LoopState
    <3>4. CASE LoopUnregister
        BY <3>4 DEF LoopUnregister, Idle
    <3> QED BY <1>7, <3>1, <3>2, <3>3, <3>4
  <2> QED BY <1>1, <2>1, <2>2 DEF ReadersOnly
<1>8. CASE \E l \in RemoteLogin : MultiTerminalLoginCheck(l)
  <2>1. UNCHANGED <<call, rpc, loop, struct>>
      BY <1>8 DEF MultiTerminalLoginCheck, connVars
  <2> QED BY <1>1, <2>1 DEF ReadersOnly
<1>9. CASE Next
  <2>1. CalmStep
      BY <1>9, Calm
  <2>2. CASE \E c \in Conn : Handling(c) \/ HangUp(c) \/ Reading(c)
      BY <1>3, <1>5, <2>2
  <2>3. CASE \E c \in Conn : CloseCheck(c) \/ CloseLock(c) \/ ConnClose(c) \/ UnRegister(c)
      BY <1>6, <2>3
  <2>4. CASE \/ LoopRegister /\ loop'.pc = "set"
             \/ LoopKickInfo /\ loop' = Idle
             \/ LoopSetLoad \/ LoopSetStore \/ LoopOnline \/ LoopUnregister \/ LoopUnStore
             \/ LoopOffline
      BY <1>7, <2>4
  <2>5. CASE \E l \in RemoteLogin : MultiTerminalLoginCheck(l)
      BY <1>8, <2>5
  <2> QED BY <2>1, <2>2, <2>3, <2>4, <2>5 DEF CalmStep
<1> QED BY <1>2, <1>9

\* The goroutines of connection c use its struct: until its reader has marked it closed
\* (Live), and until the reader has handed the struct to the event loop (Held).
Live(c) ==
    handler[c] \in Accepted /\ (reader[c] # "exit" \/ call[c].step \in {"check", "lock"})
Held(c) == Live(c) \/ call[c].step \in {"shut", "send"}

\* The event loop is unregistering struct o, or will.
Off(o) == loop.pc \in {"unStore", "offline"} /\ loop.cl = o
Queued(o) == \E i \in DOMAIN unregisterChan : unregisterChan[i] = o

\* A struct is in one place at a time: held by one connection, which it serves while that
\* is alive, or once on its way to the pool, its connection closed, or once in the pool.
\* An open socket has a reader that is alive or about to close it.
PoolInv ==
    Policy = DefalutNotKick =>
        /\ \A c \in Conn : Live(c) =>
              conn[struct[c]] = c /\ ~ closed[struct[c]] /\ sock[c] # "closed"
        /\ \A c \in Conn : Held(c) =>
              clientPool[struct[c]] = 0 /\ ~ Off(struct[c]) /\ ~ Queued(struct[c])
        /\ \A c, d \in Conn : Held(c) /\ Held(d) /\ struct[c] = struct[d] => c = d
        /\ \A i, j \in DOMAIN unregisterChan : unregisterChan[i] = unregisterChan[j] => i = j
        /\ \A o \in Client : Queued(o) => clientPool[o] = 0 /\ ~ Off(o)
        /\ \A o \in Client : clientPool[o] <= 1 /\ (Off(o) => clientPool[o] = 0)
        /\ \A c \in Conn : call[c].step = "send" => sock[conn[struct[c]]] = "closed"
        /\ \A o \in Client : Queued(o) \/ Off(o) => sock[conn[o]] = "closed"
        /\ \A c \in Conn : handler[c] \in Accepted /\ sock[c] # "closed" =>
              Live(c) \/ call[c].step = "shut"
        /\ \A c \in Conn : call[c].step = "shut" => conn[struct[c]] = c /\ sock[c] # "closed"

NInv == AInv /\ ReadersOnly /\ PoolInv

\* Structs in use are allocated.
LEMMA InUse ==
    ASSUME AInv
    PROVE  /\ \A c \in Conn : Held(c) => struct[c] \in Alloc /\ handler[c] \in Accepted
           /\ \A o : Queued(o) \/ Off(o) => o \in Alloc
<1>1. /\ \A c \in Conn : handler[c] \in Accepted => struct[c] \in Alloc
      /\ \A c \in Conn : call[c].step # "none" => handler[c] \in Accepted
    BY DEF AInv, TInv, ConnOK, CallerInv, Accepted
<1>2. \A c \in Conn : Held(c) => struct[c] \in Alloc /\ handler[c] \in Accepted
    BY <1>1 DEF Held, Live
<1>3. \A o : Queued(o) => o \in Alloc
  <2>1. unregisterChan \in Seq(Alloc)
      BY DEF AInv, TInv, ChanOK
  <2> QED BY <2>1, ElementOfSeq, LenProperties DEF Queued
<1>4. \A o : Off(o) => o \in Alloc
    BY DEF AInv, TInv, LoopOK, Off
<1> QED BY <1>2, <1>3, <1>4

\* Steps that move no struct.
LEMMA PoolFrame ==
    ASSUME AInv, PoolInv, UNCHANGED <<conf, conn, closed, clientPool, struct, unregisterChan>>,
           \A c \in Conn : Live(c)' <=> Live(c),
           \A c \in Conn : (call[c].step = "send")' <=> call[c].step = "send",
           \A c \in Conn : (call[c].step = "shut")' <=> call[c].step = "shut",
           \A o : Off(o)' <=> Off(o),
           \A c \in Conn : sock'[c] = "closed" <=> sock[c] = "closed",
           \A c \in Conn : handler'[c] \in Accepted <=> handler[c] \in Accepted
    PROVE  PoolInv'
<1>1. \A c \in Conn : Held(c)' <=> Held(c)
    BY DEF Held
<1>2. \A o : Queued(o)' <=> Queued(o)
    BY DEF Queued
<1>3. \A o \in Alloc : conn[o] \in Conn
    BY DEF AInv, TInv, StructOK, Alloc
<1>4. Policy' = Policy
    BY DEF Policy
<1> SUFFICES ASSUME Policy = DefalutNotKick PROVE PoolInv'
    BY <1>4 DEF PoolInv
<1>5. \A c \in Conn : call[c].step = "send" => sock[conn[struct[c]]] = "closed"
                                              /\ conn[struct[c]] \in Conn
    BY <1>3, InUse DEF PoolInv, Held
<1>6. \A o \in Client : Queued(o) \/ Off(o) => sock[conn[o]] = "closed" /\ conn[o] \in Conn
    BY <1>3, InUse DEF PoolInv
<1>7. \A c \in Conn : Live(c)' => (conn[struct[c]] = c /\ ~ closed[struct[c]] /\ sock[c] # "closed")'
    BY DEF PoolInv
<1>8. \A c \in Conn : Held(c)' =>
          (clientPool[struct[c]] = 0 /\ ~ Off(struct[c]) /\ ~ Queued(struct[c]))'
    BY <1>1, <1>2 DEF PoolInv
<1>9. \A c, d \in Conn : Held(c)' /\ Held(d)' /\ struct'[c] = struct'[d] => c = d
    BY <1>1 DEF PoolInv
<1>10. \A i, j \in DOMAIN unregisterChan' : unregisterChan'[i] = unregisterChan'[j] => i = j
    BY DEF PoolInv
<1>11. \A o \in Client : Queued(o)' => clientPool'[o] = 0 /\ ~ Off(o)'
    BY <1>2 DEF PoolInv
<1>12. \A o \in Client : clientPool'[o] <= 1 /\ (Off(o)' => clientPool'[o] = 0)
    BY DEF PoolInv
<1>13. \A c \in Conn : (call[c].step = "send")' => sock'[conn'[struct'[c]]] = "closed"
    BY <1>5
<1>14. \A o \in Client : Queued(o)' \/ Off(o)' => sock'[conn'[o]] = "closed"
    BY <1>2, <1>6
<1>15. \A c \in Conn : handler'[c] \in Accepted /\ sock'[c] # "closed" =>
          Live(c)' \/ call'[c].step = "shut"
    BY DEF PoolInv
<1>16. \A c \in Conn : call'[c].step = "shut" => (conn[struct[c]] = c /\ sock[c] # "closed")'
    BY DEF PoolInv
<1> QED BY <1>7, <1>8, <1>9, <1>10, <1>11, <1>12, <1>13, <1>14, <1>15, <1>16 DEF PoolInv

\* A connection is upgraded: it gets a struct that nobody uses.
LEMMA PoolGet ==
    ASSUME NInv, Policy = DefalutNotKick, NEW c \in Conn, WsUpgrade(c)
    PROVE  PoolInv'
<1>0. /\ conn \in [Client -> Conn \union {NoConn}] /\ closed \in [Client -> BOOLEAN]
      /\ clientPool \in [Client -> Nat]
      /\ handler \in [Conn -> {"new", "admitted", "refused", "upgraded", "served"}]
      /\ sock \in [Conn -> {"none", "open", "hung", "closed"}]
      /\ struct \in [Conn -> Client \union {NoConn}]
      /\ \A d \in Conn : reader[d] # "none" => handler[d] = "served"
      /\ \A d \in Conn : call[d].step # "none" => reader[d] = "exit"
      /\ \A d \in Conn : sock[d] # "none" <=> handler[d] \in Accepted
    BY DEF NInv, AInv, TInv, StructOK, ConnOK, CallerInv, AcceptInv
<1>1. PICK o \in Client :
          /\ \/ o = c /\ UNCHANGED clientPool
             \/ clientPool[o] > 0 /\ clientPool' = [clientPool EXCEPT ![o] = @ - 1]
          /\ conn' = [conn EXCEPT ![o] = c]
          /\ closed' = [closed EXCEPT ![o] = FALSE]
          /\ struct' = [struct EXCEPT ![c] = o]
    BY DEF WsUpgrade, ResetClient
<1>2. /\ handler[c] = "admitted" /\ handler' = [handler EXCEPT ![c] = "upgraded"]
      /\ sock' = [sock EXCEPT ![c] = "open"]
      /\ UNCHANGED <<conf, reader, call, loop, unregisterChan>>
    BY DEF WsUpgrade, readVars, chanVars
<1>3. /\ call[c].step = "none" /\ reader[c] # "exit" /\ ~ Held(c) /\ sock[c] = "none"
    BY <1>0, <1>2, InUse DEF NInv, Accepted
<1>4. \A d \in Conn : d # c => /\ handler'[d] = handler[d] /\ sock'[d] = sock[d]
                               /\ struct'[d] = struct[d]
    BY <1>0, <1>1, <1>2
<1>5. \A d \in Conn : d # c => (Live(d)' <=> Live(d)) /\ (Held(d)' <=> Held(d))
    BY <1>2, <1>4 DEF Live, Held
<1>6. /\ struct'[c] = o /\ conn'[o] = c /\ closed'[o] = FALSE /\ sock'[c] = "open"
      /\ \A x \in Client : x # o => conn'[x] = conn[x] /\ closed'[x] = closed[x]
    BY <1>0, <1>1, <1>2
<1>7. (\A x : Queued(x)' <=> Queued(x)) /\ (\A x : Off(x)' <=> Off(x))
    BY <1>2 DEF Queued, Off
<1>8. ~ Queued(o) /\ ~ Off(o) /\ (\A d \in Conn : Held(d) => struct[d] # o)
      /\ clientPool'[o] = 0 /\ \A x \in Client : x # o => clientPool'[x] = clientPool[x]
  <2>1. CASE o = c /\ UNCHANGED clientPool
    <3>1. o \notin Alloc
        BY <1>2, <2>1 DEF NInv, AInv, AcceptInv, Accepted
    <3>2. clientPool[o] = 0
        BY <1>0, <3>1 DEF NInv, AInv, AcceptInv
    <3> QED BY <2>1, <3>1, <3>2, InUse DEF NInv
  <2>2. CASE clientPool[o] > 0 /\ clientPool' = [clientPool EXCEPT ![o] = @ - 1]
    <3>1. clientPool[o] = 1
        BY <1>0, <2>2 DEF NInv, PoolInv
    <3>2. clientPool'[o] = 0 /\ \A x \in Client : x # o => clientPool'[x] = clientPool[x]
        BY <1>0, <2>2, <3>1
    <3> QED BY <3>1, <3>2 DEF NInv, PoolInv
  <2> QED BY <1>1, <2>1, <2>2
<1>9. \A x \in Alloc : conn[x] \in Conn /\ x \in Client /\ conn[x] # c
    BY <1>0, <1>2 DEF NInv, AInv, AcceptInv, Alloc, Accepted
<1>10. \A d \in Conn : Live(d)' =>
          (conn[struct[d]] = d /\ ~ closed[struct[d]] /\ sock[d] # "closed")'
  <2> TAKE d \in Conn
  <2>1. CASE d = c
      BY <1>6, <2>1
  <2>2. CASE d # c
    <3> HAVE Live(d)'
    <3>1. Live(d) /\ struct'[d] = struct[d] /\ struct[d] # o /\ struct[d] \in Client
        BY <1>4, <1>5, <1>8, <2>2, InUse DEF Held, Alloc, NInv
    <3> QED BY <1>4, <1>6, <2>2, <3>1 DEF NInv, PoolInv
  <2> QED BY <2>1, <2>2
<1>11. \A d \in Conn : Held(d)' =>
          (clientPool[struct[d]] = 0 /\ ~ Off(struct[d]) /\ ~ Queued(struct[d]))'
  <2> TAKE d \in Conn
  <2>1. CASE d = c
      BY <1>6, <1>7, <1>8, <2>1
  <2>2. CASE d # c
    <3> HAVE Held(d)'
    <3>1. Held(d) /\ struct'[d] = struct[d] /\ struct[d] # o /\ struct[d] \in Client
        BY <1>4, <1>5, <1>8, <2>2, InUse DEF Alloc, NInv
    <3> QED BY <1>7, <1>8, <3>1 DEF NInv, PoolInv
  <2> QED BY <2>1, <2>2
<1>12. \A d, e \in Conn : Held(d)' /\ Held(e)' /\ struct'[d] = struct'[e] => d = e
  <2> SUFFICES ASSUME NEW d \in Conn, NEW e \in Conn, Held(d)', Held(e)',
                      struct'[d] = struct'[e], d # e
               PROVE  FALSE
      OBVIOUS
  <2>1. CASE d = c
      BY <1>4, <1>5, <1>6, <1>8, <2>1
  <2>2. CASE e = c
      BY <1>4, <1>5, <1>6, <1>8, <2>2
  <2>3. CASE d # c /\ e # c
      BY <1>4, <1>5, <2>3 DEF NInv, PoolInv
  <2> QED BY <2>1, <2>2, <2>3
<1>13. \A i, j \in DOMAIN unregisterChan' : unregisterChan'[i] = unregisterChan'[j] => i = j
    BY <1>2 DEF NInv, PoolInv
<1>14. \A x \in Client : Queued(x)' => clientPool'[x] = 0 /\ ~ Off(x)'
    BY <1>7, <1>8 DEF NInv, PoolInv
<1>15. \A x \in Client : clientPool'[x] <= 1 /\ (Off(x)' => clientPool'[x] = 0)
    BY <1>7, <1>8 DEF NInv, PoolInv
<1>16. \A d \in Conn : (call[d].step = "send")' => sock'[conn'[struct'[d]]] = "closed"
  <2> SUFFICES ASSUME NEW d \in Conn, call[d].step = "send"
               PROVE  sock'[conn'[struct'[d]]] = "closed"
      BY <1>2
  <2>1. d # c /\ Held(d)
      BY <1>3 DEF Held
  <2>2. struct'[d] = struct[d] /\ struct[d] # o /\ struct[d] \in Alloc
      BY <1>4, <1>8, <2>1, InUse DEF NInv
  <2>3. conn'[struct[d]] = conn[struct[d]] /\ conn[struct[d]] \in Conn /\ conn[struct[d]] # c
      BY <1>6, <1>9, <2>2
  <2>4. sock[conn[struct[d]]] = "closed"
      BY DEF NInv, PoolInv
  <2> QED BY <1>4, <2>2, <2>3, <2>4
<1>17. \A x \in Client : Queued(x)' \/ Off(x)' => sock'[conn'[x]] = "closed"
  <2> SUFFICES ASSUME NEW x \in Client, Queued(x) \/ Off(x)
               PROVE  sock'[conn'[x]] = "closed"
      BY <1>7
  <2>1. x # o /\ x \in Alloc
      BY <1>8, InUse DEF NInv
  <2>2. conn'[x] = conn[x] /\ conn[x] \in Conn /\ conn[x] # c
      BY <1>6, <1>9, <2>1
  <2>3. sock[conn[x]] = "closed"
      BY DEF NInv, PoolInv
  <2> QED BY <1>4, <2>2, <2>3
<1>18. \A d \in Conn : handler'[d] \in Accepted /\ sock'[d] # "closed" =>
          Live(d)' \/ call'[d].step = "shut"
  <2>1. Live(c)'
    <3>1. handler'[c] = "upgraded" /\ reader'[c] # "exit"
        BY <1>0, <1>2, <1>3
    <3> QED BY <3>1 DEF Live, Accepted
  <2> QED BY <1>2, <1>4, <1>5, <2>1 DEF NInv, PoolInv
<1>19. \A d \in Conn : call'[d].step = "shut" => (conn[struct[d]] = d /\ sock[d] # "closed")'
  <2> SUFFICES ASSUME NEW d \in Conn, call[d].step = "shut"
               PROVE  conn'[struct'[d]] = d /\ sock'[d] # "closed"
      BY <1>2
  <2>1. d # c /\ Held(d)
      BY <1>3 DEF Held
  <2>2. struct'[d] = struct[d] /\ struct[d] # o /\ struct[d] \in Alloc
      BY <1>4, <1>8, <2>1, InUse DEF NInv
  <2>3. conn'[struct[d]] = conn[struct[d]]
      BY <1>6, <1>9, <2>2
  <2>4. conn[struct[d]] = d /\ sock[d] # "closed"
      BY DEF NInv, PoolInv
  <2> QED BY <1>4, <2>1, <2>2, <2>3, <2>4
<1> QED BY <1>10, <1>11, <1>12, <1>13, <1>14, <1>15, <1>16, <1>17, <1>18, <1>19 DEF PoolInv

\* A reader marks the struct of its connection closed.
LEMMA PoolMark ==
    ASSUME NInv, Policy = DefalutNotKick, NEW c \in Conn, CloseLock(c)
    PROVE  PoolInv'
<1>0. /\ closed \in [Client -> BOOLEAN]
      /\ call \in [Thread -> [step : CallStep, cl : Client \union {NoConn},
                              on : Conn \union {NoConn}]]
      /\ c \in Thread
      /\ \A d \in Conn : call[d].step # "none" => handler[d] \in Accepted
    BY ThreadKinds DEF NInv, AInv, TInv, StructOK, ConnOK, CallOK, CallerInv, Accepted
<1> DEFINE o == struct[c]
<1>1. call[c].step = "lock" /\ call[c].cl = o
    BY DEF CloseLock, NInv, ReadersOnly
<1>2. Live(c) /\ Held(c) /\ conn[o] = c /\ sock[c] # "closed" /\ o \in Alloc /\ o \in Client
  <2>1. Live(c) /\ Held(c)
      BY <1>0, <1>1 DEF Live, Held
  <2> QED BY <2>1, InUse DEF NInv, PoolInv, Alloc
<1>3. /\ closed' = [closed EXCEPT ![o] = TRUE]
      /\ call' = [call EXCEPT ![c] = [step |-> "shut", cl |-> o, on |-> c]]
      /\ UNCHANGED <<conf, conn, clientPool, handler, sock, struct, reader, loop, unregisterChan>>
    BY <1>1, <1>2 DEF CloseLock, connVars, readVars, chanVars
<1>4. call'[c].step = "shut" /\ \A d \in Conn : d # c => call'[d] = call[d]
    BY <1>0, <1>3, ThreadKinds
<1>5. ~ Live(c)' /\ Held(c)' /\ \A d \in Conn : d # c => (Live(d)' <=> Live(d))
  <2>1. reader[c] = "exit"
      BY <1>1 DEF NInv, AInv, CallerInv
  <2> QED BY <1>3, <1>4, <2>1 DEF Live, Held
<1>6. \A d \in Conn : Held(d)' <=> Held(d)
    BY <1>2, <1>4, <1>5 DEF Held
<1>7. (\A x : Queued(x)' <=> Queued(x)) /\ (\A x : Off(x)' <=> Off(x))
    BY <1>3 DEF Queued, Off
<1>8. \A d \in Conn : Live(d)' =>
          (conn[struct[d]] = d /\ ~ closed[struct[d]] /\ sock[d] # "closed")'
  <2> SUFFICES ASSUME NEW d \in Conn, Live(d)'
               PROVE  conn[struct[d]] = d /\ ~ closed'[struct[d]] /\ sock[d] # "closed"
      BY <1>3
  <2>1. d # c /\ Live(d) /\ Held(d)
      BY <1>5 DEF Held
  <2>2. struct[d] # o
      BY <1>2, <2>1 DEF NInv, PoolInv
  <2>3. struct[d] \in Client
      BY <2>1, InUse DEF NInv, Alloc
  <2>4. closed'[struct[d]] = closed[struct[d]]
      BY <1>0, <1>3, <2>2, <2>3
  <2> QED BY <2>1, <2>4 DEF NInv, PoolInv
<1>9. \A d \in Conn : Held(d)' =>
          (clientPool[struct[d]] = 0 /\ ~ Off(struct[d]) /\ ~ Queued(struct[d]))'
    BY <1>3, <1>6, <1>7 DEF NInv, PoolInv
<1>10. \A d, e \in Conn : Held(d)' /\ Held(e)' /\ struct'[d] = struct'[e] => d = e
    BY <1>3, <1>6 DEF NInv, PoolInv
<1>11. \A i, j \in DOMAIN unregisterChan' : unregisterChan'[i] = unregisterChan'[j] => i = j
    BY <1>3 DEF NInv, PoolInv
<1>12. \A x \in Client : Queued(x)' => clientPool'[x] = 0 /\ ~ Off(x)'
    BY <1>3, <1>7 DEF NInv, PoolInv
<1>13. \A x \in Client : clientPool'[x] <= 1 /\ (Off(x)' => clientPool'[x] = 0)
    BY <1>3, <1>7 DEF NInv, PoolInv
<1>14. \A d \in Conn : call'[d].step = "send" => sock'[conn'[struct'[d]]] = "closed"
  <2>1. \A d \in Conn : call'[d].step = "send" => call[d].step = "send"
      BY <1>4
  <2> QED BY <1>3, <2>1 DEF NInv, PoolInv
<1>15. \A x \in Client : Queued(x)' \/ Off(x)' => sock'[conn'[x]] = "closed"
    BY <1>3, <1>7 DEF NInv, PoolInv
<1>16. \A d \in Conn : handler'[d] \in Accepted /\ sock'[d] # "closed" =>
          Live(d)' \/ call'[d].step = "shut"
    BY <1>3, <1>4, <1>5 DEF NInv, PoolInv
<1>17. \A d \in Conn : call'[d].step = "shut" => (conn[struct[d]] = d /\ sock[d] # "closed")'
    BY <1>2, <1>3, <1>4 DEF NInv, PoolInv
<1> QED BY <1>8, <1>9, <1>10, <1>11, <1>12, <1>13, <1>14, <1>15, <1>16, <1>17 DEF PoolInv

\* A reader closes its connection's socket: it was not closed.
LEMMA PoolShut ==
    ASSUME NInv, Policy = DefalutNotKick, NEW c \in Conn, ConnClose(c)
    PROVE  PoolInv' /\ sock[conn[call[c].cl]] # "closed"
<1>0. /\ sock \in [Conn -> {"none", "open", "hung", "closed"}]
      /\ call \in [Thread -> [step : CallStep, cl : Client \union {NoConn},
                              on : Conn \union {NoConn}]]
      /\ c \in Thread
      /\ \A d \in Conn : call[d].step # "none" => handler[d] \in Accepted
    BY ThreadKinds DEF NInv, AInv, TInv, ConnOK, CallOK, CallerInv, Accepted
<1> DEFINE o == struct[c]
<1>1. call[c].step = "shut" /\ call[c].cl = o
    BY DEF ConnClose, NInv, ReadersOnly
<1>2. Held(c) /\ conn[o] = c /\ sock[c] # "closed" /\ o \in Alloc /\ o \in Client
  <2>1. Held(c) /\ call[c].step = "shut"
      BY <1>1 DEF Held
  <2> QED BY <2>1, InUse DEF NInv, PoolInv, Alloc
<1>3. /\ sock' = [sock EXCEPT ![c] = "closed"]
      /\ UNCHANGED <<conf, conn, closed, clientPool, handler, struct, reader, loop,
                     unregisterChan>>
    BY <1>1, <1>2 DEF ConnClose, structVars, readVars, chanVars
<1>4. call'[c].step = "send" /\ \A d \in Conn : d # c => call'[d] = call[d]
    BY <1>0, ThreadKinds DEF ConnClose
<1>5. ~ Live(c)' /\ Held(c)' /\ \A d \in Conn : d # c => (Live(d)' <=> Live(d))
  <2>1. reader[c] = "exit"
      BY <1>1 DEF NInv, AInv, CallerInv
  <2> QED BY <1>3, <1>4, <2>1 DEF Live, Held
<1>6. \A d \in Conn : Held(d)' <=> Held(d)
    BY <1>2, <1>4, <1>5 DEF Held
<1>7. (\A x : Queued(x)' <=> Queued(x)) /\ (\A x : Off(x)' <=> Off(x))
    BY <1>3 DEF Queued, Off
<1>8. sock'[c] = "closed" /\ \A d \in Conn : sock[d] = "closed" => sock'[d] = "closed"
    BY <1>0, <1>3
<1>9. \A x \in Alloc : conn[x] \in Conn
    BY DEF NInv, AInv, TInv, StructOK, Alloc
<1>10. \A d \in Conn : Live(d)' =>
          (conn[struct[d]] = d /\ ~ closed[struct[d]] /\ sock[d] # "closed")'
  <2> SUFFICES ASSUME NEW d \in Conn, Live(d)'
               PROVE  conn[struct[d]] = d /\ ~ closed'[struct[d]] /\ sock'[d] # "closed"
      BY <1>3
  <2>1. d # c /\ Live(d) /\ Held(d)
      BY <1>5 DEF Held
  <2>2. sock'[d] = sock[d]
      BY <1>0, <1>3, <2>1
  <2> QED BY <1>3, <2>1, <2>2 DEF NInv, PoolInv
<1>11. \A d \in Conn : Held(d)' =>
          (clientPool[struct[d]] = 0 /\ ~ Off(struct[d]) /\ ~ Queued(struct[d]))'
    BY <1>3, <1>6, <1>7 DEF NInv, PoolInv
<1>12. \A d, e \in Conn : Held(d)' /\ Held(e)' /\ struct'[d] = struct'[e] => d = e
    BY <1>3, <1>6 DEF NInv, PoolInv
<1>13. \A i, j \in DOMAIN unregisterChan' : unregisterChan'[i] = unregisterChan'[j] => i = j
    BY <1>3 DEF NInv, PoolInv
<1>14. \A x \in Client : Queued(x)' => clientPool'[x] = 0 /\ ~ Off(x)'
    BY <1>3, <1>7 DEF NInv, PoolInv
<1>15. \A x \in Client : clientPool'[x] <= 1 /\ (Off(x)' => clientPool'[x] = 0)
    BY <1>3, <1>7 DEF NInv, PoolInv
<1>16. \A d \in Conn : (call[d].step = "send")' => sock'[conn'[struct'[d]]] = "closed"
  <2> SUFFICES ASSUME NEW d \in Conn, call'[d].step = "send"
               PROVE  sock'[conn[struct[d]]] = "closed"
      BY <1>3
  <2>1. CASE d = c
      BY <1>2, <1>8, <2>1
  <2>2. CASE d # c
    <3>1. call[d].step = "send" /\ Held(d)
        BY <1>4, <2>2 DEF Held
    <3>2. conn[struct[d]] \in Conn
        BY <1>9, <3>1, InUse DEF NInv
    <3> QED BY <1>8, <3>1, <3>2 DEF NInv, PoolInv
  <2> QED BY <2>1, <2>2
<1>17. \A x \in Client : Queued(x)' \/ Off(x)' => sock'[conn'[x]] = "closed"
  <2> SUFFICES ASSUME NEW x \in Client, Queued(x) \/ Off(x)
               PROVE  sock'[conn[x]] = "closed"
      BY <1>3, <1>7
  <2>1. conn[x] \in Conn
      BY <1>9, InUse DEF NInv
  <2> QED BY <1>8, <2>1 DEF NInv, PoolInv
<1>18. \A d \in Conn : handler'[d] \in Accepted /\ sock'[d] # "closed" =>
          Live(d)' \/ call'[d].step = "shut"
    BY <1>3, <1>4, <1>5, <1>8 DEF NInv, PoolInv
<1>19. \A d \in Conn : call'[d].step = "shut" => (conn[struct[d]] = d /\ sock[d] # "closed")'
  <2>1. \A d \in Conn : call'[d].step = "shut" => d # c /\ call[d].step = "shut"
      BY <1>4
  <2>2. \A d \in Conn : d # c => sock'[d] = sock[d]
      BY <1>0, <1>3
  <2> QED BY <1>3, <2>1, <2>2 DEF NInv, PoolInv
<1>20. PoolInv'
    BY <1>10, <1>11, <1>12, <1>13, <1>14, <1>15, <1>16, <1>17, <1>18, <1>19 DEF PoolInv
<1> QED BY <1>1, <1>2, <1>20

\* A reader hands its struct to the event loop.
LEMMA PoolSend ==
    ASSUME NInv, Policy = DefalutNotKick, NEW c \in Conn, UnRegister(c)
    PROVE  PoolInv'
<1>0. /\ call \in [Thread -> [step : CallStep, cl : Client \union {NoConn},
                              on : Conn \union {NoConn}]]
      /\ c \in Thread /\ unregisterChan \in Seq(Alloc)
    BY ThreadKinds DEF NInv, AInv, TInv, CallOK, ChanOK
<1> DEFINE o == struct[c]
<1>1. call[c].step = "send" /\ call[c].cl = o
    BY DEF UnRegister, NInv, ReadersOnly
<1>2. Held(c) /\ o \in Alloc /\ o \in Client
  <2>1. Held(c)
      BY <1>1 DEF Held
  <2> QED BY <2>1, InUse DEF NInv, Alloc
<1>3. /\ call' = [call EXCEPT ![c] = NoCall] /\ unregisterChan' = Append(unregisterChan, o)
      /\ UNCHANGED <<conf, conn, closed, clientPool, handler, struct, sock, reader, loop>>
    BY <1>1 DEF UnRegister, structVars, connVars, readVars
<1>4. call'[c].step = "none" /\ \A d \in Conn : d # c => call'[d] = call[d]
    BY <1>0, <1>3, ThreadKinds DEF NoCall
<1>5. ~ Held(c)' /\ \A d \in Conn : d # c => (Live(d)' <=> Live(d)) /\ (Held(d)' <=> Held(d))
  <2>1. reader[c] = "exit"
      BY <1>1 DEF NInv, AInv, CallerInv
  <2> QED BY <1>3, <1>4, <2>1 DEF Live, Held
<1>6. \A d \in Conn : Held(d)' => d # c /\ Held(d) /\ struct[d] # o /\ struct[d] \in Client
  <2> SUFFICES ASSUME NEW d \in Conn, Held(d)' PROVE d # c /\ Held(d) /\ struct[d] # o
                                                     /\ struct[d] \in Client
      OBVIOUS
  <2>1. d # c /\ Held(d)
      BY <1>5
  <2> QED BY <1>2, <2>1, InUse DEF NInv, PoolInv, Alloc
<1>7. \A x : Off(x)' <=> Off(x)
    BY <1>3 DEF Off
<1>8. /\ DOMAIN unregisterChan = 1 .. Len(unregisterChan) /\ Len(unregisterChan) \in Nat
      /\ DOMAIN unregisterChan' = 1 .. Len(unregisterChan) + 1
      /\ \A i \in 1 .. Len(unregisterChan) : unregisterChan'[i] = unregisterChan[i]
      /\ unregisterChan'[Len(unregisterChan) + 1] = o
  <2>1. unregisterChan' \in Seq(Alloc) /\ Len(unregisterChan') = Len(unregisterChan) + 1
      BY <1>0, <1>2, <1>3, AppendProperties
  <2> QED BY <1>0, <1>2, <1>3, <2>1, AppendProperties, LenProperties
<1>9. \A x : Queued(x)' => Queued(x) \/ x = o
    BY <1>8 DEF Queued
<1>10. ~ Queued(o) /\ ~ Off(o) /\ clientPool[o] = 0 /\ sock[conn[o]] = "closed"
    BY <1>1, <1>2 DEF NInv, PoolInv
<1>11. \A d \in Conn : Live(d)' =>
          (conn[struct[d]] = d /\ ~ closed[struct[d]] /\ sock[d] # "closed")'
  <2>1. \A d \in Conn : Live(d)' => Live(d)
      BY <1>5 DEF Held
  <2> QED BY <1>3, <2>1 DEF NInv, PoolInv
<1>12. \A d \in Conn : Held(d)' =>
          (clientPool[struct[d]] = 0 /\ ~ Off(struct[d]) /\ ~ Queued(struct[d]))'
    BY <1>3, <1>6, <1>7, <1>9 DEF NInv, PoolInv
<1>13. \A d, e \in Conn : Held(d)' /\ Held(e)' /\ struct'[d] = struct'[e] => d = e
    BY <1>3, <1>6 DEF NInv, PoolInv
<1>14. \A i, j \in DOMAIN unregisterChan' : unregisterChan'[i] = unregisterChan'[j] => i = j
  <2>1. \A i \in 1 .. Len(unregisterChan) : unregisterChan[i] # o
      BY <1>8, <1>10 DEF Queued
  <2>2. \A i \in DOMAIN unregisterChan' : i \in 1 .. Len(unregisterChan) \/ i = Len(unregisterChan) + 1
      BY <1>8
  <2>3. \A i, j \in 1 .. Len(unregisterChan) : unregisterChan[i] = unregisterChan[j] => i = j
      BY <1>8 DEF NInv, PoolInv
  <2> HIDE DEF o
  <2> QED BY <1>8, <2>1, <2>2, <2>3
<1>15. \A x \in Client : Queued(x)' => clientPool'[x] = 0 /\ ~ Off(x)'
    BY <1>3, <1>7, <1>9, <1>10 DEF NInv, PoolInv
<1>16. \A x \in Client : clientPool'[x] <= 1 /\ (Off(x)' => clientPool'[x] = 0)
    BY <1>3, <1>7 DEF NInv, PoolInv
<1>17. \A d \in Conn : (call[d].step = "send")' => sock'[conn'[struct'[d]]] = "closed"
  <2>1. \A d \in Conn : (call[d].step = "send")' => call[d].step = "send"
      BY <1>4
  <2> QED BY <1>3, <2>1 DEF NInv, PoolInv
<1>18. \A x \in Client : Queued(x)' \/ Off(x)' => sock'[conn'[x]] = "closed"
    BY <1>3, <1>7, <1>9, <1>10 DEF NInv, PoolInv
<1>19. \A d \in Conn : handler'[d] \in Accepted /\ sock'[d] # "closed" =>
          Live(d)' \/ call'[d].step = "shut"
  <2>1. ~ Live(c)
    <3>1. reader[c] = "exit"
        BY <1>1 DEF NInv, AInv, CallerInv
    <3> QED BY <1>1, <3>1 DEF Live
  <2> QED BY <1>1, <1>3, <1>4, <1>5, <2>1 DEF NInv, PoolInv
<1>20. \A d \in Conn : call'[d].step = "shut" => (conn[struct[d]] = d /\ sock[d] # "closed")'
  <2>1. \A d \in Conn : call'[d].step = "shut" => call[d].step = "shut"
      BY <1>4
  <2> QED BY <1>3, <2>1 DEF NInv, PoolInv
<1> QED BY <1>11, <1>12, <1>13, <1>14, <1>15, <1>16, <1>17, <1>18, <1>19, <1>20 DEF PoolInv

\* The event loop takes a struct from the channel, and puts it into the pool in the end.
LEMMA PoolPut ==
    ASSUME NInv, Policy = DefalutNotKick, LoopUnregister \/ LoopOffline
    PROVE  PoolInv'
<1>0. unregisterChan \in Seq(Alloc) /\ clientPool \in [Client -> Nat]
    BY DEF NInv, AInv, TInv, ChanOK, StructOK
<1>1. UNCHANGED <<conf, conn, closed, handler, struct, sock, reader, call>>
    BY DEF LoopUnregister, LoopOffline, structVars, connVars, readVars
<1>2. \A d \in Conn : (Live(d)' <=> Live(d)) /\ (Held(d)' <=> Held(d))
    BY <1>1 DEF Live, Held
<1>3. \A d \in Conn : Live(d)' =>
          (conn[struct[d]] = d /\ ~ closed[struct[d]] /\ sock[d] # "closed")'
    BY <1>1, <1>2 DEF NInv, PoolInv
<1>4. \A d, e \in Conn : Held(d)' /\ Held(e)' /\ struct'[d] = struct'[e] => d = e
    BY <1>1, <1>2 DEF NInv, PoolInv
<1>5. \A d \in Conn : (call[d].step = "send")' => sock'[conn'[struct'[d]]] = "closed"
    BY <1>1 DEF NInv, PoolInv
<1>6. /\ \A d \in Conn : handler'[d] \in Accepted /\ sock'[d] # "closed" =>
            Live(d)' \/ call'[d].step = "shut"
      /\ \A d \in Conn : call'[d].step = "shut" => (conn[struct[d]] = d /\ sock[d] # "closed")'
    BY <1>1, <1>2 DEF NInv, PoolInv
<1>7. CASE LoopUnregister
  <2> DEFINE o == Head(unregisterChan)
  <2>1. /\ loop.pc = "idle" /\ unregisterChan # <<>> /\ unregisterChan' = Tail(unregisterChan)
        /\ UNCHANGED clientPool
      BY <1>7 DEF LoopUnregister, structVars
  <2>2. loop'.pc = "unStore" /\ loop'.cl = o
      BY <1>7 DEF LoopUnregister, Idle
  <2>3. /\ 1 \in DOMAIN unregisterChan /\ o = unregisterChan[1]
        /\ \A n \in DOMAIN unregisterChan' :
              n + 1 \in DOMAIN unregisterChan /\ unregisterChan'[n] = unregisterChan[n + 1]
        /\ \A n \in DOMAIN unregisterChan' : n \in Nat /\ n > 0
    <3>1. unregisterChan' \in Seq(Alloc)
        BY <1>0, <2>1, Pop
    <3>2. \A n \in DOMAIN unregisterChan' : n \in Nat /\ n > 0
        BY <3>1, LenProperties
    <3> QED BY <1>0, <2>1, <3>2, Pop
  <2>4. Queued(o)
      BY <2>3 DEF Queued
  <2>5. \A x : (Off(x)' <=> x = o) /\ ~ Off(x)
      BY <2>1, <2>2 DEF Off
  <2> HIDE DEF o
  <2>6. \A x : Queued(x)' => Queued(x) /\ x # o
    <3> SUFFICES ASSUME NEW x, NEW n \in DOMAIN unregisterChan', unregisterChan'[n] = x
                 PROVE  Queued(x) /\ x # o
        BY DEF Queued
    <3>1. n + 1 \in DOMAIN unregisterChan /\ unregisterChan[n + 1] = x /\ n + 1 # 1
        BY <2>3
    <3> QED BY <2>3, <3>1 DEF NInv, PoolInv, Queued
  <2>7. \A d \in Conn : Held(d)' =>
            (clientPool[struct[d]] = 0 /\ ~ Off(struct[d]) /\ ~ Queued(struct[d]))'
    <3> SUFFICES ASSUME NEW d \in Conn, Held(d)
                 PROVE  (clientPool[struct[d]] = 0 /\ ~ Off(struct[d]) /\ ~ Queued(struct[d]))'
        BY <1>2
    <3>1. clientPool[struct[d]] = 0 /\ ~ Queued(struct[d])
        BY DEF NInv, PoolInv
    <3> QED BY <1>1, <2>1, <2>4, <2>5, <2>6, <3>1
  <2>8. \A i, j \in DOMAIN unregisterChan' : unregisterChan'[i] = unregisterChan'[j] => i = j
    <3> SUFFICES ASSUME NEW i \in DOMAIN unregisterChan', NEW j \in DOMAIN unregisterChan',
                        unregisterChan'[i] = unregisterChan'[j]
                 PROVE  i = j
        OBVIOUS
    <3>1. i + 1 = j + 1
        BY <2>3 DEF NInv, PoolInv
    <3> QED BY <2>3, <3>1
  <2>9. \A x \in Client : Queued(x)' => clientPool'[x] = 0 /\ ~ Off(x)'
      BY <2>1, <2>5, <2>6 DEF NInv, PoolInv
  <2>10. \A x \in Client : clientPool'[x] <= 1 /\ (Off(x)' => clientPool'[x] = 0)
      BY <2>1, <2>4, <2>5 DEF NInv, PoolInv
  <2>11. \A x \in Client : Queued(x)' \/ Off(x)' => sock'[conn'[x]] = "closed"
      BY <1>1, <2>4, <2>5, <2>6 DEF NInv, PoolInv
  <2> QED BY <1>3, <1>4, <1>5, <1>6, <2>7, <2>8, <2>9, <2>10, <2>11 DEF PoolInv
<1>8. CASE LoopOffline
  <2> DEFINE o == loop.cl
  <2>1. /\ loop.pc = "offline" /\ clientPool' = [clientPool EXCEPT ![o] = @ + 1]
        /\ loop' = Idle /\ UNCHANGED unregisterChan
      BY <1>8 DEF LoopOffline, chanVars
  <2>2. Off(o)
      BY <2>1 DEF Off
  <2>3. o \in Client /\ clientPool[o] = 0
    <3>1. o \in Client
        BY <2>2, InUse DEF NInv, Alloc
    <3> QED BY <2>2, <3>1 DEF NInv, PoolInv
  <2>4. \A x : ~ Off(x)'
    <3>1. loop'.pc = "idle"
        BY <2>1, IdleTyped
    <3> QED BY <3>1 DEF Off
  <2>5. \A x : Queued(x)' <=> Queued(x)
      BY <2>1 DEF Queued
  <2>6. clientPool'[o] = 1 /\ \A x \in Client : x # o => clientPool'[x] = clientPool[x]
      BY <1>0, <2>1, <2>3
  <2> HIDE DEF o
  <2>7. \A d \in Conn : Held(d)' =>
            (clientPool[struct[d]] = 0 /\ ~ Off(struct[d]) /\ ~ Queued(struct[d]))'
    <3> SUFFICES ASSUME NEW d \in Conn, Held(d)
                 PROVE  (clientPool[struct[d]] = 0 /\ ~ Off(struct[d]) /\ ~ Queued(struct[d]))'
        BY <1>2
    <3>1. clientPool[struct[d]] = 0 /\ ~ Queued(struct[d]) /\ struct[d] # o
        BY <2>2 DEF NInv, PoolInv
    <3>2. struct[d] \in Client
        BY InUse DEF NInv, Alloc
    <3> QED BY <1>1, <2>4, <2>5, <2>6, <3>1, <3>2
  <2>8. \A i, j \in DOMAIN unregisterChan' : unregisterChan'[i] = unregisterChan'[j] => i = j
      BY <2>1 DEF NInv, PoolInv
  <2>9. \A x \in Client : Queued(x)' => clientPool'[x] = 0 /\ ~ Off(x)'
    <3>1. \A x \in Client : Queued(x) => x # o /\ clientPool[x] = 0
        BY <2>2 DEF NInv, PoolInv
    <3> QED BY <2>4, <2>5, <2>6, <3>1
  <2>10. \A x \in Client : clientPool'[x] <= 1 /\ (Off(x)' => clientPool'[x] = 0)
    <3>1. \A x \in Client : clientPool[x] <= 1
        BY DEF NInv, PoolInv
    <3> QED BY <2>4, <2>6, <3>1
  <2>11. \A x \in Client : Queued(x)' \/ Off(x)' => sock'[conn'[x]] = "closed"
      BY <1>1, <2>4, <2>5 DEF NInv, PoolInv
  <2> QED BY <1>3, <1>4, <1>5, <1>6, <2>7, <2>8, <2>9, <2>10, <2>11 DEF PoolInv
<1> QED BY <1>7, <1>8

\* A struct stays in one place, whatever step the node takes.
LEMMA PoolNext ==
    ASSUME KickTarget = {}, NInv, [Next]_vars
    PROVE  PoolInv'
<1>0. /\ Policy' = Policy /\ UNCHANGED conf
      /\ call \in [Thread -> [step : CallStep, cl : Client \union {NoConn},
                              on : Conn \union {NoConn}]]
      /\ loop \in LoopState
      /\ handler \in [Conn -> {"new", "admitted", "refused", "upgraded", "served"}]
      /\ sock \in [Conn -> {"none", "open", "hung", "closed"}]
      /\ reader \in [Conn -> {"none", "start", "read", "request", "logout",
                              "handleRequest", "handleLogout", "exit"}]
      /\ \A d \in Conn : reader[d] # "none" => handler[d] = "served"
      /\ \A d \in Conn : call[d].step # "none" => reader[d] = "exit"
      /\ AInv /\ PoolInv
    BY SameSetting DEF Policy, NInv, AInv, TInv, CallOK, LoopOK, ConnOK, CallerInv
<1> SUFFICES ASSUME Policy = DefalutNotKick PROVE PoolInv'
    BY <1>0 DEF PoolInv
<1>1. CASE UNCHANGED vars
  <2>1. UNCHANGED <<conf, conn, closed, clientPool, struct, unregisterChan, handler, reader,
                    call, loop, sock>>
      BY <1>1 DEF vars
  <2> QED BY <1>0, <2>1, PoolFrame DEF Live, Off
<1>2. ASSUME NEW c \in Conn, WsAdmit(c) \/ WsRefuse(c) \/ WsRegister(c) PROVE PoolInv'
  <2>1. /\ UNCHANGED <<conf, conn, closed, clientPool, struct, unregisterChan, call, loop, sock>>
        /\ \E h : handler' = [handler EXCEPT ![c] = h]
        /\ UNCHANGED reader \/ reader' = [reader EXCEPT ![c] = "start"]
      BY <1>2 DEF WsAdmit, WsRefuse, WsRegister, structVars, readVars, chanVars
  <2>2. handler[c] \in Accepted <=> handler'[c] \in Accepted
      BY <1>0, <1>2 DEF WsAdmit, WsRefuse, WsRegister, Accepted
  <2>3. handler[c] # "served" /\ reader[c] = "none" /\ reader'[c] # "exit"
      BY <1>0, <1>2, <2>1 DEF WsAdmit, WsRefuse, WsRegister
  <2>4. \A d \in Conn : d # c => handler'[d] = handler[d] /\ reader'[d] = reader[d]
      BY <1>0, <2>1
  <2>5. \A d \in Conn : Live(d)' <=> Live(d)
      BY <2>1, <2>2, <2>3, <2>4 DEF Live
  <2>6. \A o : Off(o)' <=> Off(o)
      BY <2>1 DEF Off
  <2>7. \A d \in Conn : handler'[d] \in Accepted <=> handler[d] \in Accepted
      BY <2>2, <2>4
  <2> QED BY <1>0, <2>1, <2>5, <2>6, <2>7, PoolFrame
<1>3. ASSUME NEW c \in Conn, HangUp(c) PROVE PoolInv'
  <2>1. /\ UNCHANGED <<conf, conn, closed, clientPool, struct, unregisterChan, handler, reader,
                       call, loop>>
        /\ sock[c] = "open" /\ sock' = [sock EXCEPT ![c] = "hung"]
      BY <1>3 DEF HangUp, structVars, readVars, chanVars
  <2>2. \A d \in Conn : sock'[d] = "closed" <=> sock[d] = "closed"
      BY <1>0, <2>1
  <2> QED BY <1>0, <2>1, <2>2, PoolFrame DEF Live, Off
<1>4. ASSUME NEW c \in Conn, Reading(c) PROVE PoolInv'
  <2>1. UNCHANGED <<conf, conn, closed, clientPool, struct, unregisterChan, handler, sock, loop>>
      BY <1>4 DEF Reading, ReadCall, ReadError, ReadMessage, CheckClosed, HandleMessage,
                  structVars, connVars, chanVars
  <2>2. reader[c] # "none" /\ reader[c] # "exit"
      BY <1>4 DEF Reading, ReadCall, ReadError, ReadMessage, CheckClosed, HandleMessage
  <2>3. call[c].step = "none" /\ handler[c] \in Accepted
      BY <1>0, <2>2 DEF Accepted
  <2>4. \/ /\ UNCHANGED call
           /\ \E k : k # "exit" /\ reader' = [reader EXCEPT ![c] = k]
        \/ /\ call' = [call EXCEPT ![c] = Call("check", struct[c])]
           /\ reader' = [reader EXCEPT ![c] = "exit"]
    <3>1. CASE ReadCall(c) \/ ReadMessage(c)
        BY <3>1 DEF ReadCall, ReadMessage
    <3>2. CASE ReadError(c)
        BY <3>2 DEF ReadError, Leave
    <3>3. CASE CheckClosed(c)
      <4>1. CASE closed[struct[c]]
          BY <3>3, <4>1 DEF CheckClosed, Leave
      <4>2. CASE ~ closed[struct[c]]
        <5> DEFINE k == IF reader[c] = "request" THEN "handleRequest" ELSE "handleLogout"
        <5>1. UNCHANGED call /\ reader' = [reader EXCEPT ![c] = k] /\ k # "exit"
            BY <1>0, <3>3, <4>2 DEF CheckClosed
        <5> QED BY <5>1
      <4> QED BY <4>1, <4>2
    <3>4. CASE HandleMessage(c)
        BY <3>4 DEF HandleMessage, Leave
    <3> QED BY <1>4, <3>1, <3>2, <3>3, <3>4 DEF Reading
  <2>5. \A d \in Conn : d # c => reader'[d] = reader[d] /\ call'[d] = call[d]
      BY <1>0, <2>4, ThreadKinds
  <2>6. \/ reader'[c] # "exit" /\ call'[c] = call[c]
        \/ reader'[c] = "exit" /\ call'[c].step = "check"
      BY <1>0, <2>4, ThreadKinds DEF Call
  <2>7. \A d \in Conn : Live(d)' <=> Live(d)
      BY <2>1, <2>2, <2>3, <2>5, <2>6 DEF Live
  <2>8. /\ \A d \in Conn : (call[d].step = "send")' <=> call[d].step = "send"
        /\ \A d \in Conn : (call[d].step = "shut")' <=> call[d].step = "shut"
      BY <2>3, <2>5, <2>6
  <2>9. \A o : Off(o)' <=> Off(o)
      BY <2>1 DEF Off
  <2> QED BY <1>0, <2>1, <2>7, <2>8, <2>9, PoolFrame
<1>5. ASSUME NEW c \in Conn, CloseCheck(c) PROVE PoolInv'
  <2>1. /\ UNCHANGED <<conf, conn, closed, clientPool, struct, unregisterChan, handler, reader,
                       sock, loop>>
        /\ call[c].step = "check"
      BY <1>5 DEF CloseCheck, structVars, connVars, readVars, chanVars
  <2>2. Live(c) /\ call[c].cl = struct[c]
    <3>1. handler[c] = "served" /\ call[c].cl = struct[c]
        BY <1>0, <2>1 DEF NInv, ReadersOnly
    <3> QED BY <2>1, <3>1 DEF Live, Accepted
  <2>3. ~ closed[struct[c]]
      BY <2>2 DEF NInv, PoolInv
  <2>4. call' = [call EXCEPT ![c] = Call("lock", struct[c])]
      BY <1>0, <1>5, <2>2, <2>3, ThreadKinds DEF CloseCheck
  <2>5. call'[c].step = "lock" /\ \A d \in Conn : d # c => call'[d] = call[d]
      BY <1>0, <2>4, ThreadKinds DEF Call
  <2>6. \A d \in Conn : Live(d)' <=> Live(d)
      BY <2>1, <2>2, <2>5 DEF Live
  <2>7. /\ \A d \in Conn : (call[d].step = "send")' <=> call[d].step = "send"
        /\ \A d \in Conn : (call[d].step = "shut")' <=> call[d].step = "shut"
      BY <2>1, <2>5
  <2>8. \A o : Off(o)' <=> Off(o)
      BY <2>1 DEF Off
  <2> QED BY <1>0, <2>1, <2>6, <2>7, <2>8, PoolFrame
<1>6. CASE \/ LoopRegister /\ loop'.pc = "set"
           \/ LoopKickInfo /\ loop' = Idle
           \/ LoopSetLoad \/ LoopSetStore \/ LoopOnline \/ LoopUnStore
           \/ \E l \in RemoteLogin : MultiTerminalLoginCheck(l)
  <2>1. UNCHANGED <<conf, conn, closed, clientPool, struct, unregisterChan, handler, reader,
                    sock, call>>
      BY <1>6 DEF LoopRegister, LoopKickInfo, LoopSetLoad, LoopSetStore, LoopOnline, LoopUnStore,
                  MultiTerminalLoginCheck, structVars, connVars, readVars, chanVars
  <2>2. \A o : Off(o)' <=> Off(o)
    <3>1. CASE LoopRegister /\ loop'.pc = "set"
        BY <3>1 DEF LoopRegister, Off
    <3>2. CASE (LoopKickInfo /\ loop' = Idle) \/ LoopOnline
      <4>1. loop.pc \in {"idle", "online"} /\ loop'.pc = "idle"
          BY <3>2, IdleTyped DEF LoopKickInfo, LoopOnline
      <4> QED BY <4>1 DEF Off
    <3>3. CASE LoopSetLoad \/ LoopSetStore
      <4>1. loop.pc \in {"set", "setStore"}
            /\ \E p \in {"setStore", "online"} : \E b, n :
                loop' = [loop EXCEPT !.pc = p, !.buf = b, !.new = n]
          BY <3>3 DEF LoopSetLoad, LoopSetStore
      <4>2. loop'.pc \in {"setStore", "online"}
          BY <1>0, <4>1 DEF LoopState
      <4> QED BY <4>1, <4>2 DEF Off
    <3>4. CASE LoopUnStore
      <4>1. loop.pc = "unStore"
            /\ loop' = [loop EXCEPT !.pc = "offline", !.buf = <<>>, !.new = NoConn]
          BY <3>4 DEF LoopUnStore
      <4>2. loop'.pc = "offline" /\ loop'.cl = loop.cl
          BY <1>0, <4>1 DEF LoopState
      <4> QED BY <4>1, <4>2 DEF Off
    <3>5. CASE \E l \in RemoteLogin : MultiTerminalLoginCheck(l)
        BY <3>5 DEF MultiTerminalLoginCheck, Off
    <3> QED BY <1>6, <3>1, <3>2, <3>3, <3>4, <3>5
  <2>3. \A d \in Conn : Live(d)' <=> Live(d)
      BY <2>1 DEF Live
  <2> QED BY <1>0, <2>1, <2>2, <2>3, PoolFrame
<1>7. CASE Next
  <2>1. CalmStep
      BY <1>7, Calm DEF NInv
  <2>2. CASE \E c \in Conn : Handling(c) \/ HangUp(c) \/ Reading(c)
      BY <1>2, <1>3, <1>4, <2>2, PoolGet DEF Handling
  <2>3. CASE \E c \in Conn : CloseCheck(c) \/ CloseLock(c) \/ ConnClose(c) \/ UnRegister(c)
      BY <1>5, <2>3, PoolMark, PoolShut, PoolSend
  <2>4. CASE LoopUnregister \/ LoopOffline
      BY <2>4, PoolPut
  <2> QED BY <1>6, <2>1, <2>2, <2>3, <2>4 DEF CalmStep
<1> QED BY <1>1, <1>7

\* Without kicks (DefalutNotKick, no KickUserOffline) every accepted connection is counted
\* once and counted off once: onlineUserConnNum is the number of open connections on a
\* quiet node, also when the pool hands structs on.
THEOREM ConnNumExactHolds ==
    ASSUME KickTarget = {}
    PROVE  Spec => []ConnNumExact
<1> DEFINE EInv == NInv /\ FiniteInv /\ (Policy = DefalutNotKick => Surplus = 0)
<1>1. Init => EInv
  <2> SUFFICES ASSUME Init PROVE EInv
      OBVIOUS
  <2>1. AInv /\ FiniteInv /\ Surplus = 0
      BY AInvInit, SurplusInit
  <2>2. ReadersOnly
    <3>1. \A t \in Thread : call[t].step = "none"
        BY DEF Init, NoCall
    <3>2. loop.pc = "idle"
        BY DEF Init, Idle
    <3>3. \A r \in KickRpc : rpc[r].pc = "idle"
        BY DEF Init
    <3> QED BY <3>1, <3>2, <3>3, ThreadKinds DEF ReadersOnly
  <2>3. \A c \in Conn : ~ Live(c) /\ call[c].step = "none"
      BY ThreadKinds DEF Init, Live, Accepted, NoCall
  <2>4. \A o : ~ Off(o) /\ ~ Queued(o)
      BY DEF Init, Off, Queued, Idle
  <2>5. \A o \in Client : clientPool[o] = 0
      BY DEF Init
  <2>6. DOMAIN unregisterChan = {}
      BY DEF Init
  <2>7. \A c \in Conn : handler[c] \notin Accepted
      BY DEF Init, Accepted
  <2>8. PoolInv
      BY <2>3, <2>4, <2>5, <2>6, <2>7 DEF PoolInv, Held
  <2> QED BY <2>1, <2>2, <2>8 DEF NInv
<1>2. EInv /\ [Next]_vars => EInv'
  <2> SUFFICES ASSUME EInv, [Next]_vars PROVE EInv'
      OBVIOUS
  <2>1. NInv'
      BY AInvNext, ReadersOnlyNext, PoolNext DEF NInv
  <2>2. FiniteInv' /\ Policy' = Policy
      BY SurplusNext, SameSetting DEF NInv, Policy
  <2>3. ASSUME Policy = DefalutNotKick PROVE Surplus' = Surplus
    <3>1. ASSUME NEW t \in Thread, ConnClose(t), sock[conn[call[t].cl]] = "closed" PROVE FALSE
      <4>1. t \in Conn
          BY <2>3, <3>1 DEF ConnClose, NInv, ReadersOnly
      <4> QED BY <2>3, <3>1, <4>1, PoolShut
    <3> QED BY <3>1, SurplusNext DEF NInv
  <2> QED BY <2>1, <2>2, <2>3
<1>3. EInv => ConnNumExact
  <2> SUFFICES ASSUME EInv, Quiet, Policy = DefalutNotKick
               PROVE  onlineUserConnNum = Cardinality(Up)
      BY DEF ConnNumExact
  <2>1. Cardinality(Up) \in Nat /\ Surplus = Cardinality(Up) - onlineUserConnNum
      BY QuietCounts DEF NInv
  <2>2. onlineUserConnNum \in Int /\ Surplus = 0
      BY CountTypes DEF NInv, AInv
  <2> QED BY <2>1, <2>2
<1> HIDE DEF EInv
<1> QED BY <1>1, <1>2, <1>3, PTL DEF Spec
-----------------------------------------------------------------------------
(* Whom the user map leads to, when no KickUserOffline is called.          *)

RpcsIdle == \A r \in KickRpc : rpc[r].pc = "idle"

\* Nobody is asked to kick: only the event loop changes the user map.
LEMMA NoRpc ==
    ASSUME KickTarget = {}, RpcsIdle, [Next]_vars
    PROVE  /\ UNCHANGED rpc /\ RpcsIdle'
           /\ \/ UNCHANGED vars
              \/ \E c \in Conn : Handling(c) \/ HangUp(c) \/ Reading(c)
              \/ \E t \in Thread : Closing(t)
              \/ Run
              \/ \E l \in RemoteLogin : MultiTerminalLoginCheck(l)
<1>1. /\ \A r \in KickRpc : ~ Kicking(r)
      /\ ~ \E r \in KickRpc, k \in KickTarget : KickUserOffline(r, k[1], k[2])
    BY DEF RpcsIdle, Kicking, KickLoad, KickStore, KickReturn
<1>2. \/ UNCHANGED vars
      \/ \E c \in Conn : Handling(c) \/ HangUp(c) \/ Reading(c)
      \/ \E t \in Thread : Closing(t)
      \/ Run
      \/ \E l \in RemoteLogin : MultiTerminalLoginCheck(l)
    BY <1>1 DEF Next
<1>3. CASE UNCHANGED vars
    BY <1>2, <1>3 DEF vars, RpcsIdle
<1>4. CASE \E c \in Conn : Handling(c) \/ HangUp(c) \/ Reading(c)
  <2>1. UNCHANGED rpc
      BY <1>4 DEF Handling, WsAdmit, WsRefuse, WsUpgrade, WsRegister, HangUp, Reading, ReadCall,
                  ReadError, ReadMessage, CheckClosed, HandleMessage
  <2> QED BY <1>2, <2>1 DEF RpcsIdle
<1>5. CASE \E t \in Thread : Closing(t)
  <2>1. UNCHANGED rpc
      BY <1>5 DEF Closing, KickWrite, CloseCheck, CloseLock, ConnClose, UnRegister
  <2> QED BY <1>2, <2>1 DEF RpcsIdle
<1>6. CASE Run \/ \E l \in RemoteLogin : MultiTerminalLoginCheck(l)
  <2>1. UNCHANGED rpc
      BY <1>6 DEF Run, LoopRegister, LoopKickInfo, LoopDeleteLoad, LoopDeleteStore, LoopKick,
                  LoopTokens, LoopSetLoad, LoopSetStore, LoopOnline, LoopUnregister, LoopUnStore,
                  LoopOffline, MultiTerminalLoginCheck
  <2> QED BY <1>2, <2>1 DEF RpcsIdle
<1> QED BY <1>2, <1>3, <1>4, <1>5, <1>6

\* Without reuse a connection holds the struct named after it, and what is on its way to
\* be unregistered is closed.
HomeInv ==
    ~ PoolReuse =>
        /\ \A c \in Conn : struct[c] \in {c, NoConn}
        /\ \A t \in Thread : call[t].step = "send" => sock[call[t].cl] = "closed"
        /\ \A o \in Client : Queued(o) \/ Off(o) => sock[o] = "closed"

\* A step that starts no unregistration.
LEMMA HomeFrame ==
    ASSUME AInv, HomeInv, [Next]_vars,
           \A c \in Conn : struct'[c] = struct[c] \/ struct'[c] = c,
           \A t \in Thread : call'[t].step = "send" =>
               \/ call[t].step = "send" /\ call'[t].cl = call[t].cl
               \/ sock'[call'[t].cl] = "closed",
           \A o \in Client : Queued(o)' \/ Off(o)' =>
               Queued(o) \/ Off(o) \/ sock[o] = "closed"
    PROVE  HomeInv'
<1>0. PoolReuse' = PoolReuse
    BY SameSetting DEF PoolReuse
<1> SUFFICES ASSUME ~ PoolReuse PROVE HomeInv'
    BY <1>0 DEF HomeInv
<1>1. \A c \in Conn : sock[c] = "closed" => sock'[c] = "closed"
    BY ShutStays
<1>2. \A t \in Thread : call[t].step = "send" => call[t].cl \in Conn
    BY DEF AInv, TInv, CallOK, Alloc, Client
<1>3. \A c \in Conn : struct'[c] \in {c, NoConn}
    BY DEF HomeInv
<1>4. \A t \in Thread : call'[t].step = "send" => sock'[call'[t].cl] = "closed"
    BY <1>1, <1>2 DEF HomeInv
<1>5. \A o \in Client : Queued(o)' \/ Off(o)' => sock'[o] = "closed"
    BY <1>1 DEF HomeInv, Client
<1> QED BY <1>3, <1>4, <1>5 DEF HomeInv

\* A call that changes.
LEMMA CallChange ==
    ASSUME AInv, NEW t \in Thread, NEW n, call' = [call EXCEPT ![t] = n]
    PROVE  call'[t] = n /\ \A s \in Thread : s # t => call'[s] = call[s]
BY DEF AInv, TInv, CallOK

\* Structs that are on their way to be unregistered, without reuse.
LEMMA HomeNext ==
    ASSUME KickTarget = {}, RpcsIdle, AInv, OwnInv, HomeInv, [Next]_vars
    PROVE  HomeInv'
<1>0. /\ UNCHANGED conf /\ PoolReuse' = PoolReuse
      /\ call \in [Thread -> [step : CallStep, cl : Client \union {NoConn},
                              on : Conn \union {NoConn}]]
      /\ struct \in [Conn -> Client \union {NoConn}]
      /\ sock \in [Conn -> {"none", "open", "hung", "closed"}]
      /\ loop \in LoopState /\ unregisterChan \in Seq(Alloc)
    BY SameSetting DEF PoolReuse, AInv, TInv, CallOK, ConnOK, LoopOK, ChanOK
<1> SUFFICES ASSUME ~ PoolReuse PROVE HomeInv'
    BY <1>0 DEF HomeInv
<1>1. ASSUME UNCHANGED <<call, unregisterChan, loop>>,
             \A c \in Conn : struct'[c] = struct[c] \/ struct'[c] = c
      PROVE  HomeInv'
  <2>1. \A o \in Client : Queued(o)' \/ Off(o)' => Queued(o) \/ Off(o)
      BY <1>1 DEF Queued, Off
  <2> QED BY <1>1, <2>1, HomeFrame
<1>2. CASE UNCHANGED vars
  <2>1. UNCHANGED <<call, unregisterChan, loop, struct>>
      BY <1>2 DEF vars
  <2> QED BY <1>1, <2>1
<1>3. ASSUME NEW c \in Conn, Handling(c) \/ HangUp(c) PROVE HomeInv'
  <2>1. UNCHANGED <<call, unregisterChan, loop>>
        /\ (UNCHANGED struct \/ struct' = [struct EXCEPT ![c] = c])
      BY <1>3 DEF Handling, WsAdmit, WsRefuse, WsUpgrade, WsRegister, HangUp, chanVars
  <2>2. \A d \in Conn : struct'[d] = struct[d] \/ struct'[d] = d
      BY <1>0, <2>1
  <2> QED BY <1>1, <2>1, <2>2
<1>4. ASSUME NEW t \in Thread, NEW n, call' = [call EXCEPT ![t] = n], n.step # "send",
             UNCHANGED struct, \A o \in Client : Queued(o)' \/ Off(o)' =>
                                   Queued(o) \/ Off(o) \/ sock[o] = "closed"
      PROVE  HomeInv'
  <2>1. \A s \in Thread : call'[s].step = "send" => call'[s] = call[s]
      BY <1>4, CallChange
  <2> QED BY <1>4, <2>1, HomeFrame
<1>5. ASSUME NEW c \in Conn, Reading(c) PROVE HomeInv'
  <2>1. /\ UNCHANGED <<struct, unregisterChan, loop>>
        /\ UNCHANGED call \/ call' = [call EXCEPT ![c] = Call("check", struct[c])]
      BY <1>5 DEF Reading, ReadCall, ReadError, ReadMessage, CheckClosed, HandleMessage, Leave,
                  connVars, chanVars
  <2>2. CASE UNCHANGED call
      BY <1>1, <2>1, <2>2
  <2>3. CASE call' = [call EXCEPT ![c] = Call("check", struct[c])]
    <3>1. Call("check", struct[c]).step # "send"
        BY DEF Call
    <3>2. \A o \in Client : Queued(o)' \/ Off(o)' => Queued(o) \/ Off(o)
        BY <2>1 DEF Queued, Off
    <3> QED BY <1>4, <2>1, <2>3, <3>1, <3>2, ThreadKinds
  <2> QED BY <2>1, <2>2, <2>3
<1>6. ASSUME NEW t \in Thread, Closing(t) PROVE HomeInv'
  <2>1. UNCHANGED <<struct, loop>>
      BY <1>6 DEF Closing, KickWrite, CloseCheck, CloseLock, ConnClose, UnRegister, connVars
  <2>2. CASE KickWrite(t) \/ CloseCheck(t) \/ CloseLock(t)
    <3>1. UNCHANGED unregisterChan
        BY <2>2 DEF KickWrite, CloseCheck, CloseLock, chanVars
    <3>2. \A o \in Client : Queued(o)' \/ Off(o)' => Queued(o) \/ Off(o)
        BY <2>1, <3>1 DEF Queued, Off
    <3>3. \E n : call' = [call EXCEPT ![t] = n] /\ n.step # "send"
      <4>1. CASE KickWrite(t)
        <5> DEFINE n == [call[t] EXCEPT !.step = "check"]
        <5>1. call' = [call EXCEPT ![t] = n]
            BY <4>1 DEF KickWrite
        <5>2. n.step # "send"
            BY <1>0
        <5> QED BY <5>1, <5>2
      <4>2. CASE CloseCheck(t)
        <5> DEFINE n == IF closed[call[t].cl] THEN NoCall ELSE Call("lock", call[t].cl)
        <5>1. call' = [call EXCEPT ![t] = n]
            BY <1>0, <4>2 DEF CloseCheck
        <5>2. n.step # "send"
            BY DEF NoCall, Call
        <5> QED BY <5>1, <5>2
      <4>3. CASE CloseLock(t)
        <5> DEFINE n == [step |-> "shut", cl |-> call[t].cl, on |-> conn[call[t].cl]]
        <5>1. call' = [call EXCEPT ![t] = n] /\ n.step # "send"
            BY <4>3 DEF CloseLock
        <5> HIDE DEF n
        <5> QED BY <5>1
      <4> QED BY <2>2, <4>1, <4>2, <4>3
    <3> QED BY <1>4, <2>1, <3>2, <3>3
  <2>3. CASE ConnClose(t)
    <3> DEFINE x == call[t].cl
               n == [call[t] EXCEPT !.step = "send"]
    <3>1. /\ call[t].step = "shut" /\ UNCHANGED unregisterChan
          /\ call' = [call EXCEPT ![t] = n] /\ sock' = [sock EXCEPT ![conn[x]] = "closed"]
        BY <2>3 DEF ConnClose, chanVars
    <3>2. x \in Alloc
        BY <3>1 DEF AInv, TInv, CallOK
    <3>3. conn[x] = x /\ x \in Conn
        BY <3>2 DEF OwnInv, Alloc, Client
    <3>4. sock'[x] = "closed" /\ n.cl = x
        BY <1>0, <3>1, <3>3
    <3> HIDE DEF n, x
    <3>5. call'[t] = n /\ \A s \in Thread : s # t => call'[s] = call[s]
        BY <3>1, CallChange
    <3>6. \A o \in Client : Queued(o)' \/ Off(o)' => Queued(o) \/ Off(o)
        BY <2>1, <3>1 DEF Queued, Off
    <3> QED BY <2>1, <3>4, <3>5, <3>6, HomeFrame
  <2>4. CASE UnRegister(t)
    <3> DEFINE x == call[t].cl
    <3>1. /\ call[t].step = "send" /\ unregisterChan' = Append(unregisterChan, x)
          /\ call' = [call EXCEPT ![t] = NoCall]
        BY <2>4 DEF UnRegister
    <3>2. x \in Alloc /\ sock[x] = "closed"
        BY <3>1 DEF AInv, TInv, CallOK, HomeInv
    <3> HIDE DEF x
    <3>3. \A o : Queued(o)' => Queued(o) \/ o = x
      <4>1. /\ DOMAIN unregisterChan' = 1 .. Len(unregisterChan) + 1
            /\ DOMAIN unregisterChan = 1 .. Len(unregisterChan) /\ Len(unregisterChan) \in Nat
            /\ \A i \in 1 .. Len(unregisterChan) : unregisterChan'[i] = unregisterChan[i]
            /\ unregisterChan'[Len(unregisterChan) + 1] = x
        <5>1. unregisterChan' \in Seq(Alloc) /\ Len(unregisterChan') = Len(unregisterChan) + 1
            BY <1>0, <3>1, <3>2, AppendProperties
        <5> QED BY <1>0, <3>1, <3>2, <5>1, AppendProperties, LenProperties
      <4> QED BY <4>1 DEF Queued
    <3>4. \A o : Off(o)' <=> Off(o)
        BY <2>1 DEF Off
    <3>5. NoCall.step # "send"
        BY DEF NoCall
    <3> QED BY <1>4, <2>1, <3>1, <3>2, <3>3, <3>4, <3>5
  <2> QED BY <1>6, <2>2, <2>3, <2>4 DEF Closing
<1>7. CASE LoopUnregister
  <2> DEFINE x == Head(unregisterChan)
  <2>1. /\ unregisterChan # <<>> /\ unregisterChan' = Tail(unregisterChan)
        /\ UNCHANGED <<call, struct>>
      BY <1>7 DEF LoopUnregister, connVars
  <2>2. loop'.pc = "unStore" /\ loop'.cl = x
      BY <1>7 DEF LoopUnregister, Idle
  <2>3. /\ 1 \in DOMAIN unregisterChan /\ x = unregisterChan[1]
        /\ \A n \in DOMAIN unregisterChan' :
              n + 1 \in DOMAIN unregisterChan /\ unregisterChan'[n] = unregisterChan[n + 1]
      BY <1>0, <2>1, Pop
  <2>4. \A o : Off(o)' => o = x
      BY <2>2 DEF Off
  <2> HIDE DEF x
  <2>5. Queued(x) /\ \A o : Queued(o)' => Queued(o)
      BY <2>3 DEF Queued
  <2> QED BY <2>1, <2>4, <2>5, HomeFrame
<1>8. CASE Run /\ ~ LoopUnregister
  <2>1. UNCHANGED <<unregisterChan, struct>>
      BY <1>8 DEF Run, LoopRegister, LoopKickInfo, LoopDeleteLoad, LoopDeleteStore, LoopKick,
                  LoopTokens, LoopSetLoad, LoopSetStore, LoopOnline, LoopUnStore,
                  LoopOffline, chanVars, connVars
  <2>2. \A o : Off(o)' => Off(o)
    <3>1. CASE LoopRegister \/ LoopKickInfo
      <4>1. CASE LoopRegister
        <5>1. loop'.pc \in {"delete", "set"}
            BY <4>1 DEF LoopRegister, Idle
        <5> QED BY <5>1 DEF Off
      <4>2. CASE LoopKickInfo
        <5>1. loop'.pc \in {"delete", "idle"}
            BY <4>2 DEF LoopKickInfo, Idle
        <5> QED BY <5>1 DEF Off
      <4> QED BY <3>1, <4>1, <4>2
    <3>2. CASE LoopDeleteLoad \/ LoopDeleteStore \/ LoopSetLoad \/ LoopSetStore
      <4>1. CASE LoopDeleteLoad
        <5>1. loop'.pc = "deleteStore"
            BY <1>0, <4>1 DEF LoopDeleteLoad, LoopState
        <5> QED BY <5>1 DEF Off
      <4>2. CASE LoopDeleteStore
        <5>1. loop'.pc = "kick"
            BY <1>0, <4>2 DEF LoopDeleteStore, LoopState
        <5> QED BY <5>1 DEF Off
      <4>3. CASE LoopSetLoad
        <5>1. loop'.pc = "setStore"
            BY <1>0, <4>3 DEF LoopSetLoad, LoopState
        <5> QED BY <5>1 DEF Off
      <4>4. CASE LoopSetStore
        <5>1. loop'.pc = "online"
            BY <1>0, <4>4 DEF LoopSetStore, LoopState
        <5> QED BY <5>1 DEF Off
      <4> QED BY <3>2, <4>1, <4>2, <4>3, <4>4
    <3>3. CASE LoopKick
      <4>1. loop.pc = "kick" /\ loop' = [loop EXCEPT !.old = Tail(@)]
          BY <3>3 DEF LoopKick
      <4>2. loop'.pc = "kick"
          BY <1>0, <4>1 DEF LoopState
      <4> QED BY <4>2 DEF Off
    <3>4. CASE LoopTokens \/ LoopOnline \/ LoopOffline
      <4>1. loop' = Idle \/ loop' = [loop EXCEPT !.pc = "set"]
          BY <3>4 DEF LoopTokens, LoopOnline, LoopOffline
      <4>2. loop'.pc \in {"idle", "set"}
          BY <1>0, <4>1, IdleTyped DEF LoopState
      <4> QED BY <4>2 DEF Off
    <3>5. CASE LoopUnStore
      <4>1. loop.pc = "unStore"
            /\ loop' = [loop EXCEPT !.pc = "offline", !.buf = <<>>, !.new = NoConn]
          BY <3>5 DEF LoopUnStore
      <4>2. loop'.cl = loop.cl
          BY <1>0, <4>1 DEF LoopState
      <4> QED BY <4>1, <4>2 DEF Off
    <3> QED BY <1>8, <3>1, <3>2, <3>3, <3>4, <3>5 DEF Run
  <2>3. \A o \in Client : Queued(o)' \/ Off(o)' => Queued(o) \/ Off(o)
      BY <2>1, <2>2 DEF Queued
  <2>4. CASE LoopKick
    <3>1. call' = [call EXCEPT ![Loop] = Call("write", Head(loop.old))]
        BY <2>4 DEF LoopKick
    <3>2. Call("write", Head(loop.old)).step # "send"
        BY DEF Call
    <3> QED BY <1>4, <2>1, <2>3, <3>1, <3>2, ThreadKinds
  <2>5. CASE ~ LoopKick
    <3>1. UNCHANGED call
        BY <1>8, <2>5 DEF Run, LoopRegister, LoopKickInfo, LoopDeleteLoad, LoopDeleteStore,
                LoopTokens, LoopSetLoad, LoopSetStore, LoopOnline, LoopUnStore, LoopOffline
    <3> QED BY <2>1, <2>3, <3>1, HomeFrame
  <2> QED BY <2>4, <2>5
<1>9. CASE \E l \in RemoteLogin : MultiTerminalLoginCheck(l)
  <2>1. UNCHANGED <<call, unregisterChan, loop, struct>>
      BY <1>9 DEF MultiTerminalLoginCheck, connVars
  <2> QED BY <1>1, <2>1
<1> QED BY <1>2, <1>3, <1>5, <1>6, <1>7, <1>8, <1>9, NoRpc

\* Is struct o in a slice or a channel?
Has(q, o) == \E i \in DOMAIN q : q[i] = o

\* What Append, Tail and the loops of delete and deleteClients do to the elements.
LEMMA HasAppend ==
    ASSUME NEW S, NEW q \in Seq(S), NEW e \in S
    PROVE  \A o : Has(Append(q, e), o) <=> Has(q, o) \/ o = e
<1> DEFINE a == Append(q, e)
<1>1. /\ a \in Seq(S) /\ Len(a) = Len(q) + 1 /\ a[Len(q) + 1] = e
      /\ \A i \in 1 .. Len(q) : a[i] = q[i]
    BY AppendProperties
<1>2. DOMAIN a = 1 .. Len(q) + 1 /\ DOMAIN q = 1 .. Len(q) /\ Len(q) \in Nat
    BY <1>1, LenProperties
<1> HIDE DEF a
<1>3. \A i \in 1 .. Len(q) + 1 : i \in 1 .. Len(q) \/ i = Len(q) + 1
    BY <1>2
<1>4. \A o : Has(a, o) <=> Has(q, o) \/ o = e
    BY <1>1, <1>2, <1>3 DEF Has
<1> QED BY <1>4 DEF a

LEMMA HasPop ==
    ASSUME NEW S, NEW q \in Seq(S), q # <<>>
    PROVE  \A o : Has(q, o) <=> o = Head(q) \/ Has(Tail(q), o)
BY Pop DEF Has

LEMMA HasWithout ==
    ASSUME NEW q \in Seq(Alloc), NEW gone
    PROVE  \A o : Has(Without(q, gone), o) <=> Has(q, o) /\ conn[o] \notin gone
<1> DEFINE w == Without(q, gone)
<1>1. /\ \A n \in DOMAIN w : \E k \in DOMAIN q : w[n] = q[k] /\ conn[q[k]] \notin gone
      /\ \A k \in DOMAIN q : conn[q[k]] \notin gone => \E n \in DOMAIN w : w[n] = q[k]
    BY WithoutSlice
<1> HIDE DEF w
<1>2. \A o : Has(w, o) <=> Has(q, o) /\ conn[o] \notin gone
    BY <1>1 DEF Has
<1> QED BY <1>2 DEF w

LEMMA HasType ==
    ASSUME NEW S, NEW q \in Seq(S), NEW o, Has(q, o)
    PROVE  o \in S
BY ElementOfSeq, LenProperties DEF Has

\* The struct of an open connection serves it and has the closed flag only while a goroutine
\* is about to close the socket; a struct on its way to be unregistered serves a closed one.
Sound ==
    /\ \A c \in Conn : handler[c] \in Accepted /\ sock[c] # "closed" =>
          conn[struct[c]] = c /\ (closed[struct[c]] => Marked(struct[c]))
    /\ \A o \in Client : Queued(o) \/ Off(o) => sock[conn[o]] = "closed"

\* Structs are sound where the pool hands none on, and where nothing is kicked.
LEMMA SoundHere ==
    ASSUME NInv, OwnInv, HomeInv, ~ PoolReuse \/ Policy = DefalutNotKick
    PROVE  Sound
<1>1. CASE ~ PoolReuse
  <2>1. \A c \in Conn : handler[c] \in Accepted => struct[c] \in Alloc /\ c # NoConn
      BY GatewayAssumption DEF NInv, AInv, TInv, ConnOK, Accepted
  <2>2. \A c \in Conn : handler[c] \in Accepted => struct[c] = c /\ c \in Alloc
      BY <1>1, <2>1, GatewayAssumption DEF HomeInv, Alloc, Client
  <2>3. \A c \in Conn : handler[c] \in Accepted /\ sock[c] # "closed" =>
            conn[struct[c]] = c /\ (closed[struct[c]] => Marked(struct[c]))
      BY <1>1, <2>2 DEF OwnInv, Client
  <2>4. \A o \in Client : Queued(o) \/ Off(o) => o \in Alloc
      BY InUse DEF NInv
  <2> QED BY <1>1, <2>3, <2>4 DEF OwnInv, HomeInv, Sound
<1>2. CASE Policy = DefalutNotKick
  <2>1. \A c \in Conn : call[c].step = "shut" => Marked(struct[c])
      BY <1>2, ThreadKinds DEF NInv, ReadersOnly, Marked
  <2> QED BY <1>2, <2>1 DEF NInv, PoolInv, Sound
<1> QED BY <1>1, <1>2

\* Where the struct of a connection that was accepted is until the user map leads to it,
\* and after the map was changed for a kick.
Open(c) == handler[c] = "served" /\ sock[c] # "closed" /\ ~ Marked(struct[c])
Entering(o) == /\ loop.pc \in {"delete", "deleteStore", "kick", "set"}
               /\ ~ loop.remote /\ loop.cl = o
Storing(o, u) == loop.pc = "setStore" /\ loop.cl = o /\ loop.new.user = u
KickDue(o) == (loop.pc = "kick" /\ Has(loop.old, o)) \/ Closes(Loop, o)
Placed(o, u) ==
    Has(registerChan, o) \/ Entering(o) \/ Storing(o, u) \/ Has(clients[u], o) \/ KickDue(o)

ReachInv == \A c \in Conn : Open(c) => Placed(struct[c], ConnUser[c])

\* The slice that the event loop is about to store has the structs that are stored now,
\* but for those it takes out.
BufInv ==
    /\ loop.pc = "deleteStore" =>
          \A o : Has(clients[loop.new.user], o) => Has(loop.buf, o) \/ Has(loop.old, o)
    /\ loop.pc = "setStore" =>
          /\ Has(loop.buf, loop.cl)
          /\ \A o : Has(clients[loop.new.user], o) => Has(loop.buf, o)
    /\ loop.pc = "unStore" =>
          \A o : Has(clients[loop.new.user], o) => Has(loop.buf, o) \/ o = loop.cl

\* Steps of others than the event loop.
LEMMA ReachFrame ==
    ASSUME ReachInv, BufInv, UNCHANGED <<conf, clients, loop>>,
           \A o : Has(registerChan, o) => Has(registerChan', o),
           \A c \in Conn : Open(c)' => \/ Open(c) /\ struct'[c] = struct[c]
                                       \/ Has(registerChan', struct'[c]),
           \A c \in Conn : \A o :
               Open(c)' /\ struct[c] = o /\ Closes(Loop, o) => Closes(Loop, o)'
    PROVE  ReachInv' /\ BufInv'
<1>1. BufInv'
    BY DEF BufInv
<1>2. ASSUME NEW c \in Conn, Open(c)' PROVE Placed(struct[c], ConnUser[c])'
  <2>1. CASE Has(registerChan', struct'[c])
      BY <2>1 DEF Placed
  <2>2. CASE Open(c) /\ struct'[c] = struct[c]
    <3>1. Placed(struct[c], ConnUser[c])
        BY <2>2 DEF ReachInv
    <3>2. CASE Has(registerChan, struct[c])
        BY <2>2, <3>2 DEF Placed
    <3>3. CASE Entering(struct[c]) \/ Storing(struct[c], ConnUser[c])
               \/ Has(clients[ConnUser[c]], struct[c])
        BY <2>2, <3>3 DEF Placed, Entering, Storing, ConnUser
    <3>4. CASE KickDue(struct[c])
      <4>1. Closes(Loop, struct[c]) => Closes(Loop, struct[c])'
          BY <1>2, <2>2
      <4> QED BY <2>2, <3>4, <4>1 DEF Placed, KickDue
    <3> QED BY <3>1, <3>2, <3>3, <3>4 DEF Placed
  <2> QED BY <1>2, <2>1, <2>2
<1> QED BY <1>1, <1>2 DEF ReachInv

\* Handlers, readers and close: a connection enters by registerChan, and a kick closes the
\* socket before the call is over.
LEMMA ReachOther ==
    ASSUME AInv, Sound, ReachInv, BufInv, [Next]_vars,
           \/ UNCHANGED vars
           \/ \E c \in Conn : Handling(c) \/ HangUp(c) \/ Reading(c)
           \/ \E t \in Thread : Closing(t)
           \/ \E l \in RemoteLogin : MultiTerminalLoginCheck(l)
    PROVE  ReachInv' /\ BufInv'
<1>0. /\ call \in [Thread -> [step : CallStep, cl : Client \union {NoConn},
                              on : Conn \union {NoConn}]]
      /\ handler \in [Conn -> {"new", "admitted", "refused", "upgraded", "served"}]
      /\ sock \in [Conn -> {"none", "open", "hung", "closed"}]
      /\ struct \in [Conn -> Client \union {NoConn}]
      /\ registerChan \in Seq(Alloc)
    BY DEF AInv, TInv, CallOK, ConnOK, ChanOK
<1>1. /\ \A c \in Conn : sock'[c] # "closed" => sock[c] # "closed"
      /\ \A c \in Conn : handler[c] \in Accepted /\ sock'[c] # "closed" /\ ~ Marked(struct[c])'
                          /\ struct'[c] = struct[c] => ~ Marked(struct[c])
  <2>1. \A c \in Conn : sock'[c] # "closed" => sock[c] # "closed"
      BY ShutStays
  <2>2. ASSUME NEW c \in Conn, handler[c] \in Accepted, sock'[c] # "closed", Marked(struct[c]),
               struct'[c] = struct[c]
        PROVE  Marked(struct[c])'
    <3>1. struct[c] \in Alloc /\ conn[struct[c]] = c
        BY <2>1, <2>2 DEF AInv, TInv, ConnOK, Accepted, Sound
    <3>2. \A o \in Alloc : Marked(o) => Marked(o)' \/ sock'[conn[o]] = "closed"
        BY MarkedStays
    <3>3. Marked(struct[c])' <=> \E t \in Thread : call'[t].step = "shut" /\ call'[t].cl = struct[c]
        BY <2>2 DEF Marked
    <3>4. \A o : Marked(o)' <=> \E t \in Thread : call'[t].step = "shut" /\ call'[t].cl = o
        BY DEF Marked
    <3> QED BY <2>2, <3>1, <3>2, <3>3, <3>4
  <2> QED BY <2>1, <2>2
<1>2. ASSUME UNCHANGED <<conf, clients, loop, registerChan, call, struct>>,
             \A c \in Conn : handler'[c] = "served" => handler[c] = "served"
      PROVE  ReachInv' /\ BufInv'
  <2>1. \A c \in Conn : Open(c)' => Open(c)
      BY <1>1, <1>2 DEF Open, Accepted
  <2>2. \A o : Closes(Loop, o) => Closes(Loop, o)'
      BY <1>2 DEF Closes
  <2> QED BY <1>2, <2>1, <2>2, ReachFrame
<1>3. CASE UNCHANGED vars
  <2>1. UNCHANGED <<conf, clients, loop, registerChan, call, struct, handler>>
      BY <1>3 DEF vars
  <2> QED BY <1>2, <2>1
<1>4. ASSUME NEW c \in Conn, WsAdmit(c) \/ WsRefuse(c) \/ HangUp(c) PROVE ReachInv' /\ BufInv'
  <2>1. /\ UNCHANGED <<conf, clients, loop, registerChan, call, struct>>
        /\ \/ UNCHANGED handler
           \/ \E h \in {"refused", "admitted"} : handler' = [handler EXCEPT ![c] = h]
      BY <1>4 DEF WsAdmit, WsRefuse, HangUp, chanVars
  <2>2. \A d \in Conn : handler'[d] = "served" => handler[d] = "served"
      BY <1>0, <2>1
  <2> QED BY <1>2, <2>1, <2>2
<1>5. ASSUME NEW c \in Conn, WsUpgrade(c) PROVE ReachInv' /\ BufInv'
  <2>1. /\ UNCHANGED <<conf, clients, loop, registerChan, call>>
        /\ \E o : struct' = [struct EXCEPT ![c] = o]
        /\ handler' = [handler EXCEPT ![c] = "upgraded"]
      BY <1>5 DEF WsUpgrade, chanVars
  <2>2. \A d \in Conn : handler'[d] = "served" => handler[d] = "served" /\ struct'[d] = struct[d]
      BY <1>0, <2>1
  <2>3. \A d \in Conn : Open(d)' => Open(d) /\ struct'[d] = struct[d]
      BY <1>1, <2>2 DEF Open, Accepted
  <2>4. \A o : Closes(Loop, o) => Closes(Loop, o)'
      BY <2>1 DEF Closes
  <2> QED BY <2>1, <2>3, <2>4, ReachFrame
<1>6. ASSUME NEW c \in Conn, WsRegister(c) PROVE ReachInv' /\ BufInv'
  <2>1. /\ UNCHANGED <<conf, clients, loop, call, struct>>
        /\ handler[c] = "upgraded" /\ handler' = [handler EXCEPT ![c] = "served"]
        /\ registerChan' = Append(registerChan, struct[c])
      BY <1>6 DEF WsRegister
  <2>2. struct[c] \in Alloc
      BY <2>1 DEF AInv, TInv, ConnOK
  <2>3. \A o : Has(registerChan', o) <=> Has(registerChan, o) \/ o = struct[c]
      BY <1>0, <2>1, <2>2, HasAppend
  <2>4. \A d \in Conn : Open(d)' => Open(d) \/ d = c
      BY <1>0, <1>1, <2>1 DEF Open, Accepted
  <2>5. \A o : Closes(Loop, o) => Closes(Loop, o)'
      BY <2>1 DEF Closes
  <2> QED BY <2>1, <2>3, <2>4, <2>5, ReachFrame
<1>7. ASSUME NEW t \in Thread, NEW n, call' = [call EXCEPT ![t] = n],
             UNCHANGED <<conf, clients, loop, registerChan, struct, handler>>,
             t = Loop => \A c \in Conn : \A o :
                 Open(c)' /\ struct[c] = o /\ Closes(Loop, o)
                     => n.cl = o /\ n.step \in {"write", "check", "lock"}
      PROVE  ReachInv' /\ BufInv'
  <2>1. call'[t] = n /\ \A s \in Thread : s # t => call'[s] = call[s]
      BY <1>7, CallChange
  <2>2. \A c \in Conn : Open(c)' => Open(c)
      BY <1>1, <1>7 DEF Open, Accepted
  <2>3. \A c \in Conn : \A o :
            Open(c)' /\ struct[c] = o /\ Closes(Loop, o) => Closes(Loop, o)'
      BY <1>7, <2>1, ThreadKinds DEF Closes
  <2> QED BY <1>7, <2>2, <2>3, ReachFrame
<1>8. ASSUME NEW c \in Conn, Reading(c) PROVE ReachInv' /\ BufInv'
  <2>1. /\ UNCHANGED <<conf, clients, loop, registerChan, struct, handler>>
        /\ UNCHANGED call \/ call' = [call EXCEPT ![c] = Call("check", struct[c])]
      BY <1>8 DEF Reading, ReadCall, ReadError, ReadMessage, CheckClosed, HandleMessage, Leave,
                  connVars, chanVars
  <2>2. CASE UNCHANGED call
      BY <1>2, <2>1, <2>2
  <2>3. CASE call' = [call EXCEPT ![c] = Call("check", struct[c])]
      BY <1>7, <2>1, <2>3, ThreadKinds
  <2> QED BY <2>1, <2>2, <2>3
<1>9. ASSUME NEW t \in Thread, Closing(t) PROVE ReachInv' /\ BufInv'
  <2>1. UNCHANGED <<conf, clients, loop, registerChan, struct, handler>>
      BY <1>9 DEF Closing, KickWrite, CloseCheck, CloseLock, ConnClose, UnRegister, connVars, chanVars
  <2>2. CASE KickWrite(t)
    <3> DEFINE n == [call[t] EXCEPT !.step = "check"]
    <3>1. call' = [call EXCEPT ![t] = n]
        BY <2>2 DEF KickWrite
    <3>2. n.step = "check" /\ n.cl = call[t].cl
        BY <1>0
    <3> HIDE DEF n
    <3>3. \A o : Closes(t, o) => n.cl = o /\ n.step \in {"write", "check", "lock"}
        BY <3>2 DEF Closes
    <3> QED BY <1>7, <2>1, <3>1, <3>3
  <2>3. CASE CloseCheck(t)
    <3> DEFINE n == IF closed[call[t].cl] THEN NoCall ELSE Call("lock", call[t].cl)
    <3>1. call' = [call EXCEPT ![t] = n]
        BY <1>0, <2>3 DEF CloseCheck
    <3>2. ~ closed[call[t].cl] => n.step = "lock" /\ n.cl = call[t].cl
        BY DEF Call
    <3> HIDE DEF n
    <3>3. \A c \in Conn : Open(c)' => ~ closed[struct[c]]
      <4>1. \A c \in Conn : Open(c)' => Open(c)
          BY <1>1, <2>1 DEF Open, Accepted
      <4> QED BY <4>1 DEF Open, Sound, Accepted
    <3>4. \A c \in Conn : \A o : Open(c)' /\ struct[c] = o /\ Closes(t, o)
                => n.cl = o /\ n.step \in {"write", "check", "lock"}
        BY <3>2, <3>3 DEF Closes
    <3> QED BY <1>7, <2>1, <3>1, <3>4
  <2>4. CASE CloseLock(t)
    <3> DEFINE x == call[t].cl
               n == [step |-> "shut", cl |-> x, on |-> conn[x]]
    <3>1. call' = [call EXCEPT ![t] = n] /\ n.step = "shut" /\ n.cl = x
        BY <2>4 DEF CloseLock
    <3> HIDE DEF n, x
    <3>2. call'[t] = n
        BY <1>0, <3>1
    <3>3. \A c \in Conn : Open(c)' => struct[c] # x
        BY <2>1, <3>1, <3>2 DEF Open, Marked
    <3>4. \A c \in Conn : \A o : Open(c)' /\ struct[c] = o /\ Closes(t, o) => FALSE
        BY <3>3 DEF Closes, x
    <3> QED BY <1>7, <2>1, <3>1, <3>4
  <2>5. CASE ConnClose(t) \/ UnRegister(t)
    <3>1. (\E n : call' = [call EXCEPT ![t] = n]) /\ call[t].step \in {"shut", "send"}
      <4>1. CASE ConnClose(t)
        <5>1. call' = [call EXCEPT ![t] = [@ EXCEPT !.step = "send"]] /\ call[t].step = "shut"
            BY <4>1 DEF ConnClose
        <5> QED BY <5>1
      <4>2. CASE UnRegister(t)
          BY <4>2 DEF UnRegister
      <4> QED BY <2>5, <4>1, <4>2
    <3>2. \A o : ~ Closes(t, o)
        BY <3>1 DEF Closes
    <3> QED BY <1>7, <2>1, <3>1, <3>2
  <2> QED BY <1>9, <2>2, <2>3, <2>4, <2>5 DEF Closing
<1>10. CASE \E l \in RemoteLogin : MultiTerminalLoginCheck(l)
  <2>1. UNCHANGED <<conf, clients, loop, registerChan, call, struct, handler>>
      BY <1>10 DEF MultiTerminalLoginCheck, connVars
  <2> QED BY <1>2, <2>1
<1> QED BY <1>3, <1>4, <1>5, <1>6, <1>8, <1>9, <1>10 DEF Handling

\* The event loop: the slices it loads and stores lose nothing but what it takes out,
\* which is closed or about to be kicked.
LEMMA ReachRun ==
    ASSUME AInv, Sound, ReachInv, BufInv, Run
    PROVE  ReachInv' /\ BufInv'
<1>0. /\ loop \in LoopState /\ loop.old \in Seq(Alloc) /\ loop.buf \in Seq(Alloc)
      /\ clients \in [User -> Seq(Alloc)] /\ registerChan \in Seq(Alloc)
      /\ unregisterChan \in Seq(Alloc)
      /\ call \in [Thread -> [step : CallStep, cl : Client \union {NoConn},
                              on : Conn \union {NoConn}]]
      /\ ConnUser \in [Conn -> User]
      /\ loop.pc \in {"deleteStore", "setStore", "unStore"} => loop.new.user \in User
    BY SettingParts DEF AInv, TInv, LoopOK, MapOK, ChanOK, CallOK, AnyId
<1>1. UNCHANGED <<conf, conn, struct, handler, sock>>
    BY DEF Run, LoopRegister, LoopKickInfo, LoopDeleteLoad, LoopDeleteStore, LoopKick,
           LoopTokens, LoopSetLoad, LoopSetStore, LoopOnline, LoopUnregister, LoopUnStore,
           LoopOffline, connVars, structVars
<1>2. ASSUME \A c \in Conn : \A o : \A u \in User :
                 o = struct[c] /\ Open(c) /\ Placed(o, u) => Placed(o, u)' \/ u # ConnUser[c]
      PROVE  ReachInv'
  <2> SUFFICES ASSUME NEW c \in Conn, Open(c)' PROVE Placed(struct[c], ConnUser[c])'
      BY DEF ReachInv
  <2>1. ConnUser' = ConnUser /\ ConnUser[c] \in User /\ Open(c)
    <3>1. handler[c] = "served" /\ sock[c] # "closed"
        BY <1>1 DEF Open
    <3>2. struct[c] \in Alloc /\ conn[struct[c]] = c
        BY <3>1 DEF AInv, TInv, ConnOK, Sound, Accepted
    <3>3. \A o \in Alloc : Marked(o) => Marked(o)' \/ sock'[conn[o]] = "closed"
        BY MarkedStays DEF Next
    <3>4. \A o : o = struct[c] => ~ Marked(o)'
        BY <1>1 DEF Open, Marked
    <3> QED BY <1>0, <1>1, <3>1, <3>2, <3>3, <3>4 DEF Open, ConnUser
  <2>2. PICK o, u : o = struct[c] /\ u = ConnUser[c]
      OBVIOUS
  <2>3. Placed(o, u)'
      BY <1>2, <2>1, <2>2 DEF ReachInv
  <2> QED BY <1>1, <2>1, <2>2, <2>3
<1>3. \A c \in Conn : Open(c) => conn[struct[c]] = c
    BY DEF Sound, Open, Accepted
<1>4. \A x, y \in Alloc : conn[x] = conn[y] => x = y
    BY DEF AInv, AcceptInv
<1>5. CASE LoopRegister
  <2>1. /\ loop.pc = "idle" /\ registerChan # <<>> /\ registerChan' = Tail(registerChan)
        /\ UNCHANGED <<clients, call>>
      BY <1>5 DEF LoopRegister
  <2>2. loop'.pc \in {"delete", "set"} /\ loop'.cl = Head(registerChan) /\ ~ loop'.remote
      BY <1>5 DEF LoopRegister, Idle
  <2>3. \A o : Has(registerChan, o) => Has(registerChan', o) \/ Entering(o)'
      BY <1>0, <2>1, <2>2, HasPop DEF Entering
  <2>4. \A o : KickDue(o) => KickDue(o)'
      BY <2>1 DEF KickDue, Closes
  <2>5. BufInv'
      BY <2>2 DEF BufInv
  <2>6. \A o, u : ~ Entering(o) /\ ~ Storing(o, u)
      BY <2>1 DEF Entering, Storing
  <2>7. ReachInv'
      BY <1>2, <2>1, <2>3, <2>4, <2>6 DEF Placed
  <2> QED BY <2>5, <2>7
<1>6. CASE LoopKickInfo \/ LoopOnline \/ LoopOffline
  <2>1. /\ loop.pc \in {"idle", "online", "offline"} /\ UNCHANGED <<registerChan, clients, call>>
      BY <1>6 DEF LoopKickInfo, LoopOnline, LoopOffline, chanVars
  <2>2. loop'.pc \in {"idle", "delete"}
    <3>1. CASE LoopKickInfo
        BY <3>1 DEF LoopKickInfo, Idle
    <3>2. CASE LoopOnline \/ LoopOffline
        BY <3>2, IdleTyped DEF LoopOnline, LoopOffline
    <3> QED BY <1>6, <3>1, <3>2
  <2>3. BufInv'
      BY <2>2 DEF BufInv
  <2>4. \A o, u : ~ Entering(o) /\ ~ Storing(o, u) /\ (KickDue(o) => KickDue(o)')
      BY <2>1 DEF Entering, Storing, KickDue, Closes
  <2>5. ReachInv'
      BY <1>2, <2>1, <2>4 DEF Placed
  <2> QED BY <2>3, <2>5
<1>7. CASE LoopDeleteLoad
  <2> DEFINE u == New.user
             b == Without(clients[u], Serving(loop.old))
  <2>1. /\ loop.pc = "delete" /\ UNCHANGED <<registerChan, clients, call>>
        /\ loop' = [loop EXCEPT !.pc = "deleteStore", !.buf = b, !.new = New,
                                !.existed = clients[u] # <<>>]
      BY <1>7 DEF LoopDeleteLoad, chanVars
  <2>2. u \in User
      BY <2>1, NewType DEF AInv
  <2>3. /\ loop'.pc = "deleteStore" /\ loop'.buf = b /\ loop'.new.user = u
        /\ loop'.old = loop.old /\ loop'.cl = loop.cl /\ loop'.remote = loop.remote
      BY <1>0, <2>1 DEF LoopState
  <2>4. \A o : Has(clients[u], o) => Has(b, o) \/ Has(loop.old, o)
    <3>0. clients[u] \in Seq(Alloc)
        BY <1>0, <2>2
    <3> SUFFICES ASSUME NEW o, Has(clients[u], o), conn[o] \in Serving(loop.old)
                 PROVE  Has(loop.old, o)
        BY <3>0, HasWithout
    <3>1. PICK i \in DOMAIN loop.old : conn[o] = conn[loop.old[i]]
        BY DEF Serving
    <3>2. o \in Alloc /\ Has(loop.old, loop.old[i])
        BY <1>0, <2>2, HasType DEF Has
    <3>3. loop.old[i] \in Alloc
        BY <1>0, <3>2, HasType
    <3>4. o = loop.old[i]
        BY <1>4, <3>1, <3>2, <3>3
    <3> QED BY <3>2, <3>4
  <2> HIDE DEF b, u
  <2>5. BufInv'
      BY <2>1, <2>3, <2>4 DEF BufInv
  <2>6. \A o, v : /\ ~ Storing(o, v) /\ (KickDue(o) => KickDue(o)')
                  /\ (Entering(o) => Entering(o)')
      BY <2>1, <2>3 DEF Entering, Storing, KickDue, Closes
  <2>7. ReachInv'
      BY <1>2, <2>1, <2>6 DEF Placed
  <2> QED BY <2>5, <2>7
<1>8. CASE LoopDeleteStore
  <2>1. /\ loop.pc = "deleteStore" /\ UNCHANGED <<registerChan, call>>
        /\ clients' = IF loop.existed THEN [clients EXCEPT ![loop.new.user] = loop.buf]
                                      ELSE clients
        /\ loop' = [loop EXCEPT !.pc = "kick", !.buf = <<>>, !.existed = TRUE]
      BY <1>8 DEF LoopDeleteStore, chanVars
  <2>2. /\ loop'.pc = "kick" /\ loop'.old = loop.old /\ loop'.cl = loop.cl
        /\ loop'.remote = loop.remote
      BY <1>0, <2>1 DEF LoopState
  <2>3. \A u \in User : clients'[u] = clients[u]
                        \/ (u = loop.new.user /\ clients'[u] = loop.buf)
      BY <1>0, <2>1
  <2>4. \A u \in User : \A o : Has(clients[u], o) => Has(clients'[u], o) \/ KickDue(o)'
      BY <2>1, <2>2, <2>3 DEF BufInv, KickDue
  <2>5. \A o, v : /\ ~ Storing(o, v) /\ (KickDue(o) => KickDue(o)')
                  /\ (Entering(o) => Entering(o)')
      BY <2>1, <2>2 DEF Entering, Storing, KickDue, Closes
  <2>6. \A c \in Conn : ConnUser[c] \in User
      BY <1>0
  <2>7. ReachInv'
      BY <1>2, <2>1, <2>4, <2>5, <2>6 DEF Placed
  <2>8. BufInv'
      BY <2>2 DEF BufInv
  <2> QED BY <2>7, <2>8
<1>9. CASE LoopKick
  <2> DEFINE h == Head(loop.old)
  <2>1. /\ loop.pc = "kick" /\ call[Loop] = NoCall /\ loop.old # <<>>
        /\ call' = [call EXCEPT ![Loop] = Call("write", h)]
        /\ loop' = [loop EXCEPT !.old = Tail(loop.old)]
        /\ UNCHANGED <<registerChan, clients>>
      BY <1>9 DEF LoopKick, chanVars
  <2>2. /\ loop'.pc = "kick" /\ loop'.old = Tail(loop.old) /\ loop'.cl = loop.cl
        /\ loop'.remote = loop.remote
      BY <1>0, <2>1 DEF LoopState
  <2>3. \A o : o = h => Closes(Loop, o)'
    <3>1. call'[Loop] = Call("write", h)
        BY <1>0, <2>1, ThreadKinds
    <3>2. Call("write", h).step = "write" /\ Call("write", h).cl = h
        BY DEF Call
    <3> HIDE DEF h
    <3> QED BY <3>1, <3>2 DEF Closes
  <2>4. \A o : Has(loop.old, o) => o = h \/ Has(Tail(loop.old), o)
      BY <1>0, <2>1, HasPop
  <2> HIDE DEF h
  <2>5. \A o : ~ Closes(Loop, o)
      BY <2>1 DEF Closes, NoCall
  <2>6. \A o : KickDue(o) => KickDue(o)'
      BY <2>1, <2>2, <2>3, <2>4, <2>5 DEF KickDue
  <2>7. \A o, v : ~ Storing(o, v) /\ (Entering(o) => Entering(o)')
      BY <2>1, <2>2 DEF Entering, Storing
  <2>8. BufInv'
      BY <2>2 DEF BufInv
  <2>9. ReachInv'
      BY <1>2, <2>1, <2>6, <2>7 DEF Placed
  <2> QED BY <2>8, <2>9
<1>10. CASE LoopTokens
  <2>1. /\ loop.pc = "kick" /\ call[Loop] = NoCall /\ loop.old = <<>>
        /\ loop' = IF loop.remote THEN Idle ELSE [loop EXCEPT !.pc = "set"]
        /\ UNCHANGED <<registerChan, clients, call>>
      BY <1>10 DEF LoopTokens, chanVars
  <2>2. \A o : ~ KickDue(o)
      BY <2>1 DEF KickDue, Closes, NoCall, Has
  <2>3. loop'.pc \in {"idle", "set"}
        /\ (~ loop.remote => loop'.pc = "set" /\ loop'.cl = loop.cl /\ ~ loop'.remote)
      BY <1>0, <2>1, IdleTyped DEF LoopState
  <2>4. \A o, v : ~ Storing(o, v) /\ (Entering(o) => Entering(o)')
      BY <2>1, <2>3 DEF Entering, Storing
  <2>5. BufInv'
      BY <2>3 DEF BufInv
  <2>6. ReachInv'
      BY <1>2, <2>1, <2>2, <2>4 DEF Placed
  <2> QED BY <2>5, <2>6
<1>11. CASE LoopSetLoad
  <2> DEFINE u == New.user
             b == Append(clients[u], loop.cl)
  <2>1. /\ loop.pc = "set" /\ UNCHANGED <<registerChan, clients, call>>
        /\ loop' = [loop EXCEPT !.pc = "setStore", !.buf = b, !.new = New]
      BY <1>11 DEF LoopSetLoad, chanVars
  <2>2. u \in User /\ loop.cl \in Alloc /\ New = Identity(conn[loop.cl])
      BY <2>1, NewType DEF AInv, TInv, LoopOK, New
  <2>3. u = ConnUser[conn[loop.cl]]
      BY <2>2 DEF Identity
  <2>4. \A o : Has(b, o) <=> Has(clients[u], o) \/ o = loop.cl
      BY <1>0, <2>2, HasAppend
  <2>5. loop'.pc = "setStore" /\ loop'.buf = b /\ loop'.new.user = u /\ loop'.cl = loop.cl
      BY <1>0, <2>1 DEF LoopState
  <2> HIDE DEF b, u
  <2>6. BufInv'
      BY <2>1, <2>4, <2>5 DEF BufInv
  <2>7. \A c \in Conn : \A o, v : o = struct[c] /\ v = ConnUser[c] /\ Open(c) /\ Entering(o)
                => Storing(o, v)'
    <3> SUFFICES ASSUME NEW c \in Conn, Open(c), struct[c] = loop.cl,
                        NEW o, o = loop.cl, NEW v, v = ConnUser[c]
                 PROVE  Storing(o, v)'
        BY DEF Entering
    <3>1. conn[loop.cl] = c
        BY <1>3
    <3> QED BY <2>3, <2>5, <3>1 DEF Storing
  <2>8. \A o, v : ~ Storing(o, v) /\ (KickDue(o) => KickDue(o)')
      BY <2>1 DEF Storing, KickDue, Closes
  <2>9. ReachInv'
      BY <1>2, <2>1, <2>7, <2>8 DEF Placed
  <2> QED BY <2>6, <2>9
<1>12. CASE LoopSetStore
  <2>1. /\ loop.pc = "setStore" /\ UNCHANGED <<registerChan, call>>
        /\ clients' = [clients EXCEPT ![loop.new.user] = loop.buf]
        /\ loop' = [loop EXCEPT !.pc = "online", !.buf = <<>>, !.new = NoConn]
      BY <1>12 DEF LoopSetStore, chanVars
  <2>2. loop'.pc = "online"
      BY <1>0, <2>1 DEF LoopState
  <2>3. \A u \in User : \A o : Has(clients[u], o) \/ Storing(o, u) => Has(clients'[u], o)
      BY <1>0, <2>1 DEF BufInv, Storing
  <2>4. \A o : ~ Entering(o) /\ (KickDue(o) => KickDue(o)')
      BY <2>1 DEF Entering, KickDue, Closes
  <2>5. BufInv'
      BY <2>2 DEF BufInv
  <2>6. \A c \in Conn : ConnUser[c] \in User
      BY <1>0
  <2>7. ReachInv'
      BY <1>2, <2>1, <2>3, <2>4, <2>6 DEF Placed
  <2> QED BY <2>5, <2>7
<1>13. CASE LoopUnregister
  <2> DEFINE x == Head(unregisterChan)
             u == ConnUser[conn[x]]
             b == Without(clients[u], {conn[x]})
  <2>1. /\ loop.pc = "idle" /\ unregisterChan # <<>> /\ UNCHANGED <<registerChan, clients, call>>
        /\ loop' = [Idle EXCEPT !.pc = "unStore", !.cl = x, !.new = Identity(conn[x]),
                                !.buf = b, !.existed = clients[u] # <<>>]
      BY <1>13 DEF LoopUnregister
  <2>2. x \in Alloc
      BY <1>0, <2>1, Pop
  <2>3. u \in User
      BY <2>2, AllocServes DEF AInv, TInv
  <2>4. loop'.pc = "unStore" /\ loop'.cl = x /\ loop'.buf = b /\ loop'.new.user = u
      BY <2>1 DEF Idle, Identity
  <2>5. \A o : Has(clients[u], o) => Has(b, o) \/ o = x
    <3> SUFFICES ASSUME NEW o, Has(clients[u], o), conn[o] = conn[x] PROVE o = x
        BY <1>0, <2>3, HasWithout
    <3>1. o \in Alloc
        BY <1>0, <2>3, HasType
    <3> QED BY <1>4, <2>2, <3>1
  <2> HIDE DEF b, u, x
  <2>6. BufInv'
      BY <2>1, <2>4, <2>5 DEF BufInv
  <2>7. \A o, v : ~ Entering(o) /\ ~ Storing(o, v) /\ (KickDue(o) => KickDue(o)')
      BY <2>1 DEF Entering, Storing, KickDue, Closes
  <2>8. ReachInv'
      BY <1>2, <2>1, <2>7 DEF Placed
  <2> QED BY <2>6, <2>8
<1>14. CASE LoopUnStore
  <2>1. /\ loop.pc = "unStore" /\ UNCHANGED <<registerChan, call>>
        /\ clients' = IF loop.existed THEN [clients EXCEPT ![loop.new.user] = loop.buf]
                                      ELSE clients
        /\ loop' = [loop EXCEPT !.pc = "offline", !.buf = <<>>, !.new = NoConn]
      BY <1>14 DEF LoopUnStore, chanVars
  <2>2. loop'.pc = "offline"
      BY <1>0, <2>1 DEF LoopState
  <2>3. \A u \in User : clients'[u] = clients[u]
                        \/ (u = loop.new.user /\ clients'[u] = loop.buf)
      BY <1>0, <2>1
  <2>4. \A u \in User : \A o : Has(clients[u], o) => Has(clients'[u], o) \/ o = loop.cl
      BY <2>1, <2>3 DEF BufInv
  <2>5. \A c \in Conn : Open(c) => struct[c] # loop.cl
    <3>1. Off(loop.cl)
        BY <2>1 DEF Off
    <3>2. loop.cl \in Client
        BY <3>1, InUse DEF Alloc
    <3>3. sock[conn[loop.cl]] = "closed"
        BY <3>1, <3>2 DEF Sound
    <3> QED BY <1>3, <3>3 DEF Open
  <2>6. \A o, v : ~ Entering(o) /\ ~ Storing(o, v) /\ (KickDue(o) => KickDue(o)')
      BY <2>1 DEF Entering, Storing, KickDue, Closes
  <2>7. \A c \in Conn : ConnUser[c] \in User
      BY <1>0
  <2>8. ReachInv'
      BY <1>2, <2>1, <2>4, <2>5, <2>6, <2>7 DEF Placed
  <2>9. BufInv'
      BY <2>2 DEF BufInv
  <2> QED BY <2>8, <2>9
<1> QED BY <1>5, <1>6, <1>7, <1>8, <1>9, <1>10, <1>11, <1>12, <1>13, <1>14 DEF Run

\* The invariant of a node on which no KickUserOffline is called.
RInv == NInv /\ OwnInv /\ RpcsIdle /\ HomeInv /\ ReachInv /\ BufInv

\* A setting in which structs are sound: the pool hands none on, or nothing is kicked.
Steady(s) == ~ s.poolReuse \/ s.policy = DefalutNotKick

LEMMA RInvSound == ASSUME RInv, \A s \in Setting : Steady(s) PROVE Sound
<1>1. ~ PoolReuse \/ Policy = DefalutNotKick
    BY DEF RInv, NInv, AInv, TInv, ConfOK, PoolReuse, Policy, Steady
<1> QED BY <1>1, SoundHere DEF RInv

LEMMA RInvInit == Init => RInv
<1> SUFFICES ASSUME Init PROVE RInv
    OBVIOUS
<1>1. AInv
    BY AInvInit
<1>2. /\ \A t \in Thread : call[t].step = "none"
      /\ loop.pc = "idle" /\ DOMAIN unregisterChan = {}
      /\ \A r \in KickRpc : rpc[r].pc = "idle"
      /\ \A o \in Client : clientPool[o] = 0 /\ ~ closed[o]
      /\ \A c \in Conn : handler[c] \notin Accepted /\ handler[c] # "served"
      /\ \A c \in Conn : struct[c] = NoConn
      /\ Alloc = {}
    BY DEF Init, NoCall, Idle, Accepted, Alloc
<1>3. ReadersOnly
    BY <1>2, ThreadKinds DEF ReadersOnly
<1>4. /\ \A c \in Conn : ~ Live(c) /\ call[c].step = "none" /\ ~ Held(c)
      /\ \A o : ~ Off(o) /\ ~ Queued(o)
    BY <1>2, ThreadKinds DEF Live, Held, Off, Queued
<1>5. PoolInv
    BY <1>2, <1>4 DEF PoolInv
<1>6. OwnInv /\ RpcsIdle /\ HomeInv
    BY <1>2, <1>4 DEF OwnInv, RpcsIdle, HomeInv
<1>7. ReachInv /\ BufInv
    BY <1>2 DEF ReachInv, Open, BufInv
<1> QED BY <1>1, <1>3, <1>5, <1>6, <1>7 DEF RInv, NInv

LEMMA RInvNext ==
    ASSUME KickTarget = {}, \A s \in Setting : Steady(s), RInv, [Next]_vars
    PROVE  RInv'
<1>1. AInv /\ ReadersOnly /\ PoolInv /\ OwnInv /\ RpcsIdle /\ HomeInv /\ ReachInv /\ BufInv
    BY DEF RInv, NInv
<1>2. NInv'
    BY <1>1, AInvNext, ReadersOnlyNext, PoolNext DEF NInv
<1>3. OwnInv' /\ RpcsIdle' /\ HomeInv'
    BY <1>1, OwnNext, NoRpc, HomeNext
<1>4. ReachInv' /\ BufInv'
    BY <1>1, RInvSound, NoRpc, ReachOther, ReachRun
<1> QED BY <1>2, <1>3, <1>4 DEF RInv

\* On a quiet node the map leads to the struct of every open connection.
LEMMA QuietReach ==
    ASSUME RInv, Sound, Quiet, NEW c \in Up
    PROVE  /\ c \in Conn /\ handler[c] \in Accepted /\ conn[struct[c]] = c
           /\ Has(clients[ConnUser[c]], struct[c])
<1>1. c \in Conn /\ sock[c] # "closed" /\ sock[c] # "none"
    BY DEF Up
<1>2. handler[c] \in Accepted /\ handler[c] # "upgraded"
    BY <1>1 DEF RInv, NInv, AInv, AcceptInv, Quiet
<1>3. Open(c) /\ conn[struct[c]] = c
  <2>1. \A t \in Thread : call[t].step = "none"
      BY DEF Quiet, NoCall
  <2> QED BY <1>1, <1>2, <2>1 DEF Accepted, Open, Sound, Marked
<1>4. Placed(struct[c], ConnUser[c])
    BY <1>1, <1>3 DEF RInv, ReachInv
<1>5. call[Loop].step = "none"
    BY ThreadKinds DEF Quiet, NoCall
<1>6. loop.pc = "idle" /\ registerChan = <<>>
    BY DEF Quiet
<1>7. \A o : ~ Has(registerChan, o)
    BY <1>6 DEF Has
<1> QED BY <1>1, <1>2, <1>3, <1>4, <1>5, <1>6, <1>7
        DEF Placed, Entering, Storing, KickDue, Closes

\* No open connection is lost.  Whatever the handlers, the readers, the logins on this and
\* other nodes and the pool do, on a quiet node the user map leads to every open connection
\* under its own user.  No KickUserOffline may be called: it changes the map beside the
\* event loop, and one of the two changes can be lost.
THEOREM RegisteredReachableHolds ==
    ASSUME KickTarget = {}, \A s \in Setting : Steady(s)
    PROVE  Spec => []RegisteredReachable
<1>1. RInv => RegisteredReachable
  <2> SUFFICES ASSUME RInv, Quiet, NEW c \in Up PROVE c \in Serving(clients[ConnUser[c]])
      BY DEF RegisteredReachable
  <2>1. conn[struct[c]] = c /\ Has(clients[ConnUser[c]], struct[c])
      BY QuietReach, RInvSound
  <2> QED BY <2>1 DEF Has, Serving
<1>2. RInv /\ [Next]_vars => RInv'
    BY RInvNext
<1> QED BY <1>1, <1>2, RInvInit, PTL DEF Spec
-----------------------------------------------------------------------------
(* One connection for each user and platform.                              *)

\* Does a slice have a struct of the platform (f) of struct o?  Has it at most one of each?
\* Without reuse a struct serves the connection it is named after.
Clash(f, q, o) == \E p : Has(q, p) /\ f[p] = f[o]
One(f, q) == \A o, p : Has(q, o) /\ Has(q, p) /\ f[o] = f[p] => o = p

\* A user's slice has one struct for each platform, and none of the platform of the login
\* in progress once the event loop has stored it without those it kicks.
OneInv ==
    Policy = AllLoginButSameTermKick =>
        /\ \A u \in User : One(ConnPlatform, clients[u])
        /\ loop.pc \in {"deleteStore", "setStore", "unStore"} => One(ConnPlatform, loop.buf)
        /\ loop.pc = "delete" /\ ~ loop.remote =>
              \A o : Has(clients[ConnUser[loop.cl]], o)
                     /\ ConnPlatform[o] = ConnPlatform[loop.cl] => Has(loop.old, o)
        /\ loop.pc = "deleteStore" /\ ~ loop.remote =>
              /\ loop.new.user = ConnUser[loop.cl] /\ ~ Clash(ConnPlatform, loop.buf, loop.cl)
              /\ loop.existed \/ clients[loop.new.user] = <<>>
        /\ loop.pc \in {"kick", "set"} /\ ~ loop.remote =>
              ~ Clash(ConnPlatform, clients[ConnUser[loop.cl]], loop.cl)

\* Every step of the node keeps one struct for each platform.
LEMMA OneNext ==
    ASSUME KickTarget = {}, \A s \in Setting : Steady(s), RInv, OneInv, [Next]_vars
    PROVE  OneInv'
<1>0. /\ UNCHANGED conf
      /\ loop \in LoopState /\ loop.old \in Seq(Alloc) /\ loop.buf \in Seq(Alloc)
      /\ clients \in [User -> Seq(Alloc)] /\ registerChan \in Seq(Alloc)
      /\ unregisterChan \in Seq(Alloc)
      /\ loop.pc \in {"deleteStore", "setStore", "unStore"} => loop.new.user \in User
      /\ loop.pc # "idle" /\ ~ loop.remote => loop.cl \in Alloc
      /\ loop.remote => loop.pc \in {"delete", "deleteStore", "kick"}
      /\ AInv
    BY SameSetting DEF RInv, NInv, AInv, TInv, LoopOK, MapOK, ChanOK, AnyId
<1>1. Policy' = Policy /\ ConnUser' = ConnUser /\ ConnPlatform' = ConnPlatform
    BY <1>0 DEF Policy, ConnUser, ConnPlatform
<1> SUFFICES ASSUME Policy = AllLoginButSameTermKick PROVE OneInv'
    BY <1>1 DEF OneInv
<1>2. \A o \in Alloc : conn[o] = o /\ o \in Conn
  <2>1. ~ PoolReuse
      BY DEF RInv, NInv, AInv, TInv, ConfOK, PoolReuse, Policy, Steady, DefalutNotKick,
             AllLoginButSameTermKick
  <2> QED BY <2>1 DEF RInv, OwnInv, Alloc, Client
<1>3. \A u \in User : One(ConnPlatform, clients[u])
    BY DEF OneInv
<1>4. CASE UNCHANGED <<clients, loop>>
    BY <1>1, <1>4 DEF OneInv
<1>5. \A u \in User : \A gone :
          /\ One(ConnPlatform, Without(clients[u], gone))
          /\ \A o : Has(Without(clients[u], gone), o) <=> Has(clients[u], o) /\ conn[o] \notin gone
  <2> SUFFICES ASSUME NEW u \in User, NEW gone
               PROVE  /\ One(ConnPlatform, Without(clients[u], gone))
                      /\ \A o : Has(Without(clients[u], gone), o)
                                <=> Has(clients[u], o) /\ conn[o] \notin gone
      OBVIOUS
  <2>1. clients[u] \in Seq(Alloc)
      BY <1>0
  <2>2. \A o : Has(Without(clients[u], gone), o) <=> Has(clients[u], o) /\ conn[o] \notin gone
      BY <2>1, HasWithout
  <2> QED BY <1>3, <2>2 DEF One
<1>6. CASE LoopRegister
  <2> DEFINE x == Head(registerChan)
             all == clients[ConnUser[conn[x]]]
             old == OfPlatform(all, ConnPlatform[conn[x]])
             kick == all # <<>> /\ old # <<>> /\ Kicks(ConnPlatform[conn[x]])
  <2>1. /\ registerChan # <<>> /\ UNCHANGED clients
        /\ loop' = [Idle EXCEPT !.pc = IF kick THEN "delete" ELSE "set", !.cl = x,
                                !.old = IF kick THEN old ELSE <<>>, !.existed = all # <<>>]
      BY <1>6 DEF LoopRegister
  <2>2. x \in Alloc
      BY <1>0, <2>1, Pop
  <2>3. conn[x] = x /\ ConnUser[x] \in User /\ all \in Seq(Alloc)
    <3>1. conn[x] = x
        BY <1>2, <2>2
    <3>2. ConnUser[conn[x]] \in User
        BY <1>0, <2>2, AllocServes DEF AInv, TInv
    <3> QED BY <1>0, <3>1, <3>2
  <2>4. /\ \A o : Has(all, o) /\ ConnPlatform[o] = ConnPlatform[x] => Has(old, o)
        /\ old = <<>> => ~ Clash(ConnPlatform, all, x)
    <3>1. \A o : Has(all, o) => conn[o] = o
        BY <1>2, <2>3, HasType
    <3>2. /\ \A k \in DOMAIN all : ConnPlatform[conn[all[k]]] = ConnPlatform[conn[x]] =>
                \E n \in DOMAIN old : old[n] = all[k]
          /\ old = <<>> => \A k \in DOMAIN all : ConnPlatform[conn[all[k]]] # ConnPlatform[conn[x]]
        BY <2>3, OfPlatformSlice
    <3> HIDE DEF all, old, x
    <3> QED BY <2>3, <3>1, <3>2 DEF Has, Clash
  <2>5. kick <=> old # <<>>
    <3>1. Kicks(ConnPlatform[conn[x]])
        BY DEF Kicks
    <3>2. all = <<>> => old = <<>>
      <4>1. all = <<>> => DOMAIN all = {}
          OBVIOUS
      <4> HIDE DEF all
      <4> QED BY <2>3, <4>1, OfPlatformSlice
    <3> QED BY <3>1, <3>2
  <2>6. /\ loop'.pc = (IF kick THEN "delete" ELSE "set") /\ loop'.cl = x
        /\ loop'.old = (IF kick THEN old ELSE <<>>)
      BY <2>1 DEF Idle
  <2>7. all = clients[ConnUser[x]]
      BY <2>3
  <2> HIDE DEF kick, old, all, x
  <2>8. CASE kick
    <3>1. loop'.pc = "delete" /\ loop'.old = old
        BY <2>6, <2>8
    <3> QED BY <1>1, <1>3, <2>1, <2>4, <2>6, <2>7, <3>1 DEF OneInv
  <2>9. CASE ~ kick
    <3>1. loop'.pc = "set" /\ old = <<>>
        BY <2>5, <2>6, <2>9
    <3> QED BY <1>1, <1>3, <2>1, <2>4, <2>6, <2>7, <3>1 DEF OneInv
  <2> QED BY <2>8, <2>9
<1>7. CASE LoopKickInfo
  <2> DEFINE i == Head(kickHandlerChan)
             n == [Idle EXCEPT !.pc = "delete", !.remote = TRUE, !.new = i.newClient,
                            !.old = i.oldClients]
  <2>1. UNCHANGED clients /\ (loop' = Idle \/ loop' = n)
      BY <1>7 DEF LoopKickInfo
  <2>2. n.pc = "delete" /\ n.remote = TRUE /\ Idle.pc = "idle"
      BY DEF Idle
  <2> HIDE DEF n
  <2>3. loop'.pc = "idle" \/ (loop'.pc = "delete" /\ loop'.remote)
      BY <2>1, <2>2
  <2> QED BY <1>1, <1>3, <2>1, <2>3 DEF OneInv
<1>8. CASE LoopDeleteLoad
  <2> DEFINE u == New.user
             b == Without(clients[u], Serving(loop.old))
             e == clients[u] # <<>>
  <2>1. /\ loop.pc = "delete" /\ UNCHANGED clients
        /\ loop' = [loop EXCEPT !.pc = "deleteStore", !.buf = b, !.new = New, !.existed = e]
      BY <1>8 DEF LoopDeleteLoad
  <2>2. u \in User
      BY <1>0, <2>1, NewType DEF AInv
  <2>3. e \in BOOLEAN
      OBVIOUS
  <2>4. One(ConnPlatform, b)
      BY <1>5, <2>2
  <2>5. ASSUME ~ loop.remote PROVE u = ConnUser[loop.cl] /\ ~ Clash(ConnPlatform, b, loop.cl)
    <3>1. u = ConnUser[loop.cl]
        BY <1>0, <1>2, <2>1, <2>5 DEF New, Identity
    <3>2. \A o : Has(b, o) => Has(clients[u], o) /\ conn[o] \notin Serving(loop.old)
        BY <1>5, <2>2
    <3>3. \A o : Has(loop.old, o) => conn[o] \in Serving(loop.old)
        BY DEF Has, Serving
    <3>4. \A o : Has(clients[u], o) /\ ConnPlatform[o] = ConnPlatform[loop.cl] => Has(loop.old, o)
        BY <2>1, <2>5, <3>1 DEF OneInv
    <3> HIDE DEF b, u
    <3> QED BY <3>1, <3>2, <3>3, <3>4 DEF Clash
  <2>6. e \/ clients[u] = <<>>
      OBVIOUS
  <2> HIDE DEF e
  <2>7. /\ loop'.pc = "deleteStore" /\ loop'.buf = b /\ loop'.new.user = u
        /\ loop'.cl = loop.cl /\ loop'.remote = loop.remote /\ loop'.existed = e
      BY <1>0, <2>1, <2>3 DEF LoopState
  <2> HIDE DEF b, u
  <2> QED BY <1>1, <1>3, <2>1, <2>4, <2>5, <2>6, <2>7 DEF OneInv
<1>9. CASE LoopDeleteStore
  <2>1. /\ loop.pc = "deleteStore"
        /\ clients' = IF loop.existed THEN [clients EXCEPT ![loop.new.user] = loop.buf]
                                      ELSE clients
        /\ loop' = [loop EXCEPT !.pc = "kick", !.buf = <<>>, !.existed = TRUE]
      BY <1>9 DEF LoopDeleteStore
  <2>2. loop'.pc = "kick" /\ loop'.cl = loop.cl /\ loop'.remote = loop.remote
      BY <1>0, <2>1 DEF LoopState
  <2>3. \A u \in User : clients'[u] = clients[u]
                        \/ (u = loop.new.user /\ clients'[u] = loop.buf)
      BY <1>0, <2>1
  <2>4. \A u \in User : One(ConnPlatform, clients'[u])
      BY <1>3, <2>1, <2>3 DEF OneInv
  <2>5. ASSUME ~ loop.remote PROVE ~ Clash(ConnPlatform, clients'[ConnUser[loop.cl]], loop.cl)
    <3>1. /\ loop.new.user = ConnUser[loop.cl] /\ ~ Clash(ConnPlatform, loop.buf, loop.cl)
          /\ loop.existed \/ clients[loop.new.user] = <<>>
        BY <2>1, <2>5 DEF OneInv
    <3>2. CASE loop.existed
      <4>1. clients'[loop.new.user] = loop.buf
          BY <1>0, <2>1, <3>2
      <4> QED BY <3>1, <4>1
    <3>3. CASE ~ loop.existed
      <4>1. clients'[loop.new.user] = <<>>
          BY <2>1, <3>1, <3>3
      <4> QED BY <3>1, <4>1 DEF Clash, Has
    <3> QED BY <3>2, <3>3
  <2> QED BY <1>1, <2>2, <2>4, <2>5 DEF OneInv
<1>10. CASE LoopKick
  <2>1. loop.pc = "kick" /\ loop' = [loop EXCEPT !.old = Tail(loop.old)] /\ UNCHANGED clients
      BY <1>10 DEF LoopKick
  <2>2. loop'.pc = "kick" /\ loop'.cl = loop.cl /\ loop'.remote = loop.remote
      BY <1>0, <2>1 DEF LoopState
  <2> QED BY <1>1, <1>3, <2>1, <2>2 DEF OneInv
<1>11. CASE LoopTokens
  <2>1. /\ loop.pc = "kick" /\ UNCHANGED clients
        /\ loop' = IF loop.remote THEN Idle ELSE [loop EXCEPT !.pc = "set"]
      BY <1>11 DEF LoopTokens
  <2>2. \/ loop'.pc = "idle"
        \/ loop'.pc = "set" /\ loop'.cl = loop.cl /\ ~ loop.remote
      BY <1>0, <2>1, IdleTyped DEF LoopState
  <2> QED BY <1>1, <1>3, <2>1, <2>2 DEF OneInv
<1>12. CASE LoopSetLoad
  <2> DEFINE u == New.user
             b == Append(clients[u], loop.cl)
  <2>1. /\ loop.pc = "set" /\ UNCHANGED clients
        /\ loop' = [loop EXCEPT !.pc = "setStore", !.buf = b, !.new = New]
      BY <1>12 DEF LoopSetLoad
  <2>2. u \in User /\ ~ loop.remote /\ loop.cl \in Alloc
      BY <1>0, <2>1, NewType DEF AInv
  <2>3. u = ConnUser[loop.cl]
      BY <1>2, <2>2 DEF New, Identity
  <2>4. \A o : Has(b, o) <=> Has(clients[u], o) \/ o = loop.cl
    <3>1. clients[u] \in Seq(Alloc)
        BY <1>0, <2>2
    <3> QED BY <2>2, <3>1, HasAppend
  <2>5. ~ Clash(ConnPlatform, clients[u], loop.cl)
      BY <2>1, <2>2, <2>3 DEF OneInv
  <2>6. loop'.pc = "setStore" /\ loop'.buf = b
      BY <1>0, <2>1 DEF LoopState
  <2> HIDE DEF b, u
  <2>7. One(ConnPlatform, clients[u])
      BY <1>3, <2>2
  <2>8. One(ConnPlatform, b)
      BY <2>4, <2>5, <2>7 DEF One, Clash
  <2> QED BY <1>1, <1>3, <2>1, <2>6, <2>8 DEF OneInv
<1>13. CASE LoopSetStore \/ LoopUnStore
  <2>1. /\ loop.pc \in {"setStore", "unStore"}
        /\ \/ clients' = [clients EXCEPT ![loop.new.user] = loop.buf]
           \/ clients' = clients
      BY <1>13 DEF LoopSetStore, LoopUnStore
  <2>2. loop'.pc \in {"online", "offline"}
    <3>1. CASE LoopSetStore
        BY <1>0, <3>1 DEF LoopSetStore, LoopState
    <3>2. CASE LoopUnStore
        BY <1>0, <3>2 DEF LoopUnStore, LoopState
    <3> QED BY <1>13, <3>1, <3>2
  <2>3. \A u \in User : clients'[u] = clients[u]
                        \/ (u = loop.new.user /\ clients'[u] = loop.buf)
      BY <1>0, <2>1
  <2>4. \A u \in User : One(ConnPlatform, clients'[u])
      BY <1>3, <2>1, <2>3 DEF OneInv
  <2> QED BY <1>1, <2>2, <2>4 DEF OneInv
<1>14. CASE LoopOnline \/ LoopOffline
  <2>1. UNCHANGED clients /\ loop'.pc = "idle"
      BY <1>14, IdleTyped DEF LoopOnline, LoopOffline
  <2> QED BY <1>1, <1>3, <2>1 DEF OneInv
<1>15. CASE LoopUnregister
  <2> DEFINE x == Head(unregisterChan)
             u == ConnUser[conn[x]]
             b == Without(clients[u], {conn[x]})
  <2>1. /\ unregisterChan # <<>> /\ UNCHANGED clients
        /\ loop' = [Idle EXCEPT !.pc = "unStore", !.cl = x, !.new = Identity(conn[x]),
                                !.buf = b, !.existed = clients[u] # <<>>]
      BY <1>15 DEF LoopUnregister
  <2>2. x \in Alloc
      BY <1>0, <2>1, Pop
  <2>3. u \in User
      BY <1>0, <2>2, AllocServes DEF AInv, TInv
  <2>4. One(ConnPlatform, b)
      BY <1>5, <2>3
  <2>5. loop'.pc = "unStore" /\ loop'.buf = b
      BY <2>1 DEF Idle
  <2> HIDE DEF b, u, x
  <2> QED BY <1>1, <1>3, <2>1, <2>4, <2>5 DEF OneInv
<1>16. CASE Run
    BY <1>6, <1>7, <1>8, <1>9, <1>10, <1>11, <1>12, <1>13, <1>14, <1>15, <1>16 DEF Run
<1>17. CASE UNCHANGED vars
  <2>1. UNCHANGED <<clients, loop>>
      BY <1>17 DEF vars
  <2> QED BY <1>4, <2>1
<1>18. CASE \E c \in Conn : Handling(c) \/ HangUp(c) \/ Reading(c)
  <2>1. UNCHANGED <<clients, loop>>
      BY <1>18 DEF Handling, WsAdmit, WsRefuse, WsUpgrade, WsRegister, HangUp, Reading, ReadCall,
                   ReadError, ReadMessage, CheckClosed, HandleMessage
  <2> QED BY <1>4, <2>1
<1>19. CASE \E t \in Thread : Closing(t)
  <2>1. UNCHANGED <<clients, loop>>
      BY <1>19 DEF Closing, KickWrite, CloseCheck, CloseLock, ConnClose, UnRegister
  <2> QED BY <1>4, <2>1
<1>20. CASE \E l \in RemoteLogin : MultiTerminalLoginCheck(l)
  <2>1. UNCHANGED <<clients, loop>>
      BY <1>20 DEF MultiTerminalLoginCheck
  <2> QED BY <1>4, <2>1
<1> QED BY <1>16, <1>17, <1>18, <1>19, <1>20, NoRpc DEF RInv

\* With AllLoginButSameTermKick a login, on this node or told by another, leaves one open
\* connection at most for its user and platform once the node is quiet, however many log
\* in at the same time.
THEOREM OneOnlinePerPlatformHolds ==
    ASSUME KickTarget = {}, \A s \in Setting : Steady(s)
    PROVE  Spec => []OneOnlinePerPlatform
<1> DEFINE I == RInv /\ OneInv
<1>1. Init => I
  <2> SUFFICES ASSUME Init PROVE OneInv
      BY RInvInit
  <2>1. loop.pc = "idle"
      BY DEF Init, Idle
  <2>2. \A u \in User : One(ConnPlatform, clients[u])
      BY DEF Init, One, Has
  <2> QED BY <2>1, <2>2 DEF OneInv
<1>2. I /\ [Next]_vars => I'
    BY RInvNext, OneNext
<1>3. I => OneOnlinePerPlatform
  <2> SUFFICES ASSUME I, Quiet, Policy = AllLoginButSameTermKick, NEW c \in Up, NEW d \in Up,
                      Pair(c) = Pair(d)
               PROVE  c = d
      BY DEF OneOnlinePerPlatform
  <2>1. Sound
      BY RInvSound
  <2>2. /\ c \in Conn /\ handler[c] \in Accepted /\ conn[struct[c]] = c
        /\ Has(clients[ConnUser[c]], struct[c])
        /\ d \in Conn /\ handler[d] \in Accepted /\ conn[struct[d]] = d
        /\ Has(clients[ConnUser[d]], struct[d])
      BY <2>1, QuietReach
  <2>3. ConnUser[c] = ConnUser[d] /\ ConnPlatform[c] = ConnPlatform[d] /\ ConnUser[c] \in User
      BY <2>2, SettingParts DEF Pair, RInv, NInv, AInv, TInv
  <2>4. struct[c] = c /\ struct[d] = d
    <3>1. ~ PoolReuse
        BY DEF RInv, NInv, AInv, TInv, ConfOK, PoolReuse, Policy, Steady, DefalutNotKick,
               AllLoginButSameTermKick
    <3>2. struct[c] \in Alloc /\ struct[d] \in Alloc
        BY <2>2 DEF RInv, NInv, AInv, TInv, ConnOK, Accepted
    <3> QED BY <2>2, <3>1, <3>2 DEF RInv, OwnInv
  <2> QED BY <2>2, <2>3, <2>4 DEF OneInv, One
<1> HIDE DEF I
<1> QED BY <1>1, <1>2, <1>3, PTL DEF Spec
=============================================================================
