----------------------------- MODULE PushProofs -----------------------------
(***************************************************************************)
(* Type correctness of Group and Push, and NoMissed: for every group,      *)
(* every set of requests, every number of gateways and of restarts.        *)
(***************************************************************************)
EXTENDS Push, SequenceTheorems, TLAPS

CallState(n) ==
    [pc : {"idle", "request", "insert", "handle", "commit", "delete", "swap", "update",
           "delList", "delInfo", "status", "create", "notify", "send", "maxSeq", "cap",
           "done", "refused"},
     role : Role, seq : 0..n]

\* The part of TypeOK that is about the group.
GroupType ==
    /\ conf \in Setting
    /\ role \in [User -> Role] /\ memberInfo \in [User -> Role]
    /\ status \in {"ok", "muted", "dismissed"}
    /\ request \in [User -> {"none", "pending", "handled"}]
    /\ memberIDs \in (SUBSET User) \union {NoList} /\ unlisted \in SUBSET User
    /\ maxSeq \in Nat
    /\ row \in [User -> Absent..maxSeq]
    /\ topic \in Seq(AnyMessage) /\ pushTopic \in Seq(AnyMessage)
    /\ transfer \in [pc : {"idle", "members", "create", "push"}, ids : SUBSET User]
    /\ call \in [Thread -> CallState(maxSeq)]

\* Thread t in state s: the step fits the request, and a transfer of the group that
\* has yet to commit holds the rows of two members.
CallOK(t, s) ==
    /\ s.pc # "idle" => t \in DOMAIN conf.work
    /\ s.pc = "insert" => Enters(t)
    /\ s.pc = "status" => conf.work[t].op \in {"mute", "unmute", "dismiss"}
    /\ s.pc = "handle" => conf.work[t].op = "respond"
    /\ s.pc = "update" => conf.work[t].role \in {"ordinary", "admin"}
    /\ s.pc = "swap" => conf.work[t].op = "transfer" /\ s.role # "none"
    /\ s.pc = "commit" => conf.work[t].op \in {"respond", "transfer"}
    /\ s.pc = "commit" /\ conf.work[t].op = "transfer" =>
          s.role # "none" /\ role[By(t)] # "none" /\ role[Of(t)] # "none"

\* The list may lack u: its key was not deleted behind u's entry, or is about to be.
Behind(u) ==
    u \in unlisted \/ \E t \in Thread : call[t].pc = "delList" /\ Enters(t) /\ Of(t) = u

\* The cached list, if there is one, has every other member.
ListOK ==
    memberIDs = NoList \/ \A u \in User : role[u] # "none" => u \in memberIDs \/ Behind(u)

GInv ==
    /\ GroupType
    /\ \A t \in Thread : CallOK(t, call[t])
    /\ ListOK
    /\ transfer.pc # "idle" => topic # <<>>

\* Whom the message is for is in the list that is pushed to, and a gateway that
\* answered has told of each in the list.
DueOK ==
    /\ push.pc = "idle" => ~ push.answered
    /\ push.pc = "online" =>
          /\ Current.kind = "single" =>
                /\ push.list = {Current.from, Current.user} /\ push.due = {Current.user}
                /\ push.answered => push.list \subseteq push.reached \union push.missed
          /\ Current.kind = "chat" => push.due \subseteq push.list
          /\ Current.kind \in NoticeKind => push.due = {}
    /\ push.pc \in {"maxSeq", "cap", "dismiss", "clear", "delList"} => push.due = {}

PInv ==
    /\ TypeOK /\ GInv
    /\ push.pc # "idle" => push.pos <= Len(pushTopic)
    /\ start <= push.pos
    /\ DueOK /\ NoMissed

-----------------------------------------------------------------------------
(* The group.                                                              *)

\* A request is about users, and made by one.
LEMMA RequestFacts ==
    ASSUME conf \in Setting, NEW t \in DOMAIN conf.work
    PROVE  /\ By(t) \in User /\ Of(t) \in User /\ t \in Thread
           /\ conf.work[t].role \in Role
<1>1. conf.work \in [DOMAIN conf.work -> Request] /\ DOMAIN conf.work \subseteq Thread
    BY GroupAssumption
<1>2. conf.work[t] \in Request
    BY <1>1
<1> QED BY <1>1, <1>2 DEF By, Of, Request

\* Reading through the cache yields roles.
LEMMA FetchType ==
    ASSUME GroupType
    PROVE  /\ \A u \in User : Info(u) \in Role
           /\ \A us : Fetch(us) \in [User -> Role]
           /\ MemberIDs \in SUBSET User
           /\ Members \in SUBSET User
<1>1. \A u \in User : Info(u) \in Role
    BY DEF GroupType, Info
<1>2. \A us : Fetch(us) \in [User -> Role]
    BY <1>1 DEF GroupType, Fetch
<1>3. Members \in SUBSET User
    BY DEF Members
<1> QED BY <1>1, <1>2, <1>3 DEF GroupType, MemberIDs

\* Deleting keys leaves roles.
LEMMA DelType ==
    ASSUME GroupType, NEW us, DelGroupMembersInfo(us)
    PROVE  memberInfo' \in [User -> Role]
<1>1. PICK kept : memberInfo' = [u \in User |-> IF u \in us \ kept THEN "none" ELSE memberInfo[u]]
    BY DEF DelGroupMembersInfo
<1> QED BY <1>1 DEF GroupType, Role

\* What Message makes is a message.
LEMMA MessageType ==
    ASSUME NEW k \in NoticeKind \union {"chat", "single"}, NEW u \in User, NEW v \in User
    PROVE  Message(k, u, v) \in AnyMessage
<1>1. Members \in SUBSET User
    BY DEF Members
<1> QED BY <1>1 DEF Message, AnyMessage

\* The first step of a call: t gets a state that fits its request, and nothing else
\* changes but the cache of the members.
Begins(t) ==
    \/ InviteUserToGroup(t) \/ JoinGroup(t) \/ GroupApplicationResponse(t)
    \/ KickGroupMember(t) \/ QuitGroup(t) \/ TransferGroupOwner(t)
    \/ SetGroupMemberInfo(t) \/ DismissGroup(t) \/ MuteGroup(t) \/ SendMsg(t)
    \/ SendSingle(t)

\* Thread t alone moves on.
Moves(t) == \A v \in Thread : v # t => call'[v] = call[v]

\* No row of a member that a transaction holds is lost.
RolesKept ==
    \A u \in User : Locked({u}) /\ role[u] # "none" => role'[u] # "none"

\* A thread that goes to another step.
LEMMA GotoStep ==
    ASSUME GroupType, NEW t \in Thread,
           NEW pc \in {"idle", "request", "insert", "handle", "commit", "delete", "swap",
                       "update", "delList", "delInfo", "status", "create", "notify", "send",
                       "maxSeq", "cap", "done", "refused"},
           Goto(t, pc)
    PROVE  /\ Moves(t) /\ call' \in [Thread -> CallState(maxSeq)]
           /\ call'[t] \in CallState(maxSeq)
           /\ call'[t].pc = pc /\ call'[t].role = call[t].role
<1>1. call \in [Thread -> CallState(maxSeq)]
    BY DEF GroupType
<1>2. call'[t] = [call[t] EXCEPT !.pc = pc] /\ call' = [call EXCEPT ![t] = call'[t]]
    BY <1>1 DEF Goto
<1>3. [call[t] EXCEPT !.pc = pc] \in CallState(maxSeq)
    BY <1>1 DEF CallState
<1>4. [call[t] EXCEPT !.pc = pc].pc = pc /\ [call[t] EXCEPT !.pc = pc].role = call[t].role
    BY <1>1 DEF CallState
<1> QED BY <1>1, <1>2, <1>3, <1>4 DEF Moves

\* A call that begins gets a state that fits its request.
LEMMA BeginStep ==
    ASSUME GInv, NEW t \in Thread, Begins(t)
    PROVE  /\ t \in DOMAIN conf.work /\ call[t].pc = "idle"
           /\ UNCHANGED <<conf, groupVars, listVars, row, wayVars>>
           /\ memberInfo' \in [User -> Role]
           /\ Moves(t) /\ call' \in [Thread -> CallState(maxSeq)]
           /\ CallOK(t, call'[t])
<1>1. GroupType
    BY DEF GInv
<1>2. ASSUME NEW op, NEW us, Begin(t, op, us)
      PROVE  /\ t \in DOMAIN conf.work /\ conf.work[t].op = op /\ call[t].pc = "idle"
             /\ UNCHANGED <<conf, groupVars, listVars, row, wayVars>>
             /\ memberInfo' \in [User -> Role]
    BY <1>1, <1>2, FetchType DEF Begin, At
<1>3. ASSUME NEW op, NEW us, Begin(t, op, us),
             NEW pc \in {"request", "insert", "delete", "update", "status", "send", "refused"},
             Goto(t, pc),
             pc = "insert" => op \in {"invite", "join"},
             pc = "status" => op \in {"mute", "unmute", "dismiss"},
             pc = "update" => conf.work[t].role \in {"ordinary", "admin"}
      PROVE  Moves(t) /\ call' \in [Thread -> CallState(maxSeq)] /\ CallOK(t, call'[t])
  <2>1. Moves(t) /\ call' \in [Thread -> CallState(maxSeq)] /\ call'[t].pc = pc
      BY <1>1, <1>3, GotoStep
  <2>2. t \in DOMAIN conf.work /\ conf.work[t].op = op
      BY <1>2, <1>3
  <2> QED BY <1>3, <2>1, <2>2 DEF CallOK, Enters
<1>4. ASSUME t \in DOMAIN conf.work, NEW pc \in {"handle", "swap", "refused"},
             call' = [call EXCEPT ![t].role = Info(Of(t)), ![t].pc = pc],
             pc = "handle" => conf.work[t].op = "respond",
             pc = "swap" => conf.work[t].op = "transfer" /\ Info(Of(t)) # "none"
      PROVE  Moves(t) /\ call' \in [Thread -> CallState(maxSeq)] /\ CallOK(t, call'[t])
  <2>1. call \in [Thread -> CallState(maxSeq)] /\ Info(Of(t)) \in Role
      BY <1>1, <1>4, FetchType, RequestFacts DEF GroupType
  <2>2. /\ call'[t] = [call[t] EXCEPT !.role = Info(Of(t)), !.pc = pc]
        /\ call' = [call EXCEPT ![t] = call'[t]]
      BY <1>4, <2>1
  <2>3. [call[t] EXCEPT !.role = Info(Of(t)), !.pc = pc] \in CallState(maxSeq)
      BY <2>1, <1>4 DEF CallState
  <2>4. call'[t].pc = pc /\ call'[t].role = Info(Of(t))
      BY <2>1, <2>2 DEF CallState
  <2>5. Moves(t) /\ call' \in [Thread -> CallState(maxSeq)]
      BY <2>1, <2>2, <2>3 DEF Moves
  <2> QED BY <1>4, <2>4, <2>5 DEF CallOK
<1>5. CASE InviteUserToGroup(t)
    BY <1>2, <1>3, <1>5 DEF InviteUserToGroup, GoOn
<1>6. CASE JoinGroup(t)
    BY <1>2, <1>3, <1>6 DEF JoinGroup, GoOn
<1>7. CASE GroupApplicationResponse(t)
    BY <1>2, <1>4, <1>7 DEF GroupApplicationResponse
<1>8. CASE KickGroupMember(t)
    BY <1>2, <1>3, <1>8 DEF KickGroupMember, GoOn
<1>9. CASE QuitGroup(t)
    BY <1>2, <1>3, <1>9 DEF QuitGroup, GoOn
<1>10. CASE TransferGroupOwner(t)
    BY <1>2, <1>4, <1>10 DEF TransferGroupOwner
<1>11. CASE SetGroupMemberInfo(t)
    BY <1>2, <1>3, <1>11 DEF SetGroupMemberInfo, GoOn
<1>12. CASE DismissGroup(t)
    BY <1>2, <1>3, <1>12 DEF DismissGroup, GoOn
<1>13. CASE MuteGroup(t)
    BY <1>2, <1>3, <1>13 DEF MuteGroup, GoOn
<1>14. CASE SendMsg(t)
    BY <1>2, <1>3, <1>14 DEF SendMsg, GoOn
<1>15. CASE SendSingle(t)
    BY <1>2, <1>3, <1>15 DEF SendSingle
<1> QED BY <1>5, <1>6, <1>7, <1>8, <1>9, <1>10, <1>11, <1>12, <1>13, <1>14, <1>15 DEF Begins

\* A thread's step keeps the invariant of the group if it keeps the types, leaves the
\* rows that transactions hold, suits the thread and keeps the cached list true.
LEMMA ThreadFrame ==
    ASSUME GInv, NEW t \in Thread, UNCHANGED <<conf, transfer>>, Moves(t), RolesKept,
           GroupType', CallOK(t, call[t])', ListOK',
           UNCHANGED topic \/ topic' # <<>>
    PROVE  GInv'
<1>1. ASSUME NEW v \in Thread PROVE CallOK(v, call[v])'
  <2>1. CASE v = t
      BY <2>1
  <2>2. CASE v # t
    <3>1. CallOK(v, call[v]) /\ call'[v] = call[v]
        BY <2>2 DEF GInv, Moves
    <3>2. call[v].pc # "idle" => By(v) \in User /\ Of(v) \in User
        BY <3>1, RequestFacts DEF GInv, GroupType, CallOK
    <3>3. CASE call[v].pc = "commit" /\ conf.work[v].op = "transfer"
      <4>1. Locked({By(v)}) /\ Locked({Of(v)})
          BY <3>3 DEF Locked, By, Of
      <4>2. role'[By(v)] # "none" /\ role'[Of(v)] # "none"
          BY <3>1, <3>2, <3>3, <4>1 DEF RolesKept, CallOK
      <4>3. By(v)' = By(v) /\ Of(v)' = Of(v)
          BY DEF By, Of
      <4> QED BY <3>1, <3>3, <4>2, <4>3 DEF CallOK
    <3>4. CASE ~ (call[v].pc = "commit" /\ conf.work[v].op = "transfer")
        BY <3>1, <3>4 DEF CallOK, Enters
    <3> QED BY <3>3, <3>4
  <2> QED BY <2>1, <2>2
<1>2. transfer'.pc # "idle" => topic' # <<>>
    BY DEF GInv
<1> QED BY <1>1, <1>2 DEF GInv

\* The list stays good if it is kept, if those it may lack stay such, and if whoever
\* enters becomes one of them.
LEMMA ListKept ==
    ASSUME GInv, UNCHANGED memberIDs,
           \A u \in User : Behind(u) => Behind(u)',
           \A u \in User : role'[u] # "none" => role[u] # "none" \/ Behind(u)'
    PROVE  ListOK'
BY DEF GInv, ListOK

\* Thread t, which is not about to delete the list, moves on.
LEMMA BehindKept ==
    ASSUME UNCHANGED conf, NEW t \in Thread, Moves(t), call[t].pc # "delList",
           unlisted \subseteq unlisted'
    PROVE  \A u \in User : Behind(u) => Behind(u)'
<1> SUFFICES ASSUME NEW u \in User, Behind(u) PROVE Behind(u)'
    OBVIOUS
<1>1. CASE u \in unlisted
    BY <1>1 DEF Behind
<1>2. ASSUME NEW v \in Thread, call[v].pc = "delList", Enters(v), Of(v) = u
      PROVE  Behind(u)'
  <2>1. call'[v] = call[v] /\ Enters(v)' = Enters(v) /\ Of(v)' = Of(v)
      BY <1>2 DEF Moves, Enters, Of
  <2> QED BY <1>2, <2>1 DEF Behind
<1> QED BY <1>1, <1>2 DEF Behind

\* A step that leaves the roles and the list alone.
LEMMA SameMembers ==
    ASSUME GInv, UNCHANGED <<conf, role, memberIDs, unlisted>>,
           NEW t \in Thread, Moves(t), call[t].pc # "delList"
    PROVE  RolesKept /\ ListOK'
<1>1. \A u \in User : Behind(u) => Behind(u)'
    BY BehindKept
<1> QED BY <1>1, ListKept DEF RolesKept

\* A step of another process that leaves the roles and the list alone.
LEMMA SameCalls ==
    ASSUME GInv, UNCHANGED <<conf, role, memberIDs, unlisted, call>>
    PROVE  ListOK'
<1>1. \A u \in User : Behind(u)' = Behind(u)
    BY DEF Behind, Enters, Of
<1> QED BY <1>1, ListKept

\* The list is read, and cached if it was not.
LEMMA ListRead ==
    ASSUME GInv, memberIDs' = MemberIDs, UNCHANGED <<conf, role, unlisted, call>>
    PROVE  ListOK' /\ memberIDs' \in SUBSET User
<1>1. \A u \in User : Behind(u)' = Behind(u)
    BY DEF Behind, Enters, Of
<1>2. memberIDs' \in SUBSET User
    BY FetchType DEF GInv
<1>3. \A u \in User : role[u] # "none" => u \in memberIDs' \/ Behind(u)
    BY DEF GInv, ListOK, MemberIDs, Members
<1> QED BY <1>1, <1>2, <1>3 DEF ListOK

\* The key of the list is deleted, or given up behind the entry of us.
LEMMA DelListType ==
    ASSUME GroupType, NEW us \in SUBSET User, DelGroupMemberIDs(us)
    PROVE  /\ memberIDs' \in (SUBSET User) \union {NoList} /\ unlisted' \in SUBSET User
           /\ \/ memberIDs' = NoList
              \/ UNCHANGED memberIDs /\ unlisted' = unlisted \union us
BY DEF GroupType, DelGroupMemberIDs, Unlist

\* Every step of a thread after its first keeps the invariant of the group.
LEMMA WriteStep ==
    ASSUME GInv, NEW t \in Thread, Serve(t), ~ Begins(t)
    PROVE  GInv'
<1>1. /\ GroupType /\ CallOK(t, call[t]) /\ call \in [Thread -> CallState(maxSeq)]
      /\ call[t] \in CallState(maxSeq)
    BY DEF GInv, GroupType
<1>2. call[t].pc # "idle" => t \in DOMAIN conf.work /\ By(t) \in User /\ Of(t) \in User
                             /\ conf.work[t].role \in Role
    BY <1>1, RequestFacts DEF CallOK, GroupType
\* the steps after which nothing is asked of the thread's state
<1> DEFINE Rest == {"delList", "delInfo", "create", "notify", "maxSeq", "done", "refused", "cap"}
<1>3. ASSUME call[t].pc # "idle", UNCHANGED conf, call'[t].pc \in Rest PROVE CallOK(t, call[t])'
    BY <1>2, <1>3 DEF CallOK
<1>4. ASSUME call[t].pc # "idle", UNCHANGED <<conf, maxSeq, topic, pushTopic, transfer>>,
             Moves(t), RolesKept, ListOK', CallOK(t, call[t])',
             role' \in [User -> Role], memberInfo' \in [User -> Role],
             status' \in {"ok", "muted", "dismissed"},
             request' \in [User -> {"none", "pending", "handled"}],
             memberIDs' \in (SUBSET User) \union {NoList}, unlisted' \in SUBSET User,
             row' \in [User -> Absent..maxSeq],
             call' \in [Thread -> CallState(maxSeq)]
      PROVE  GInv'
  <2>1. GroupType'
      BY <1>1, <1>4 DEF GroupType
  <2> QED BY <1>4, <2>1, ThreadFrame
<1>5. CASE CreateGroupRequest(t)
  <2>1. /\ call[t].pc = "request" /\ Goto(t, "done")
        /\ UNCHANGED <<conf, role, status, cacheVars, row, wayVars>>
      BY <1>5 DEF CreateGroupRequest, At
  <2>2. Moves(t) /\ call' \in [Thread -> CallState(maxSeq)] /\ call'[t].pc \in Rest
      BY <1>1, <2>1, GotoStep
  <2>3. request' \in [User -> {"none", "pending", "handled"}]
      BY <1>1, <1>5 DEF CreateGroupRequest, GroupType
  <2>4. RolesKept /\ ListOK'
      BY <2>1, <2>2, SameMembers DEF cacheVars, listVars
  <2> QED BY <1>1, <1>3, <1>4, <2>1, <2>2, <2>3, <2>4 DEF GroupType, cacheVars, listVars, wayVars
<1>6. CASE CreateGroupMember(t)
  <2>1. call[t].pc = "insert" /\ UNCHANGED <<conf, status, request, cacheVars, row, wayVars>>
      BY <1>6 DEF CreateGroupMember, At
  <2>2. Enters(t)
      BY <1>1, <2>1 DEF CallOK
  <2>3. CASE role[Of(t)] = "none"
    <3>1. role' = [role EXCEPT ![Of(t)] = "ordinary"] /\ Goto(t, "delList")
        BY <1>6, <2>3 DEF CreateGroupMember
    <3>2. /\ Moves(t) /\ call' \in [Thread -> CallState(maxSeq)] /\ call'[t].pc = "delList"
          /\ call'[t].pc \in Rest
        BY <1>1, <3>1, GotoStep
    <3>3. role' \in [User -> Role] /\ RolesKept
        BY <1>1, <1>2, <2>1, <3>1 DEF GroupType, Role, RolesKept
    <3>4. \A u \in User : Behind(u) => Behind(u)'
        BY <2>1, <3>2, BehindKept DEF cacheVars, listVars
    <3>5. \A u \in User : role'[u] # "none" => role[u] # "none" \/ Behind(u)'
      <4>1. Enters(t)' /\ Of(t)' = Of(t)
          BY <2>1, <2>2 DEF Enters, Of
      <4>2. \A u \in User : u = Of(t) => Behind(u)'
          BY <3>2, <4>1 DEF Behind
      <4> QED BY <1>1, <3>1, <4>2 DEF GroupType
    <3>6. ListOK'
        BY <2>1, <3>4, <3>5, ListKept DEF cacheVars, listVars
    <3> QED BY <1>1, <1>3, <1>4, <2>1, <3>1, <3>2, <3>3, <3>6
            DEF GroupType, cacheVars, listVars, wayVars
  <2>4. CASE role[Of(t)] # "none"
    <3>1. UNCHANGED role /\ Goto(t, "refused")
        BY <1>6, <2>4 DEF CreateGroupMember
    <3>2. Moves(t) /\ call' \in [Thread -> CallState(maxSeq)] /\ call'[t].pc \in Rest
        BY <1>1, <3>1, GotoStep
    <3>3. RolesKept /\ ListOK'
        BY <2>1, <3>1, <3>2, SameMembers DEF cacheVars, listVars
    <3> QED BY <1>1, <1>3, <1>4, <2>1, <3>1, <3>2, <3>3
            DEF GroupType, cacheVars, listVars, wayVars
  <2> QED BY <2>3, <2>4
<1>7. CASE HandlerGroupRequest(t)
  <2>1. call[t].pc = "handle" /\ UNCHANGED <<conf, role, status, row, wayVars>>
      BY <1>7 DEF HandlerGroupRequest, At
  <2>2. conf.work[t].op = "respond" /\ t \in DOMAIN conf.work
      BY <1>1, <1>2, <2>1 DEF CallOK
  <2>3. RolesKept
      BY <2>1 DEF RolesKept
  <2>4. CASE /\ DelGroupMembersInfo({Of(t)}) /\ DelGroupMemberIDs({}) /\ Goto(t, "commit")
             /\ UNCHANGED request
    <3>1. Moves(t) /\ call' \in [Thread -> CallState(maxSeq)] /\ call'[t].pc = "commit"
        BY <1>1, <2>4, GotoStep
    <3>2. CallOK(t, call[t])'
        BY <2>1, <2>2, <3>1 DEF CallOK
    <3>3. memberInfo' \in [User -> Role]
        BY <1>1, <2>4, DelType
    <3>4. /\ memberIDs' \in (SUBSET User) \union {NoList} /\ unlisted' \in SUBSET User
          /\ (memberIDs' = NoList \/ (UNCHANGED memberIDs /\ unlisted' = unlisted))
        BY <1>1, <2>4, DelListType
    <3>5. ListOK'
      <4>1. CASE memberIDs' = NoList
          BY <4>1 DEF ListOK
      <4>2. CASE UNCHANGED memberIDs /\ unlisted' = unlisted
          BY <2>1, <3>1, <4>2, SameMembers
      <4> QED BY <3>4, <4>1, <4>2
    <3> QED BY <1>1, <1>4, <2>1, <2>3, <2>4, <3>1, <3>2, <3>3, <3>4, <3>5 DEF GroupType, wayVars
  <2>5. CASE Goto(t, "refused") /\ UNCHANGED <<request, cacheVars>>
    <3>1. Moves(t) /\ call' \in [Thread -> CallState(maxSeq)] /\ call'[t].pc \in Rest
        BY <1>1, <2>5, GotoStep
    <3>2. ListOK'
        BY <2>1, <2>5, <3>1, SameMembers DEF cacheVars, listVars
    <3> QED BY <1>1, <1>3, <1>4, <2>1, <2>3, <2>5, <3>1, <3>2
            DEF GroupType, cacheVars, listVars, wayVars
  <2>6. CASE /\ request' = [request EXCEPT ![Of(t)] = "handled"]
             /\ Goto(t, IF conf.work[t].role # "none" THEN "create" ELSE "done")
             /\ UNCHANGED cacheVars
    <3>1. Moves(t) /\ call' \in [Thread -> CallState(maxSeq)] /\ call'[t].pc \in Rest
        BY <1>1, <2>6, GotoStep
    <3>2. request' \in [User -> {"none", "pending", "handled"}]
        BY <1>1, <2>6 DEF GroupType
    <3>3. ListOK'
        BY <2>1, <2>6, <3>1, SameMembers DEF cacheVars, listVars
    <3> QED BY <1>1, <1>3, <1>4, <2>1, <2>3, <2>6, <3>1, <3>2, <3>3
            DEF GroupType, cacheVars, listVars, wayVars
  <2> QED BY <1>7, <2>4, <2>5, <2>6 DEF HandlerGroupRequest
<1>8. CASE HandlerCommit(t)
  <2>1. /\ call[t].pc = "commit" /\ Unlist({Of(t)})
        /\ role' = [role EXCEPT ![Of(t)] = "ordinary"] /\ Goto(t, "create")
        /\ UNCHANGED <<conf, status, memberInfo, memberIDs, row, wayVars>>
      BY <1>8 DEF HandlerCommit, At
  <2>2. Moves(t) /\ call' \in [Thread -> CallState(maxSeq)] /\ call'[t].pc \in Rest
      BY <1>1, <2>1, GotoStep
  <2>3. role' \in [User -> Role] /\ RolesKept
      BY <1>1, <1>2, <2>1 DEF GroupType, Role, RolesKept
  <2>4. request' \in [User -> {"none", "pending", "handled"}]
      BY <1>1, <1>8 DEF HandlerCommit, GroupType
  <2>5. unlisted' \in SUBSET User /\ unlisted \subseteq unlisted'
      BY <1>1, <1>2, <2>1 DEF GroupType, Unlist
  <2>6. ListOK'
    <3>1. CASE memberIDs = NoList
        BY <2>1, <3>1 DEF ListOK
    <3>2. CASE memberIDs # NoList
      <4>1. \A u \in User : Behind(u) => Behind(u)'
          BY <2>1, <2>2, <2>5, BehindKept
      <4>2. Of(t) \in unlisted'
          BY <2>1, <3>2 DEF Unlist
      <4>3. \A u \in User : u \in unlisted' => Behind(u)'
          BY DEF Behind
      <4>4. \A u \in User : role'[u] # "none" => role[u] # "none" \/ Behind(u)'
          BY <1>1, <2>1, <4>2, <4>3 DEF GroupType
      <4> QED BY <2>1, <4>1, <4>4, ListKept
    <3> QED BY <3>1, <3>2
  <2> QED BY <1>1, <1>3, <1>4, <2>1, <2>2, <2>3, <2>4, <2>5, <2>6 DEF GroupType, wayVars
<1>9. CASE DeleteGroupMember(t)
  <2>1. /\ call[t].pc = "delete" /\ ~ Locked({Of(t)})
        /\ role' = [role EXCEPT ![Of(t)] = "none"] /\ Goto(t, "delList")
        /\ UNCHANGED <<conf, status, request, cacheVars, row, wayVars>>
      BY <1>9 DEF DeleteGroupMember, At
  <2>2. Moves(t) /\ call' \in [Thread -> CallState(maxSeq)] /\ call'[t].pc \in Rest
      BY <1>1, <2>1, GotoStep
  <2>3. role' \in [User -> Role] /\ RolesKept
      BY <1>1, <1>2, <2>1 DEF GroupType, Role, RolesKept
  <2>4. \A u \in User : Behind(u) => Behind(u)'
      BY <2>1, <2>2, BehindKept DEF cacheVars, listVars
  <2>5. \A u \in User : role'[u] # "none" => role[u] # "none"
      BY <1>1, <2>1 DEF GroupType
  <2>6. ListOK'
      BY <2>1, <2>4, <2>5, ListKept DEF cacheVars, listVars
  <2> QED BY <1>1, <1>3, <1>4, <2>1, <2>2, <2>3, <2>6 DEF GroupType, cacheVars, listVars, wayVars
<1>10. CASE TransferRows(t)
  <2>1. call[t].pc = "swap" /\ UNCHANGED <<conf, groupVars, listVars, row, wayVars>>
      BY <1>10 DEF TransferRows, At
  <2>2. ASSUME Moves(t) PROVE RolesKept /\ ListOK'
      BY <2>1, <2>2, SameMembers DEF groupVars, listVars
  <2>3. CASE /\ role[By(t)] \notin {"none", call[t].role} /\ role[Of(t)] \notin {"none", "owner"}
             /\ DelGroupMembersInfo({By(t), Of(t)}) /\ Goto(t, "commit")
    <3>1. /\ Moves(t) /\ call' \in [Thread -> CallState(maxSeq)]
          /\ call'[t].pc = "commit" /\ call'[t].role = call[t].role
        BY <1>1, <2>3, GotoStep
    <3>2. memberInfo' \in [User -> Role]
        BY <1>1, <2>3, DelType
    <3>3. /\ t \in DOMAIN conf.work /\ conf.work[t].op = "transfer" /\ call[t].role # "none"
          /\ By(t)' = By(t) /\ Of(t)' = Of(t)
        BY <1>1, <2>1 DEF CallOK, By, Of
    <3>4. CallOK(t, call[t])'
        BY <2>1, <2>3, <3>1, <3>3 DEF CallOK, groupVars
    <3> QED BY <1>1, <1>4, <2>1, <2>2, <3>1, <3>2, <3>4 DEF GroupType, groupVars, listVars, wayVars
  <2>4. CASE UNCHANGED memberInfo /\ Goto(t, "refused")
    <3>1. Moves(t) /\ call' \in [Thread -> CallState(maxSeq)] /\ call'[t].pc \in Rest
        BY <1>1, <2>4, GotoStep
    <3> QED BY <1>1, <1>3, <1>4, <2>1, <2>2, <2>4, <3>1 DEF GroupType, groupVars, listVars, wayVars
  <2> QED BY <1>10, <2>3, <2>4 DEF TransferRows
<1>11. CASE TransferCommit(t)
  <2>1. /\ call[t].pc = "commit" /\ conf.work[t].op = "transfer"
        /\ role' = [role EXCEPT ![By(t)] = call[t].role, ![Of(t)] = "owner"] /\ Goto(t, "notify")
        /\ UNCHANGED <<conf, status, request, cacheVars, row, wayVars>>
      BY <1>11 DEF TransferCommit, At
  <2>2. Moves(t) /\ call' \in [Thread -> CallState(maxSeq)] /\ call'[t].pc \in Rest
      BY <1>1, <2>1, GotoStep
  <2>3. /\ call[t].role \in Role /\ call[t].role # "none"
        /\ role[By(t)] # "none" /\ role[Of(t)] # "none"
      BY <1>1, <2>1 DEF CallOK, CallState
  <2>4. role' \in [User -> Role] /\ \A u \in User : role'[u] = "none" <=> role[u] = "none"
      BY <1>1, <1>2, <2>1, <2>3 DEF GroupType, Role
  <2>5. \A u \in User : Behind(u) => Behind(u)'
      BY <2>1, <2>2, BehindKept DEF cacheVars, listVars
  <2>6. RolesKept /\ ListOK'
      BY <2>1, <2>4, <2>5, ListKept DEF RolesKept, cacheVars, listVars
  <2> QED BY <1>1, <1>3, <1>4, <2>1, <2>2, <2>4, <2>6 DEF GroupType, cacheVars, listVars, wayVars
<1>12. CASE UpdateGroupMembers(t)
  <2>1. /\ call[t].pc = "update"
        /\ role' = [role EXCEPT ![Of(t)] = IF @ = "none" THEN @ ELSE conf.work[t].role]
        /\ Goto(t, "delInfo")
        /\ UNCHANGED <<conf, status, request, cacheVars, row, wayVars>>
      BY <1>12 DEF UpdateGroupMembers, At
  <2>2. Moves(t) /\ call' \in [Thread -> CallState(maxSeq)] /\ call'[t].pc \in Rest
      BY <1>1, <2>1, GotoStep
  <2>3. conf.work[t].role \in {"ordinary", "admin"}
      BY <1>1, <2>1 DEF CallOK
  <2>4. role' \in [User -> Role] /\ \A u \in User : role'[u] = "none" <=> role[u] = "none"
      BY <1>1, <1>2, <2>1, <2>3 DEF GroupType, Role
  <2>5. \A u \in User : Behind(u) => Behind(u)'
      BY <2>1, <2>2, BehindKept DEF cacheVars, listVars
  <2>6. RolesKept /\ ListOK'
      BY <2>1, <2>4, <2>5, ListKept DEF RolesKept, cacheVars, listVars
  <2> QED BY <1>1, <1>3, <1>4, <2>1, <2>2, <2>4, <2>6 DEF GroupType, cacheVars, listVars, wayVars
<1>13. CASE UpdateStatus(t)
  <2>1. /\ call[t].pc = "status" /\ Goto(t, "notify")
        /\ UNCHANGED <<conf, role, request, cacheVars, row, wayVars>>
      BY <1>13 DEF UpdateStatus, At
  <2>2. Moves(t) /\ call' \in [Thread -> CallState(maxSeq)] /\ call'[t].pc \in Rest
      BY <1>1, <2>1, GotoStep
  <2>3. conf.work[t].op \in {"mute", "unmute", "dismiss"}
      BY <1>1, <2>1 DEF CallOK
  <2>4. status' \in {"ok", "muted", "dismissed"}
      BY <1>13, <2>3 DEF UpdateStatus
  <2>5. RolesKept /\ ListOK'
      BY <2>1, <2>2, SameMembers DEF cacheVars, listVars
  <2> QED BY <1>1, <1>3, <1>4, <2>1, <2>2, <2>4, <2>5 DEF GroupType, cacheVars, listVars, wayVars
<1>14. CASE FirstCreateConversation(t)
  <2>1. /\ call[t].pc = "create" /\ CreateGroupChatConversation({Of(t)})
        /\ Goto(t, IF call[t].role = "none" THEN "notify" ELSE "done")
        /\ UNCHANGED <<conf, groupVars, cacheVars, wayVars>>
      BY <1>14 DEF FirstCreateConversation, At
  <2>2. Moves(t) /\ call' \in [Thread -> CallState(maxSeq)] /\ call'[t].pc \in Rest
      BY <1>1, <2>1, GotoStep
  <2>3. row' \in [User -> Absent..maxSeq]
      BY <1>1, <2>1 DEF CreateGroupChatConversation, GroupType, Absent
  <2>4. RolesKept /\ ListOK'
      BY <2>1, <2>2, SameMembers DEF groupVars, cacheVars, listVars
  <2> QED BY <1>1, <1>3, <1>4, <2>1, <2>2, <2>3, <2>4
          DEF GroupType, groupVars, cacheVars, listVars, wayVars
<1>15. CASE Notification(t)
  <2>1. /\ call[t].pc = "notify"
        /\ Goto(t, IF Notice(t) \in {"quit", "kicked"} THEN "maxSeq" ELSE "done")
        /\ UNCHANGED <<conf, groupVars, listVars, row, maxSeq, transfer, pushTopic>>
      BY <1>15 DEF Notification, At
  <2>2. Moves(t) /\ call' \in [Thread -> CallState(maxSeq)] /\ call'[t].pc \in Rest
      BY <1>1, <2>1, GotoStep
  <2>3. memberInfo' \in [User -> Role]
      BY <1>1, <1>15, FetchType DEF Notification
  <2>4. Notice(t) \in NoticeKind
      BY DEF Notice, NoticeKind
  <2>5. Message(Notice(t), By(t), Of(t)) \in AnyMessage
      BY <1>2, <2>1, <2>4, MessageType
  <2>6. topic' \in Seq(AnyMessage) /\ (UNCHANGED topic \/ topic' # <<>>)
    <3>1. UNCHANGED topic \/ topic' = Append(topic, Message(Notice(t), By(t), Of(t)))
        BY <1>15 DEF Notification
    <3>2. topic \in Seq(AnyMessage)
        BY <1>1 DEF GroupType
    <3> QED BY <2>5, <3>1, <3>2, AppendProperties
  <2>7. RolesKept /\ ListOK' /\ CallOK(t, call[t])'
      BY <1>3, <2>1, <2>2, SameMembers DEF groupVars, listVars
  <2>8. GroupType'
      BY <1>1, <2>1, <2>2, <2>3, <2>6 DEF GroupType, groupVars, listVars
  <2> QED BY <2>1, <2>2, <2>6, <2>7, <2>8, ThreadFrame
<1>16. CASE MsgToMQ(t)
  <2>1. /\ call[t].pc = "send" /\ Goto(t, "done")
        /\ UNCHANGED <<conf, groupVars, cacheVars, row, maxSeq, transfer>>
      BY <1>16 DEF MsgToMQ, At
  <2>2. Moves(t) /\ call' \in [Thread -> CallState(maxSeq)] /\ call'[t].pc \in Rest
      BY <1>1, <2>1, GotoStep
  <2>3. /\ Message("single", By(t), Of(t)) \in AnyMessage
        /\ Message("chat", By(t), By(t)) \in AnyMessage
      BY <1>2, <2>1, MessageType
  <2>4. /\ topic' \in Seq(AnyMessage) /\ (UNCHANGED topic \/ topic' # <<>>)
        /\ pushTopic' \in Seq(AnyMessage)
    <3>1. topic \in Seq(AnyMessage) /\ pushTopic \in Seq(AnyMessage)
        BY <1>1 DEF GroupType
    <3>2. \/ UNCHANGED topic /\ pushTopic' = Append(pushTopic, Message("single", By(t), Of(t)))
          \/ UNCHANGED pushTopic /\ topic' = Append(topic, Message("chat", By(t), By(t)))
        BY <1>16 DEF MsgToMQ
    <3>3. CASE UNCHANGED topic /\ pushTopic' = Append(pushTopic, Message("single", By(t), Of(t)))
        BY <2>3, <3>1, <3>3, AppendProperties
    <3>4. CASE UNCHANGED pushTopic /\ topic' = Append(topic, Message("chat", By(t), By(t)))
        BY <2>3, <3>1, <3>4, AppendProperties
    <3> QED BY <3>2, <3>3, <3>4
  <2>5. RolesKept /\ ListOK' /\ CallOK(t, call[t])'
      BY <1>3, <2>1, <2>2, SameMembers DEF groupVars, cacheVars, listVars
  <2>6. GroupType'
      BY <1>1, <2>1, <2>2, <2>4 DEF GroupType, groupVars, cacheVars, listVars
  <2> QED BY <2>1, <2>2, <2>4, <2>5, <2>6, ThreadFrame
<1>17. CASE GetConversationMaxSeq(t)
  <2>1. call[t].pc = "maxSeq" /\ UNCHANGED <<conf, groupVars, cacheVars, row, wayVars>>
      BY <1>17 DEF GetConversationMaxSeq, At
  <2>2. ASSUME Moves(t) PROVE RolesKept /\ ListOK'
      BY <2>1, <2>2, SameMembers DEF groupVars, cacheVars, listVars
  <2>3. Moves(t) /\ call' \in [Thread -> CallState(maxSeq)] /\ call'[t].pc \in Rest
    <3>1. CASE call' = [call EXCEPT ![t].pc = "cap", ![t].seq = maxSeq]
      <4>1. /\ call'[t] = [call[t] EXCEPT !.pc = "cap", !.seq = maxSeq]
            /\ call' = [call EXCEPT ![t] = call'[t]]
          BY <1>1, <3>1
      <4>2. [call[t] EXCEPT !.pc = "cap", !.seq = maxSeq] \in CallState(maxSeq)
        <5>1. maxSeq \in 0..maxSeq
            BY <1>1 DEF GroupType
        <5> QED BY <1>1, <5>1 DEF CallState
      <4>3. call'[t].pc = "cap"
          BY <1>1, <4>1 DEF CallState
      <4> QED BY <1>1, <4>1, <4>2, <4>3 DEF Moves
    <3>2. CASE Goto(t, "refused")
        BY <1>1, <3>2, GotoStep
    <3> QED BY <1>17, <3>1, <3>2 DEF GetConversationMaxSeq
  <2> QED BY <1>1, <1>3, <1>4, <2>1, <2>2, <2>3
          DEF GroupType, groupVars, cacheVars, listVars, wayVars
<1>18. CASE SetConversationMaxSeq(t)
  <2>1. /\ call[t].pc = "cap" /\ UNCHANGED <<conf, groupVars, cacheVars, wayVars>>
        /\ Goto(t, "done") \/ Goto(t, "refused")
        /\ Cap(Of(t), call[t].seq) \/ UNCHANGED row
      BY <1>18 DEF SetConversationMaxSeq, At
  <2>2. Moves(t) /\ call' \in [Thread -> CallState(maxSeq)] /\ call'[t].pc \in Rest
      BY <1>1, <2>1, GotoStep
  <2>3. call[t].seq \in 0..maxSeq
      BY <1>1 DEF CallState
  <2>4. row' \in [User -> Absent..maxSeq]
    <3>1. maxSeq \in Nat /\ row \in [User -> Absent..maxSeq] /\ call[t].seq \in Absent..maxSeq
        BY <1>1, <2>3 DEF GroupType, Absent
    <3>2. CASE row' = [row EXCEPT ![Of(t)] = IF @ = Absent THEN @ ELSE call[t].seq]
        BY <3>1, <3>2
    <3> QED BY <2>1, <3>1, <3>2 DEF Cap
  <2>5. RolesKept /\ ListOK'
      BY <2>1, <2>2, SameMembers DEF groupVars, cacheVars, listVars
  <2> QED BY <1>1, <1>3, <1>4, <2>1, <2>2, <2>4, <2>5
          DEF GroupType, groupVars, cacheVars, listVars, wayVars
<1>19. CASE ExecDelList(t)
  <2> DEFINE us == IF Enters(t) THEN {Of(t)} ELSE {}
  <2>1. /\ call[t].pc = "delList" /\ DelGroupMemberIDs(us) /\ Goto(t, "delInfo")
        /\ UNCHANGED <<conf, groupVars, memberInfo, row, wayVars>>
      BY <1>19 DEF ExecDelList, At
  <2>2. Moves(t) /\ call' \in [Thread -> CallState(maxSeq)] /\ call'[t].pc \in Rest
      BY <1>1, <2>1, GotoStep
  <2>3. us \in SUBSET User
      BY <1>2, <2>1
  <2>4. /\ memberIDs' \in (SUBSET User) \union {NoList} /\ unlisted' \in SUBSET User
        /\ (memberIDs' = NoList \/ (UNCHANGED memberIDs /\ unlisted' = unlisted \union us))
      BY <1>1, <2>1, <2>3, DelListType
  <2>5. RolesKept
      BY <2>1 DEF RolesKept, groupVars
  <2>6. ListOK'
    <3>1. CASE memberIDs' = NoList
        BY <3>1 DEF ListOK
    <3>2. CASE UNCHANGED memberIDs /\ unlisted' = unlisted \union us
      <4>1. ASSUME NEW u \in User, Behind(u) PROVE Behind(u)'
        <5>1. CASE u \in unlisted'
            BY <5>1 DEF Behind
        <5>2. CASE u \notin unlisted'
          <6>1. PICK v \in Thread : call[v].pc = "delList" /\ Enters(v) /\ Of(v) = u
              BY <3>2, <4>1, <5>2 DEF Behind
          <6>2. v # t
              BY <3>2, <5>2, <6>1
          <6>3. call'[v] = call[v] /\ Enters(v)' = Enters(v) /\ Of(v)' = Of(v)
              BY <2>1, <2>2, <6>2 DEF Moves, Enters, Of
          <6> QED BY <6>1, <6>3 DEF Behind
        <5> QED BY <5>1, <5>2
      <4> QED BY <2>1, <3>2, <4>1, ListKept DEF groupVars
    <3> QED BY <2>4, <3>1, <3>2
  <2> QED BY <1>1, <1>3, <1>4, <2>1, <2>2, <2>4, <2>5, <2>6 DEF GroupType, groupVars, wayVars
<1>20. CASE ExecDelInfo(t)
  <2> DEFINE pc == CASE Enters(t) -> "create"
                     [] conf.work[t].op \in {"quit", "kick"} -> "notify"
                     [] OTHER -> "done"
  <2>1. /\ call[t].pc = "delInfo" /\ DelGroupMembersInfo({Of(t)}) /\ Goto(t, pc)
        /\ UNCHANGED <<conf, groupVars, listVars, row, wayVars>>
      BY <1>20 DEF ExecDelInfo, At
  <2>2. pc \in {"create", "notify", "done"}
      OBVIOUS
  <2> HIDE DEF pc
  <2>3. Moves(t) /\ call' \in [Thread -> CallState(maxSeq)] /\ call'[t].pc \in Rest
      BY <1>1, <2>1, <2>2, GotoStep
  <2>4. memberInfo' \in [User -> Role]
      BY <1>1, <2>1, DelType
  <2>5. RolesKept /\ ListOK'
      BY <2>1, <2>3, SameMembers DEF groupVars, listVars
  <2> QED BY <1>1, <1>3, <1>4, <2>1, <2>3, <2>4, <2>5 DEF GroupType, groupVars, listVars, wayVars
<1> QED BY <1>5, <1>6, <1>7, <1>8, <1>9, <1>10, <1>11, <1>12, <1>13, <1>14, <1>15, <1>16,
           <1>17, <1>18, <1>19, <1>20 DEF Serve, Begins

\* The topic of the push service only grows.
Grows(q, r) == Len(q) <= Len(r) /\ \A i \in 1 .. Len(q) : r[i] = q[i]

\* What msgtransfer puts on the push topic: messages, behind those that are there.
LEMMA PushedMessages ==
    ASSUME GInv, toPushTopic
    PROVE  /\ topic' \in Seq(AnyMessage)
           /\ pushTopic' \in Seq(AnyMessage)
           /\ Grows(pushTopic, pushTopic')
<1> DEFINE m == Head(topic)
           n == [m EXCEPT !.raw = TRUE]
<1>1. /\ topic \in Seq(AnyMessage) /\ pushTopic \in Seq(AnyMessage) /\ topic # <<>>
      /\ topic' = Tail(topic)
      /\ pushTopic' = pushTopic \o <<m, n>> \/ pushTopic' = Append(pushTopic, m)
    BY DEF GInv, GroupType, toPushTopic
<1>2. m \in AnyMessage /\ topic' \in Seq(AnyMessage)
    BY <1>1, HeadTailProperties
<1>3. n \in AnyMessage
    BY <1>2 DEF AnyMessage
<1> HIDE DEF m, n
<1>4. CASE pushTopic' = Append(pushTopic, m)
    BY <1>1, <1>2, <1>4, AppendProperties DEF Grows
<1>5. CASE pushTopic' = pushTopic \o <<m, n>>
  <2>1. <<m, n>> \in Seq(AnyMessage) /\ Len(<<m, n>>) = 2
      BY <1>2, <1>3
  <2>2. /\ pushTopic' \in Seq(AnyMessage) /\ Len(pushTopic') = Len(pushTopic) + 2
        /\ \A i \in 1 .. Len(pushTopic) : pushTopic'[i] = pushTopic[i]
      BY <1>1, <1>5, <2>1, ConcatProperties
  <2>3. Len(pushTopic) \in Nat
      BY <1>1, LenProperties
  <2> QED BY <1>2, <2>2, <2>3 DEF Grows
<1> QED BY <1>1, <1>4, <1>5

\* The steps of msgtransfer keep the invariant of the group.
LEMMA TransferStep ==
    ASSUME GInv, MsgTransfer
    PROVE  GInv'
<1>1. GroupType
    BY DEF GInv
<1>2. ASSUME UNCHANGED <<conf, role, call>> PROVE \A t \in Thread : CallOK(t, call[t])'
    BY <1>2 DEF GInv, CallOK, By, Of, Enters
<1>3. CASE BatchInsertChat2Cache
  <2>1. /\ topic # <<>> /\ maxSeq' = maxSeq + 1
        /\ transfer' = [transfer EXCEPT !.pc = IF maxSeq = 0 THEN "members" ELSE "push"]
        /\ UNCHANGED <<conf, groupVars, cacheVars, row, topic, pushTopic, call>>
      BY <1>3 DEF BatchInsertChat2Cache
  <2>2. maxSeq \in Nat /\ maxSeq' \in Nat /\ Absent..maxSeq \subseteq Absent..maxSeq'
        /\ 0..maxSeq \subseteq 0..maxSeq'
      BY <1>1, <2>1 DEF GroupType, Absent
  <2>3. CallState(maxSeq) \subseteq CallState(maxSeq')
      BY <2>2 DEF CallState
  <2>4. row' \in [User -> Absent..maxSeq'] /\ call' \in [Thread -> CallState(maxSeq')]
      BY <1>1, <2>1, <2>2, <2>3 DEF GroupType
  <2>5. transfer' \in [pc : {"idle", "members", "create", "push"}, ids : SUBSET User]
      BY <1>1, <2>1 DEF GroupType
  <2>6. GroupType'
      BY <1>1, <2>1, <2>2, <2>4, <2>5 DEF GroupType, groupVars, cacheVars, listVars
  <2> QED BY <1>2, <2>1, <2>6, SameCalls DEF GInv, groupVars, cacheVars, listVars
<1>4. CASE GetGroupMemberIDs
  <2>1. /\ transfer.pc = "members" /\ memberIDs' = MemberIDs
        /\ transfer' = [pc |-> "create", ids |-> MemberIDs]
        /\ UNCHANGED <<conf, groupVars, memberInfo, unlisted, row, maxSeq, topic, pushTopic, call>>
      BY <1>4 DEF GetGroupMemberIDs
  <2>2. MemberIDs \in SUBSET User
      BY <1>1, FetchType
  <2>3. GroupType'
      BY <1>1, <2>1, <2>2 DEF GroupType, groupVars
  <2>4. ListOK'
      BY <2>1, ListRead DEF groupVars
  <2> QED BY <1>2, <2>1, <2>3, <2>4 DEF GInv, groupVars
<1>5. CASE GroupChatFirstCreateConversation
  <2>1. /\ transfer.pc = "create" /\ CreateGroupChatConversation(transfer.ids)
        /\ transfer' = [pc |-> "push", ids |-> {}]
        /\ UNCHANGED <<conf, groupVars, cacheVars, maxSeq, topic, pushTopic, call>>
      BY <1>5 DEF GroupChatFirstCreateConversation
  <2>2. row' \in [User -> Absent..maxSeq]
      BY <1>1, <2>1 DEF CreateGroupChatConversation, GroupType, Absent
  <2>3. GroupType'
      BY <1>1, <2>1, <2>2 DEF GroupType, groupVars, cacheVars, listVars
  <2> QED BY <1>2, <2>1, <2>3, SameCalls DEF GInv, groupVars, cacheVars, listVars
<1>6. CASE toPushTopic
  <2>1. /\ transfer' = [transfer EXCEPT !.pc = "idle"]
        /\ UNCHANGED <<conf, groupVars, cacheVars, row, maxSeq, call>>
      BY <1>6 DEF toPushTopic
  <2>2. /\ transfer' \in [pc : {"idle", "members", "create", "push"}, ids : SUBSET User]
        /\ transfer'.pc = "idle"
      BY <1>1, <2>1 DEF GroupType
  <2>3. GroupType'
      BY <1>1, <1>6, <2>1, <2>2, PushedMessages DEF GroupType, groupVars, cacheVars, listVars
  <2> QED BY <1>2, <2>1, <2>2, <2>3, SameCalls DEF GInv, groupVars, cacheVars, listVars
<1> QED BY <1>3, <1>4, <1>5, <1>6 DEF MsgTransfer

\* Every step of the group service and of msgtransfer keeps the invariant of the
\* group; MAX_SEQ and the push topic only grow.
LEMMA GroupNext ==
    ASSUME GInv, Next
    PROVE  GInv' /\ UNCHANGED conf /\ maxSeq <= maxSeq' /\ Grows(pushTopic, pushTopic')
<1>1. maxSeq \in Nat /\ pushTopic \in Seq(AnyMessage)
    BY DEF GInv, GroupType
<1>2. ASSUME UNCHANGED pushTopic PROVE Grows(pushTopic, pushTopic')
  <2>1. Len(pushTopic) \in Nat
      BY <1>1, LenProperties
  <2> QED BY <1>2, <2>1 DEF Grows
<1>3. CASE MsgTransfer
  <2>1. GInv' /\ UNCHANGED conf /\ maxSeq <= maxSeq'
    <3>1. UNCHANGED conf /\ (maxSeq' = maxSeq \/ maxSeq' = maxSeq + 1)
        BY <1>3 DEF MsgTransfer, BatchInsertChat2Cache, GetGroupMemberIDs,
                    GroupChatFirstCreateConversation, toPushTopic
    <3>2. GInv'
        BY <1>3, TransferStep
    <3> QED BY <1>1, <3>1, <3>2
  <2>2. CASE toPushTopic
      BY <2>1, <2>2, PushedMessages
  <2>3. CASE ~ toPushTopic
      BY <1>2, <1>3, <2>1, <2>3 DEF MsgTransfer, BatchInsertChat2Cache, GetGroupMemberIDs,
                                   GroupChatFirstCreateConversation
  <2> QED BY <2>2, <2>3
<1>4. ASSUME NEW t \in Thread, Begins(t)
      PROVE  GInv' /\ UNCHANGED conf /\ maxSeq <= maxSeq' /\ Grows(pushTopic, pushTopic')
  <2>1. /\ UNCHANGED <<conf, groupVars, listVars, row, wayVars>> /\ call[t].pc = "idle"
        /\ memberInfo' \in [User -> Role]
        /\ Moves(t) /\ call' \in [Thread -> CallState(maxSeq)]
        /\ CallOK(t, call'[t])
      BY <1>4, BeginStep
  <2>2. GroupType'
      BY <2>1 DEF GInv, GroupType, groupVars, listVars, wayVars
  <2>3. CallOK(t, call[t])'
      BY <2>1 DEF CallOK, By, Of, Enters, groupVars
  <2>4. RolesKept /\ ListOK'
      BY <2>1, SameMembers DEF groupVars, listVars
  <2>5. UNCHANGED <<conf, maxSeq, pushTopic, transfer, topic>>
      BY <2>1 DEF wayVars
  <2> QED BY <1>1, <1>2, <2>1, <2>2, <2>3, <2>4, <2>5, ThreadFrame
<1>5. ASSUME NEW t \in Thread, Serve(t), ~ Begins(t)
      PROVE  GInv' /\ UNCHANGED conf /\ maxSeq <= maxSeq' /\ Grows(pushTopic, pushTopic')
  <2>1. GInv'
      BY <1>5, WriteStep
  <2>2. CASE MsgToMQ(t)
    <3>1. UNCHANGED <<conf, maxSeq>>
        BY <2>2 DEF MsgToMQ
    <3>2. \/ UNCHANGED pushTopic
          \/ pushTopic' = Append(pushTopic, Message("single", By(t), Of(t)))
        BY <2>2 DEF MsgToMQ
    <3>3. CASE pushTopic' = Append(pushTopic, Message("single", By(t), Of(t)))
      <4>1. t \in DOMAIN conf.work
          BY <2>2 DEF GInv, CallOK, MsgToMQ, At
      <4>2. Message("single", By(t), Of(t)) \in AnyMessage
          BY <4>1, RequestFacts, MessageType DEF GInv, GroupType
      <4>3. /\ Len(pushTopic') = Len(pushTopic) + 1 /\ Len(pushTopic) \in Nat
            /\ \A i \in 1 .. Len(pushTopic) : pushTopic'[i] = pushTopic[i]
          BY <1>1, <3>3, <4>2, AppendProperties, LenProperties
      <4> QED BY <1>1, <2>1, <3>1, <4>3 DEF Grows
    <3> QED BY <1>1, <1>2, <2>1, <3>1, <3>2, <3>3
  <2>3. CASE ~ MsgToMQ(t)
    <3>1. UNCHANGED <<conf, maxSeq, pushTopic>>
        BY <1>5, <2>3 DEF Serve, Begins, CreateGroupRequest, CreateGroupMember,
               HandlerGroupRequest, HandlerCommit, DeleteGroupMember, TransferRows,
               TransferCommit, UpdateGroupMembers, ExecDelList, ExecDelInfo, UpdateStatus,
               FirstCreateConversation,
               Notification, GetConversationMaxSeq, SetConversationMaxSeq, wayVars
    <3> QED BY <1>1, <1>2, <2>1, <3>1
  <2> QED BY <2>2, <2>3
<1> QED BY <1>3, <1>4, <1>5 DEF Next, Serve, Begins

\* The group starts well.
LEMMA GroupInit == Init => GInv
<1> SUFFICES ASSUME Init PROVE GInv
    OBVIOUS
<1>1. conf \in Setting /\ role = conf.start
    BY DEF Init
<1>2. conf.start \in [User -> Role]
    BY <1>1, GroupAssumption
<1>3. /\ status = "ok" /\ request = [u \in User |-> "none"]
      /\ memberInfo = [u \in User |-> "none"] /\ memberIDs = NoList /\ unlisted = {}
      /\ transfer = [pc |-> "idle", ids |-> {}] /\ pushTopic = <<>>
      /\ call = [t \in Thread |-> [pc |-> "idle", role |-> "none", seq |-> 0]]
    BY DEF Init
<1>4. /\ maxSeq \in Nat /\ row \in [User -> Absent..maxSeq] /\ topic \in Seq(AnyMessage)
  <2>1. CASE ~ conf.settled
    <3>1. PICK o \in Owners : topic = <<Message("notice", o, o)>>
        BY <2>1 DEF Init
    <3>2. Message("notice", o, o) \in AnyMessage
        BY MessageType DEF Owners, NoticeKind
    <3>3. row = [u \in User |-> Absent] /\ maxSeq = 0
        BY <2>1 DEF Init
    <3> QED BY <3>1, <3>2, <3>3 DEF Absent
  <2>2. CASE conf.settled
    <3>1. row = [u \in User |-> IF u \in Members THEN 0 ELSE Absent] /\ maxSeq = 1 /\ topic = <<>>
        BY <2>2 DEF Init
    <3> QED BY <3>1 DEF Absent
  <2> QED BY <2>1, <2>2
<1>5. call \in [Thread -> CallState(maxSeq)]
    BY <1>3, <1>4 DEF CallState, Role
<1>6. GroupType
    BY <1>1, <1>2, <1>3, <1>4, <1>5 DEF GroupType, Role
<1>7. \A t \in Thread : CallOK(t, call[t])
    BY <1>3 DEF CallOK
<1> QED BY <1>3, <1>6, <1>7 DEF GInv, ListOK

-----------------------------------------------------------------------------
(* The push service.                                                       *)

PushState(n, len) ==
    [pos : 1..(len + 1),
     pc : {"idle", "online", "maxSeq", "cap", "dismiss", "clear", "delList", "mark"},
     list : SUBSET User, todo : SUBSET Gateway, reached : SUBSET User, missed : SUBSET User,
     offline : SUBSET User, due : SUBSET User, dropped : BOOLEAN, answered : BOOLEAN, seq : 0..n]

\* Types, once the group's are known.
LEMMA TypeParts ==
    TypeOK <=> /\ GroupType
               /\ push \in PushState(maxSeq, Len(pushTopic))
               /\ start \in 1..(Len(pushTopic) + 1)
               /\ committed \in BOOLEAN /\ skipped \in BOOLEAN
               /\ online \in [Gateway -> SUBSET User]
               /\ crashes \in 0..MaxCrash
BY DEF TypeOK, GroupType, CallState, PushState

\* A consumer that is about to handle a message.
LEMMA ReadyType ==
    ASSUME NEW n \in Nat, NEW len \in Nat, NEW pos \in 1..(len + 1)
    PROVE  /\ Ready(pos) \in PushState(n, len)
           /\ Ready(pos).pc = "idle" /\ Ready(pos).pos = pos /\ ~ Ready(pos).answered
BY DEF Ready, PushState

\* The message at work on.
LEMMA CurrentType ==
    ASSUME PInv, push.pc # "idle" \/ push.pos <= Len(pushTopic)
    PROVE  /\ Current \in AnyMessage /\ push.pos \in 1 .. Len(pushTopic)
<1>1. push \in PushState(maxSeq, Len(pushTopic)) /\ pushTopic \in Seq(AnyMessage)
    BY TypeParts DEF PInv, GroupType
<1>2. Len(pushTopic) \in Nat /\ push.pos \in 1 .. Len(pushTopic) + 1
    BY <1>1, LenProperties DEF PushState
<1>3. push.pos \in 1 .. Len(pushTopic)
    BY <1>2 DEF PInv
<1> QED BY <1>1, <1>3, ElementOfSeq DEF Current

\* The group goes on: what the push service has in hand stays what it was.
LEMMA PushGroupStep ==
    ASSUME PInv, GroupStep
    PROVE  PInv'
<1>1. GInv' /\ UNCHANGED conf /\ maxSeq <= maxSeq' /\ Grows(pushTopic, pushTopic')
    BY GroupNext DEF PInv, GroupStep
<1>2. UNCHANGED <<push, start, committed, skipped, online, crashes>>
    BY DEF GroupStep, pushVars, offsetVars
<1>3. /\ push \in PushState(maxSeq, Len(pushTopic)) /\ start \in 1..(Len(pushTopic) + 1)
      /\ committed \in BOOLEAN /\ skipped \in BOOLEAN
      /\ online \in [Gateway -> SUBSET User] /\ crashes \in 0..MaxCrash
      /\ maxSeq \in Nat /\ Len(pushTopic) \in Nat
    BY TypeParts, LenProperties DEF PInv, GroupType
<1>4. maxSeq' \in Nat /\ Len(pushTopic') \in Nat /\ Len(pushTopic) <= Len(pushTopic')
    BY <1>1, LenProperties DEF GInv, GroupType, Grows
<1>5. /\ 0..maxSeq \subseteq 0..maxSeq'
      /\ 1..(Len(pushTopic) + 1) \subseteq 1..(Len(pushTopic') + 1)
    BY <1>1, <1>3, <1>4
<1>6. PushState(maxSeq, Len(pushTopic)) \subseteq PushState(maxSeq', Len(pushTopic'))
    BY <1>5 DEF PushState
<1>7. TypeOK'
  <2>1. GroupType'
      BY <1>1 DEF GInv
  <2>2. push' \in PushState(maxSeq', Len(pushTopic')) /\ start' \in 1..(Len(pushTopic') + 1)
      BY <1>2, <1>3, <1>5, <1>6
  <2>3. TypeOK' <=> /\ GroupType'
                    /\ push' \in PushState(maxSeq', Len(pushTopic'))
                    /\ start' \in 1..(Len(pushTopic') + 1)
                    /\ committed' \in BOOLEAN /\ skipped' \in BOOLEAN
                    /\ online' \in [Gateway -> SUBSET User]
                    /\ crashes' \in 0..MaxCrash
      BY DEF TypeOK, GroupType, CallState, PushState
  <2> QED BY <1>2, <1>3, <2>1, <2>2, <2>3
<1>8. push.pc # "idle" => Current' = Current /\ push.pos <= Len(pushTopic')
  <2> SUFFICES ASSUME push.pc # "idle" PROVE Current' = Current /\ push.pos <= Len(pushTopic')
      OBVIOUS
  <2>1. push.pos \in 1 .. Len(pushTopic)
      BY CurrentType
  <2> QED BY <1>1, <1>2, <1>3, <1>4, <2>1 DEF Current, Grows
<1>9. DueOK' /\ NoMissed'
  <2>1. CASE push.pc = "idle"
      BY <1>2, <2>1 DEF PInv, DueOK, NoMissed
  <2>2. CASE push.pc # "idle"
      BY <1>2, <1>8, <2>2 DEF PInv, DueOK, NoMissed
  <2> QED BY <2>1, <2>2
<1> QED BY <1>1, <1>2, <1>7, <1>8, <1>9 DEF PInv

\* A step of the push service that leaves the group alone keeps the group's part.
LEMMA PushFrame ==
    ASSUME PInv, UNCHANGED vars
    PROVE  GInv' /\ GroupType'
<1>1. UNCHANGED <<conf, role, status, request, memberInfo, memberIDs, unlisted, row, maxSeq, topic,
                  transfer, pushTopic, call>>
    BY DEF vars
<1>2. GroupType'
    BY <1>1 DEF PInv, GInv, GroupType
<1>3. \A t \in Thread : CallOK(t, call[t])'
    BY <1>1 DEF PInv, GInv, CallOK, By, Of, Enters
<1>4. ListOK'
    BY <1>1, SameCalls DEF PInv
<1> QED BY <1>1, <1>2, <1>3, <1>4 DEF PInv, GInv

\* The group service deletes the list of a dismissed group, or gives it up.
LEMMA DelFrame ==
    ASSUME GInv, DelGroupMemberIDs({}),
           UNCHANGED <<conf, role, status, request, memberInfo, row, maxSeq, topic, transfer,
                       pushTopic, call>>
    PROVE  GInv' /\ GroupType'
<1>1. /\ memberIDs' \in (SUBSET User) \union {NoList} /\ unlisted' \in SUBSET User
      /\ \/ memberIDs' = NoList
         \/ UNCHANGED memberIDs /\ unlisted' = unlisted
  <2>1. {} \in SUBSET User /\ unlisted \union {} = unlisted
      OBVIOUS
  <2> QED BY <2>1, DelListType DEF GInv
<1>2. GroupType'
    BY <1>1 DEF GInv, GroupType
<1>3. \A t \in Thread : CallOK(t, call[t])'
    BY DEF GInv, CallOK, By, Of, Enters
<1>4. ListOK'
  <2>1. CASE memberIDs' = NoList
      BY <2>1 DEF ListOK
  <2>2. CASE UNCHANGED memberIDs /\ unlisted' = unlisted
      BY <2>2, SameCalls
  <2> QED BY <1>1, <2>1, <2>2
<1> QED BY <1>2, <1>3, <1>4 DEF GInv

\* The consumer's own steps on a message: the position stays, the group may change as
\* long as its invariant, MAX_SEQ, the push topic and the requests do not.
LEMMA ConsumerFrame ==
    ASSUME PInv, GInv', UNCHANGED <<conf, maxSeq, pushTopic, offsetVars, online, crashes>>,
           push' \in PushState(maxSeq, Len(pushTopic)), push'.pos = push.pos,
           push.pos <= Len(pushTopic), DueOK', NoMissed'
    PROVE  PInv'
<1>1. /\ start \in 1..(Len(pushTopic) + 1) /\ online \in [Gateway -> SUBSET User]
      /\ crashes \in 0..MaxCrash /\ start <= push.pos
      /\ committed \in BOOLEAN /\ skipped \in BOOLEAN
      /\ UNCHANGED <<start, committed, skipped>>
    BY TypeParts DEF PInv, offsetVars
<1>2. GroupType'
    BY DEF GInv
<1>3. TypeOK' <=> /\ GroupType'
                  /\ push' \in PushState(maxSeq', Len(pushTopic'))
                  /\ start' \in 1..(Len(pushTopic') + 1)
                  /\ committed' \in BOOLEAN /\ skipped' \in BOOLEAN
                  /\ online' \in [Gateway -> SUBSET User]
                  /\ crashes' \in 0..MaxCrash
    BY DEF TypeOK, GroupType, CallState, PushState
<1>4. TypeOK'
    BY <1>1, <1>2, <1>3
<1> QED BY <1>1, <1>4 DEF PInv

\* The message stays the same.
LEMMA SameCurrent ==
    ASSUME UNCHANGED <<conf, pushTopic>>, push'.pos = push.pos
    PROVE  Current' = Current
BY DEF Current

\* Every step of the push service keeps its invariant.
LEMMA PushingStep ==
    ASSUME PInv, Pushing
    PROVE  PInv'
<1>1. /\ push \in PushState(maxSeq, Len(pushTopic)) /\ maxSeq \in Nat /\ GroupType /\ GInv
      /\ Len(pushTopic) \in Nat /\ online \in [Gateway -> SUBSET User]
      /\ start \in 1..(Len(pushTopic) + 1) /\ crashes \in 0..MaxCrash
      /\ DueOK /\ NoMissed /\ start <= push.pos
    BY TypeParts, LenProperties DEF PInv, GroupType
\* a message that is given up
<1>17. ASSUME push.pos <= Len(pushTopic), push' = [push EXCEPT !.pc = "mark", !.dropped = TRUE],
              UNCHANGED <<vars, offsetVars, online, crashes>>
       PROVE  PInv'
  <2>2. /\ push' \in PushState(maxSeq, Len(pushTopic)) /\ push'.pos = push.pos
        /\ push'.pc = "mark" /\ push'.dropped = TRUE
      BY <1>1, <1>17 DEF PushState
  <2>3. DueOK' /\ NoMissed'
      BY <2>2 DEF DueOK, NoMissed
  <2> QED BY <1>17, <2>2, <2>3, PushFrame, ConsumerFrame DEF vars
<1>2. CASE DropLate
    BY <1>2, <1>17 DEF DropLate
<1>3. CASE Push2User
  <2>1. /\ push.pos <= Len(pushTopic) /\ Current.kind = "single" /\ push.pc = "idle"
        /\ push' = [push EXCEPT !.pc = "online", !.list = {Current.from, Current.user},
                                !.todo = Gateway, !.due = {Current.user}]
        /\ UNCHANGED <<vars, offsetVars, online, crashes>>
      BY <1>3 DEF Push2User
  <2>2. Current.from \in User /\ Current.user \in User
      BY <2>1, CurrentType DEF AnyMessage
  <2>3. /\ push' \in PushState(maxSeq, Len(pushTopic)) /\ push'.pos = push.pos
        /\ push'.pc = "online" /\ push'.answered = push.answered
        /\ push'.list = {Current.from, Current.user} /\ push'.due = {Current.user}
      BY <1>1, <2>1, <2>2 DEF PushState
  <2>4. Current' = Current
      BY <2>1, <2>3, SameCurrent DEF vars
  <2>5. ~ push.answered
      BY <1>1, <2>1 DEF DueOK
  <2>6. DueOK' /\ NoMissed'
      BY <2>1, <2>3, <2>4, <2>5 DEF DueOK, NoMissed, NoticeKind
  <2> QED BY <2>1, <2>3, <2>6, PushFrame, ConsumerFrame DEF vars
<1>4. CASE Push2SuperGroup
  <2> DEFINE extra == IF Current.kind \in {"quit", "kicked"} THEN {Current.user} ELSE {}
             list == MemberIDs \union extra
             due == IF Current.kind = "chat"
                    THEN (Current.to \intersect Members) \ Unlisted ELSE {}
  <2>1. /\ push.pos <= Len(pushTopic) /\ Current.kind # "single"
        /\ push' = [push EXCEPT !.pc = "online", !.todo = Gateway, !.list = list, !.due = due]
        /\ memberIDs' = MemberIDs /\ memberInfo' = Fetch(MemberIDs)
        /\ UNCHANGED <<conf, groupVars, unlisted, row, wayVars, call, offsetVars, online, crashes>>
      BY <1>4 DEF Push2SuperGroup
  <2>2. /\ list \in SUBSET User /\ due \in SUBSET User /\ MemberIDs \in SUBSET User
        /\ memberInfo' \in [User -> Role]
    <3>1. Current.user \in User /\ Current.to \in SUBSET User
        BY <2>1, CurrentType DEF AnyMessage
    <3> QED BY <1>1, <2>1, <3>1, FetchType
  <2>3. due \subseteq list
    <3>1. \A u \in User : Behind(u) => u \in Unlisted
        BY DEF Behind, Unlisted, At
    <3>2. \A u \in Members : u \in MemberIDs \/ Behind(u)
        BY <1>1 DEF GInv, ListOK, MemberIDs, Members
    <3> QED BY <3>1, <3>2 DEF Members
  <2>4. Current.kind \in NoticeKind => due = {}
      BY DEF NoticeKind
  <2> HIDE DEF list, due
  <2>5. /\ push' \in PushState(maxSeq, Len(pushTopic)) /\ push'.pos = push.pos
        /\ push'.pc = "online" /\ push'.list = list /\ push'.due = due
      BY <1>1, <2>1, <2>2 DEF PushState
  <2>6. UNCHANGED <<conf, role, status, request, unlisted, row, maxSeq, topic, transfer, pushTopic,
                    call>>
      BY <2>1 DEF groupVars, wayVars
  <2>7. Current' = Current
      BY <2>5, <2>6, SameCurrent
  <2>8. DueOK' /\ NoMissed'
      BY <2>1, <2>3, <2>4, <2>5, <2>7 DEF DueOK, NoMissed
  <2>9. GInv'
    <3>1. GroupType'
        BY <1>1, <2>1, <2>2, <2>6 DEF GroupType
    <3>2. \A t \in Thread : CallOK(t, call[t])'
        BY <1>1, <2>6 DEF GInv, CallOK, By, Of, Enters
    <3>3. ListOK'
        BY <1>1, <2>1, <2>6, ListRead
    <3> QED BY <1>1, <2>6, <3>1, <3>2, <3>3 DEF GInv
  <2> QED BY <2>1, <2>5, <2>6, <2>8, <2>9, ConsumerFrame
<1>5. ASSUME NEW g \in Gateway, OnlinePush(g) PROVE PInv'
  <2> DEFINE Answer == [push EXCEPT !.todo = @ \ {g}, !.answered = TRUE,
                               !.reached = @ \union (push.list \intersect online[g]),
                               !.missed = @ \union (push.list \ online[g])]
             Skip == [push EXCEPT !.todo = @ \ {g}]
  <2>1. /\ push.pc = "online"
        /\ push' = Answer \/ push' = Skip
        /\ UNCHANGED <<vars, offsetVars, online, crashes>>
      BY <1>5 DEF OnlinePush
  <2>2. push.pos \in 1 .. Len(pushTopic)
      BY <2>1, CurrentType
  <2>3. /\ push' \in PushState(maxSeq, Len(pushTopic)) /\ push'.pos = push.pos
        /\ push'.pc = "online" /\ push'.list = push.list /\ push'.due = push.due
        /\ \/ push'.list \subseteq push'.reached \union push'.missed
           \/ push'.answered = push.answered /\ push'.reached = push.reached
              /\ push'.missed = push.missed
    <3>1. online[g] \in SUBSET User
        BY <1>1, <1>5
    <3>2. CASE push' = Answer
      <4>1. /\ push' \in PushState(maxSeq, Len(pushTopic)) /\ push'.pos = push.pos
            /\ push'.pc = "online" /\ push'.list = push.list /\ push'.due = push.due
          BY <1>1, <2>1, <3>1, <3>2 DEF PushState
      <4>2. /\ push'.reached = push.reached \union (push.list \intersect online[g])
            /\ push'.missed = push.missed \union (push.list \ online[g])
          BY <1>1, <3>2 DEF PushState
      <4> QED BY <4>1, <4>2
    <3>3. CASE push' = Skip
        BY <1>1, <2>1, <3>3 DEF PushState
    <3> QED BY <2>1, <3>2, <3>3
  <2>4. Current' = Current
      BY <2>1, <2>3, SameCurrent DEF vars
  <2>5. DueOK' /\ NoMissed'
      BY <1>1, <2>1, <2>3, <2>4 DEF DueOK, NoMissed
  <2>6. push.pos <= Len(pushTopic)
      BY <1>1, <2>2
  <2> QED BY <2>1, <2>3, <2>5, <2>6, PushFrame, ConsumerFrame DEF vars
<1>6. CASE OfflinePush
  <2>1. /\ push.pc = "online"
        /\ push' = [push EXCEPT !.offline = NeedOfflinePush, !.pc = Deferred]
        /\ UNCHANGED <<vars, offsetVars, online, crashes>>
      BY <1>6 DEF OfflinePush
  <2>2. Current \in AnyMessage /\ push.pos \in 1 .. Len(pushTopic)
      BY <2>1, CurrentType
  <2>3. NeedOfflinePush \in SUBSET User
      BY <1>1 DEF NeedOfflinePush, PushState
  <2>4. /\ Deferred \in {"maxSeq", "dismiss", "mark"}
        /\ Deferred # "mark" => Current.kind \in NoticeKind
      BY DEF Deferred, NoticeKind
  <2>5. /\ push' \in PushState(maxSeq, Len(pushTopic)) /\ push'.pos = push.pos
        /\ push'.pc = Deferred
        /\ push'.offline = NeedOfflinePush /\ push'.reached = push.reached
        /\ push'.due = push.due /\ push'.answered = push.answered
      BY <1>1, <2>1, <2>3, <2>4 DEF PushState
  <2>6. Current' = Current
      BY <2>1, <2>5, SameCurrent DEF vars
  <2>7. DueOK'
      BY <1>1, <2>1, <2>4, <2>5 DEF DueOK
  <2>8. NoMissed'
    <3> SUFFICES ASSUME Current.kind = "single" => push.answered
                 PROVE  push.due \ {Current.from} \subseteq push.reached \union NeedOfflinePush
        BY <2>5, <2>6 DEF NoMissed
    <3>1. CASE Current.kind = "single"
        BY <1>1, <2>1, <3>1 DEF DueOK, NeedOfflinePush
    <3>2. CASE Current.kind = "chat"
        BY <1>1, <2>1, <3>2 DEF DueOK, NeedOfflinePush
    <3>3. CASE Current.kind \in NoticeKind
        BY <1>1, <2>1, <3>3 DEF DueOK
    <3> QED BY <2>2, <3>1, <3>2, <3>3 DEF AnyMessage
  <2>9. push.pos <= Len(pushTopic)
      BY <1>1, <2>2
  <2> QED BY <2>1, <2>5, <2>7, <2>8, <2>9, PushFrame, ConsumerFrame DEF vars
\* behind a notice nobody is due
<1>7. ASSUME push.pc \in {"maxSeq", "cap", "dismiss", "clear", "delList"}, push'.due = push.due,
             push'.pc \notin {"idle", "online"}
      PROVE  DueOK' /\ NoMissed'
  <2>1. push'.due = {}
      BY <1>1, <1>7 DEF DueOK
  <2> QED BY <1>7, <2>1 DEF DueOK, NoMissed
<1>8. CASE PushMaxSeq
  <2>1. /\ push.pc = "maxSeq" /\ push' = [push EXCEPT !.pc = "cap", !.seq = maxSeq]
        /\ UNCHANGED <<vars, offsetVars, online, crashes>>
      BY <1>8 DEF PushMaxSeq
  <2>2. maxSeq \in 0..maxSeq /\ push.pos <= Len(pushTopic)
      BY <1>1, <2>1 DEF PInv
  <2>3. /\ push' \in PushState(maxSeq, Len(pushTopic)) /\ push'.pos = push.pos
        /\ push'.pc \notin {"idle", "online"} /\ push'.due = push.due
      BY <1>1, <2>1, <2>2 DEF PushState
  <2> QED BY <1>7, <2>1, <2>2, <2>3, PushFrame, ConsumerFrame DEF vars
\* the steps that end behind a notice, or go on to remove the members
<1>9. ASSUME push.pc \in {"maxSeq", "cap", "dismiss", "clear", "delList"},
             NEW pc \in {"mark", "clear", "delList"},
             push' = [push EXCEPT !.pc = pc], GInv',
             UNCHANGED <<conf, maxSeq, pushTopic, offsetVars, online, crashes>>
      PROVE  PInv'
  <2>1. push.pos <= Len(pushTopic)
      BY <1>9 DEF PInv
  <2>2. /\ push' \in PushState(maxSeq, Len(pushTopic)) /\ push'.pos = push.pos
        /\ push'.pc \notin {"idle", "online"} /\ push'.due = push.due
      BY <1>1, <1>9 DEF PushState
  <2> QED BY <1>7, <1>9, <2>1, <2>2, ConsumerFrame
<1>10. CASE PushCap
  <2>1. /\ push.pc = "cap" /\ Cap(Current.user, push.seq) /\ push' = [push EXCEPT !.pc = "mark"]
        /\ UNCHANGED <<conf, groupVars, cacheVars, wayVars, call, offsetVars, online, crashes>>
      BY <1>10 DEF PushCap
  <2>2. UNCHANGED <<conf, role, status, request, memberInfo, memberIDs, unlisted, maxSeq, topic,
                    transfer, pushTopic, call>>
      BY <2>1 DEF groupVars, cacheVars, listVars, wayVars
  <2>3. row' \in [User -> Absent..maxSeq]
    <3>1. row \in [User -> Absent..maxSeq] /\ push.seq \in Absent..maxSeq
        BY <1>1 DEF GroupType, PushState, Absent
    <3> QED BY <2>1, <3>1 DEF Cap
  <2>4. GInv'
    <3>1. GroupType'
        BY <1>1, <2>2, <2>3 DEF GroupType
    <3>2. \A t \in Thread : CallOK(t, call[t])'
        BY <1>1, <2>2 DEF GInv, CallOK, By, Of, Enters
    <3>3. ListOK'
        BY <1>1, <2>2, SameCalls
    <3> QED BY <1>1, <2>2, <3>1, <3>2, <3>3 DEF GInv
  <2> QED BY <1>9, <2>1, <2>2, <2>4
<1>11. CASE PushDismiss
    BY <1>9, <1>11, PushFrame DEF PushDismiss, vars
<1>12. CASE PushClear
  <2>1. /\ push.pc = "clear" /\ ~ Locked(User) /\ status' = "dismissed"
        /\ role' = [u \in User |-> "none"] /\ memberIDs' = MemberIDs
        /\ push' = [push EXCEPT !.pc = "delList"]
        /\ UNCHANGED <<conf, request, memberInfo, unlisted, row, wayVars, call, offsetVars, online,
                       crashes>>
      BY <1>12 DEF PushClear
  <2>2. UNCHANGED <<conf, request, memberInfo, unlisted, row, maxSeq, topic, transfer, pushTopic,
                    call>>
      BY <2>1 DEF wayVars
  <2>3. GroupType'
      BY <1>1, <2>1, <2>2, FetchType DEF GroupType, Role
  <2>4. ASSUME NEW t \in Thread PROVE CallOK(t, call[t])'
    <3>1. CallOK(t, call[t])
        BY <1>1 DEF GInv
    <3>2. call[t].pc # "commit"
      <4> SUFFICES ASSUME call[t].pc = "commit" PROVE FALSE
          OBVIOUS
      <4>1. By(t) \in User
          BY <1>1, <3>1, RequestFacts DEF GroupType, CallOK
      <4> QED BY <2>1, <4>1 DEF Locked, By
    <3> QED BY <2>2, <3>1, <3>2 DEF CallOK, Enters
  <2>5. ListOK'
      BY <2>1 DEF ListOK
  <2>6. GInv'
      BY <1>1, <2>2, <2>3, <2>4, <2>5 DEF GInv
  <2> QED BY <1>9, <2>1, <2>2, <2>6
<1>13. CASE MarkMessage
  <2>1. /\ push.pc = "mark" /\ push' = Ready(push.pos + 1)
        /\ UNCHANGED <<vars, offsetVars, online, crashes>>
      BY <1>13 DEF MarkMessage
  <2>2. push.pos \in 1 .. Len(pushTopic)
      BY <2>1, CurrentType
  <2>3. push.pos + 1 \in 1..(Len(pushTopic) + 1) /\ start <= push.pos + 1
      BY <1>1, <2>2
  <2>4. /\ push' \in PushState(maxSeq, Len(pushTopic)) /\ push'.pc = "idle"
        /\ push'.pos = push.pos + 1 /\ ~ push'.answered
      BY <1>1, <2>1, <2>3, ReadyType DEF Ready
  <2>5. GInv' /\ GroupType' /\ UNCHANGED <<maxSeq, pushTopic>>
      BY <2>1, PushFrame DEF vars
  <2>6. DueOK' /\ NoMissed'
      BY <2>4 DEF DueOK, NoMissed
  <2>7. UNCHANGED <<start, committed, skipped>> /\ committed \in BOOLEAN /\ skipped \in BOOLEAN
      BY <2>1, TypeParts DEF PInv, offsetVars
  <2>8. TypeOK'
      BY <1>1, <2>1, <2>4, <2>5, <2>7 DEF TypeOK, GroupType, CallState, PushState
  <2> QED BY <2>3, <2>4, <2>5, <2>6, <2>7, <2>8 DEF PInv
<1>14. CASE PushDelList
  <2>1. /\ push.pc = "delList" /\ DelGroupMemberIDs({}) /\ push' = [push EXCEPT !.pc = "mark"]
        /\ UNCHANGED <<conf, groupVars, memberInfo, row, wayVars, call, offsetVars,
                       online, crashes>>
      BY <1>14 DEF PushDelList
  <2>2. GInv'
      BY <1>1, <2>1, DelFrame DEF groupVars, wayVars
  <2> QED BY <1>9, <2>1, <2>2 DEF wayVars
<1>15. CASE DeferredError
    BY <1>9, <1>15, PushFrame DEF DeferredError, vars
<1>16. CASE PushError
  <2>1. UNCHANGED <<vars, offsetVars, online, crashes>>
      BY <1>16 DEF PushError
  <2>2. CASE push.pos <= Len(pushTopic) /\ push' = [push EXCEPT !.pc = "mark", !.dropped = TRUE]
      BY <1>17, <2>1, <2>2
  <2>3. CASE push.pc = "online" /\ push' = [push EXCEPT !.pc = Deferred, !.dropped = TRUE]
    <3>1. /\ Deferred \in {"maxSeq", "dismiss", "mark"}
          /\ Deferred # "mark" => Current.kind \in NoticeKind
        BY DEF Deferred, NoticeKind
    <3>2. /\ push' \in PushState(maxSeq, Len(pushTopic)) /\ push'.pos = push.pos
          /\ push'.pc = Deferred /\ push'.dropped = TRUE /\ push'.due = push.due
        BY <1>1, <2>3, <3>1 DEF PushState
    <3>3. DueOK' /\ NoMissed'
      <4>1. push'.pc # "mark" => push'.due = {}
          BY <1>1, <2>3, <3>1, <3>2 DEF DueOK
      <4> QED BY <3>1, <3>2, <4>1 DEF DueOK, NoMissed
    <3>4. push.pos <= Len(pushTopic)
        BY <2>3 DEF PInv
    <3> QED BY <2>1, <3>2, <3>3, <3>4, PushFrame, ConsumerFrame DEF vars
  <2> QED BY <1>16, <2>2, <2>3 DEF PushError
<1> QED BY <1>2, <1>3, <1>4, <1>5, <1>6, <1>8, <1>10, <1>11, <1>12, <1>13, <1>14, <1>15, <1>16
        DEF Pushing

\* A connection made or lost, a restart and a step that changes nothing.
LEMMA PushOther ==
    ASSUME PInv, \/ UNCHANGED allVars
                 \/ \E g \in Gateway, u \in User : Connect(g, u) \/ Disconnect(g, u)
                 \/ Crash
    PROVE  PInv'
<1>1. /\ push \in PushState(maxSeq, Len(pushTopic)) /\ maxSeq \in Nat /\ GroupType /\ GInv
      /\ Len(pushTopic) \in Nat /\ online \in [Gateway -> SUBSET User]
      /\ start \in 1..(Len(pushTopic) + 1) /\ crashes \in 0..MaxCrash
      /\ DueOK /\ NoMissed /\ start <= push.pos
      /\ push.pc # "idle" => push.pos <= Len(pushTopic)
    BY TypeParts, LenProperties DEF PInv, GroupType
<1>2. committed \in BOOLEAN /\ skipped \in BOOLEAN
    BY TypeParts DEF PInv
<1>3. GInv' /\ GroupType' /\ UNCHANGED <<conf, maxSeq, pushTopic>>
  <2>1. CASE UNCHANGED vars
      BY <2>1, PushFrame DEF vars
  <2>2. CASE ~ UNCHANGED vars
    <3>1. Crash
        BY <2>2 DEF allVars, Connect, Disconnect
    <3>2. UNCHANGED <<conf, groupVars, memberInfo, row, wayVars, call>>
        BY <3>1 DEF Crash
    <3>3. CASE push.pc = "delList"
      <4>1. DelGroupMemberIDs({})
          BY <3>1, <3>3 DEF Crash
      <4> QED BY <1>1, <3>2, <4>1, DelFrame DEF groupVars, wayVars
    <3>4. CASE push.pc # "delList"
      <4>1. UNCHANGED listVars
          BY <3>1, <3>4 DEF Crash
      <4> QED BY <2>2, <3>2, <4>1 DEF vars, groupVars, wayVars, listVars
    <3> QED BY <3>3, <3>4
  <2> QED BY <2>1, <2>2
<1>4. ASSUME online' \in [Gateway -> SUBSET User], crashes' \in 0..MaxCrash,
             push' \in PushState(maxSeq, Len(pushTopic)), start' \in 1..(Len(pushTopic) + 1),
             committed' \in BOOLEAN, skipped' \in BOOLEAN
      PROVE  TypeOK'
    BY <1>3, <1>4 DEF TypeOK, GroupType, CallState, PushState
<1>5. ASSUME UNCHANGED <<push, start, committed, skipped, crashes>>,
             online' \in [Gateway -> SUBSET User]
      PROVE  PInv'
  <2>1. TypeOK'
      BY <1>1, <1>2, <1>4, <1>5
  <2>2. Current' = Current
      BY <1>3, <1>5 DEF Current
  <2>3. DueOK' /\ NoMissed'
      BY <1>1, <1>3, <1>5, <2>2 DEF DueOK, NoMissed
  <2> QED BY <1>1, <1>3, <1>5, <2>1, <2>3 DEF PInv
<1>6. CASE UNCHANGED allVars
    BY <1>1, <1>5, <1>6 DEF allVars, pushVars, offsetVars
<1>7. ASSUME NEW g \in Gateway, NEW u \in User, Connect(g, u) \/ Disconnect(g, u) PROVE PInv'
  <2>1. online' \in [Gateway -> SUBSET User]
      BY <1>1, <1>7 DEF Connect, Disconnect
  <2> QED BY <1>5, <1>7, <2>1 DEF Connect, Disconnect, offsetVars
<1>8. CASE Crash
  <2>1. PICK pos : /\ pos \in start..push.pos \/ pos = Len(pushTopic) + 1
                   /\ start' = pos /\ push' = Ready(pos)
                   /\ committed' \in BOOLEAN /\ skipped' \in BOOLEAN
      BY <1>2, <1>8 DEF Crash
  <2>2. pos \in 1..(Len(pushTopic) + 1)
      BY <1>1, <2>1 DEF PushState
  <2>3. /\ push' \in PushState(maxSeq, Len(pushTopic)) /\ push'.pc = "idle" /\ push'.pos = pos
        /\ ~ push'.answered
      BY <1>1, <2>1, <2>2, ReadyType
  <2>4. crashes' \in 0..MaxCrash /\ UNCHANGED online
      BY <1>1, <1>8, PushAssumption DEF Crash
  <2>5. TypeOK'
      BY <1>1, <1>4, <2>1, <2>2, <2>3, <2>4
  <2>6. DueOK' /\ NoMissed'
      BY <2>3 DEF DueOK, NoMissed
  <2>7. start' <= push'.pos
      BY <2>1, <2>2, <2>3
  <2> QED BY <1>3, <2>3, <2>5, <2>6, <2>7 DEF PInv
<1> QED BY <1>6, <1>7, <1>8

\* The push service starts at the first message.
LEMMA PushInitial == PushInit => PInv
<1> SUFFICES ASSUME PushInit PROVE PInv
    OBVIOUS
<1>1. GInv
    BY GroupInit DEF PushInit
<1>2. GroupType /\ maxSeq \in Nat /\ Len(pushTopic) \in Nat
    BY <1>1, LenProperties DEF GInv, GroupType
<1>3. 1 \in 1..(Len(pushTopic) + 1)
    BY <1>2
<1>4. /\ push \in PushState(maxSeq, Len(pushTopic)) /\ push.pc = "idle"
      /\ push.pos = 1 /\ ~ push.answered
    BY <1>2, <1>3, ReadyType DEF PushInit
<1>5. /\ start = 1 /\ committed \in BOOLEAN /\ skipped \in BOOLEAN
      /\ online \in [Gateway -> SUBSET User] /\ crashes \in 0..MaxCrash
  <2>1. conf.settled \in BOOLEAN
      BY <1>2, GroupAssumption DEF GroupType
  <2>2. committed \in BOOLEAN
      BY <2>1 DEF PushInit
  <2>3. online \in [Gateway -> SUBSET User] /\ crashes \in 0..MaxCrash
      BY PushAssumption DEF PushInit
  <2> QED BY <2>2, <2>3 DEF PushInit
<1>6. TypeOK
    BY <1>2, <1>3, <1>4, <1>5, TypeParts
<1> QED BY <1>1, <1>4, <1>5, <1>6 DEF PInv, DueOK, NoMissed

\* The inductive invariant of the composition of Group and Push.
LEMMA PInvHolds == PushSpec => []PInv
<1>1. PInv /\ [PushNext]_allVars => PInv'
    BY PushGroupStep, PushingStep, PushOther DEF PushNext
<1> QED BY <1>1, PushInitial, PTL DEF PushSpec

\* Group and Push are type correct, and no cap lies beyond MAX_SEQ, for every group,
\* every set of requests and faults, and any number of gateways and restarts.
THEOREM PushTypeCorrect == PushSpec => []TypeOK
<1>1. PInv => TypeOK
    BY DEF PInv
<1> QED BY <1>1, PInvHolds, PTL

\* A message whose handling was not given up reaches, over a gateway or offline, each
\* one it is for: for every group, every set of requests and faults, any number of
\* gateways and restarts.  It rests on the member list that Push2SuperGroup reads having
\* every member behind whose entry its key was deleted, which the rows that a transfer of
\* the group locks protect.
THEOREM NoMissedHolds == PushSpec => []NoMissed
<1>1. PInv => NoMissed
    BY DEF PInv
<1> QED BY <1>1, PInvHolds, PTL
=============================================================================
