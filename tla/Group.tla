------------------------------- MODULE Group -------------------------------
(***************************************************************************)
(* One group: the calls of the group service (internal/rpc/group) on its   *)
(* members, its status and its requests, the conversation rows that cap    *)
(* what a user may read (max_seq), and the way of the group's messages and *)
(* notices through msgtransfer to the topic of the push service.           *)
(*                                                                         *)
(* A thread is one RPC serving one request.  A call checks, writes and     *)
(* notifies in separate steps; its checks read one after the other what is *)
(* one step here.  Keys of the cache are deleted where the code does it:   *)
(* one by one after the commit, or inside the transaction.  The keys of    *)
(* the member list, its hash and its number are one key here, and that of  *)
(* the group's status is left out.  Callers are users, not app managers;   *)
(* the group's type is the working group, not the super group.             *)
(***************************************************************************)
EXTENDS Integers, Sequences, FiniteSets

CONSTANTS User,
          Thread,
          Setting,   \* the groups, requests and faults to consider
          NoList     \* the key of the member list is not in redis

Role == {"none", "ordinary", "admin", "owner"}
Op == {"invite", "join", "respond", "kick", "quit", "transfer", "setRole",
       "dismiss", "mute", "unmute", "send", "single"}

\* A request: op by user "by" about user "user"; role is the role to set, or for
\* respond the answer ("none" refuses); after: requests answered before it is made.
Request == [op : Op, by : User, user : User, role : Role, after : SUBSET Thread]

\* NeedVerification of the group
ApplyNeedVerificationInviteDirectly == 0
AllNeedVerification == 1
Directly == 2

\* What may fail: the service's cap of a leaver, its notices, the deletion of a key,
\* a gateway, the calls of the push service; and whether that may be more than ten
\* seconds behind.
Fault == {"cap", "notify", "evict", "gateway", "rpc", "late"}

ASSUME GroupAssumption ==
    /\ \A s \in Setting :
          /\ s.start \in [User -> Role] /\ s.verification \in 0..2
          /\ s.work \in [DOMAIN s.work -> Request] /\ DOMAIN s.work \subseteq Thread
          /\ s.fails \subseteq Fault /\ s.moves \subseteq User /\ s.settled \in BOOLEAN
    /\ \A us \in SUBSET User : NoList # us

VARIABLES
    conf,        \* the setting
    role,        \* MySQL: group_members, "none" without a row
    status,      \* the group's status
    request,     \* group_requests
    memberInfo,  \* redis: a member's role, "none" without a key
    memberIDs,   \* redis: the member list with its hash and number
    unlisted,    \* ghost: who entered and is not in the list, its key not deleted
    row,         \* max_seq of a user's conversation; Absent without a row
    maxSeq,      \* MAX_SEQ of the conversation, 0 without a key
    topic,       \* messages and notices on their way to msgtransfer
    transfer,    \* msgtransfer's worker
    pushTopic,   \* the topic of the push service, whole
    call         \* call[t]: step and local variables of thread t

groupVars == <<role, status, request>>
listVars == <<memberIDs, unlisted>>
cacheVars == <<memberInfo, listVars>>
wayVars == <<maxSeq, topic, transfer, pushTopic>>
vars == <<conf, role, status, request, memberInfo, memberIDs, unlisted, row, maxSeq,
          topic, transfer, pushTopic, call>>

Absent == -1
Members == {u \in User : role[u] # "none"}
Owners == {u \in User : role[u] = "owner"}

\* A message, or a notice about user; raw marks the copy of a notice that is not a
\* message of the chat; to is a ghost: the members when a message was sent.
Message(kind, from, user) ==
    [kind |-> kind, from |-> from, user |-> user, raw |-> FALSE,
     to |-> IF kind = "chat" THEN Members ELSE {}]
NoticeKind == {"quit", "kicked", "dismissed", "notice"}
AnyMessage == [kind : NoticeKind \union {"chat", "single"}, from : User, user : User,
               raw : BOOLEAN, to : SUBSET User]

\* CreateGroup has returned: the members are there, its notice is under way and
\* no conversation exists; or that is long past and nothing is under way.
Init ==
    /\ conf \in Setting
    /\ role = conf.start
    /\ status = "ok"
    /\ request = [u \in User |-> "none"]
    /\ memberInfo = [u \in User |-> "none"]
    /\ memberIDs = NoList /\ unlisted = {}
    /\ \/ /\ ~ conf.settled
          /\ row = [u \in User |-> Absent]
          /\ maxSeq = 0
          /\ \E o \in Owners : topic = <<Message("notice", o, o)>>
       \/ /\ conf.settled
          /\ row = [u \in User |-> IF u \in Members THEN 0 ELSE Absent]
          /\ maxSeq = 1
          /\ topic = <<>>
    /\ transfer = [pc |-> "idle", ids |-> {}]
    /\ pushTopic = <<>>
    /\ call = [t \in Thread |-> [pc |-> "idle", role |-> "none", seq |-> 0]]

-----------------------------------------------------------------------------
(* The caches in front of MySQL.                                           *)

\* TakeGroupMember: the cached role or that of the row, "none" if there is
\* neither.  A row that was found is cached, its absence is not.
Info(u) == IF memberInfo[u] = "none" THEN role[u] ELSE memberInfo[u]
Fetch(us) == [u \in User |-> IF u \in us THEN Info(u) ELSE memberInfo[u]]

\* ExecDel gives a key up after five tries, without an error.
DelGroupMembersInfo(us) ==
    \E kept \in IF "evict" \in conf.fails THEN SUBSET us ELSE {{}} :
        memberInfo' = [u \in User |-> IF u \in us \ kept THEN "none" ELSE memberInfo[u]]

\* The members us have entered with the call that deletes the list.
Unlist(us) == unlisted' = IF memberIDs = NoList THEN unlisted ELSE unlisted \union us
DelGroupMemberIDs(us) ==
    \/ memberIDs' = NoList /\ unlisted' = {}
    \/ "evict" \in conf.fails /\ UNCHANGED memberIDs /\ Unlist(us)

MemberIDs == IF memberIDs = NoList THEN Members ELSE memberIDs

\* Rows a transaction that has written and not committed holds.
Locked(us) ==
    \E t \in Thread : /\ call[t].pc = "commit"
                      /\ us \intersect {conf.work[t].by, conf.work[t].user} # {}

-----------------------------------------------------------------------------
(* The first step of a call: what it reads, and whether it goes on.        *)

By(t) == conf.work[t].by
Of(t) == conf.work[t].user
At(t, pc) == call[t].pc = pc
Goto(t, pc) == call' = [call EXCEPT ![t].pc = pc]
Returned(t) == call[t].pc \in {"done", "refused"}

\* Request t is made; the call reads the members us.
Begin(t, op, us) ==
    /\ t \in DOMAIN conf.work /\ conf.work[t].op = op
    /\ At(t, "idle")
    /\ \A s \in conf.work[t].after : Returned(s)
    /\ memberInfo' = Fetch(us)
    /\ UNCHANGED <<conf, groupVars, listVars, row, wayVars>>

GoOn(t, ok, pc) == Goto(t, IF ok THEN pc ELSE "refused")

InviteUserToGroup(t) ==
    /\ Begin(t, "invite", {By(t)})
    /\ GoOn(t, status # "dismissed" /\ Info(By(t)) # "none",
               IF /\ conf.verification = AllNeedVerification
                  /\ Info(By(t)) = "ordinary"
               THEN "request" ELSE "insert")

JoinGroup(t) ==
    /\ Begin(t, "join", {Of(t)})
    /\ GoOn(t, status # "dismissed" /\ Info(Of(t)) = "none",
               IF conf.verification = Directly THEN "insert" ELSE "request")

\* The status of the group is not looked at.
GroupApplicationResponse(t) ==
    /\ Begin(t, "respond", {By(t), Of(t)})
    /\ call' = [call EXCEPT ![t].role = Info(Of(t)),
                            ![t].pc = IF /\ Info(By(t)) \in {"owner", "admin"}
                                         /\ request[Of(t)] = "pending"
                                      THEN "handle" ELSE "refused"]

KickGroupMember(t) ==
    /\ Begin(t, "kick", {By(t), Of(t)})
    /\ GoOn(t, /\ By(t) # Of(t)
               /\ Info(Of(t)) # "none"
               /\ \/ Info(By(t)) = "owner"
                  \/ Info(By(t)) = "admin" /\ Info(Of(t)) = "ordinary", "delete")

QuitGroup(t) ==
    /\ Begin(t, "quit", {Of(t)})
    /\ GoOn(t, Info(Of(t)) \in {"ordinary", "admin"}, "delete")

TransferGroupOwner(t) ==
    /\ Begin(t, "transfer", {By(t), Of(t)})
    /\ call' = [call EXCEPT ![t].role = Info(Of(t)),
                            ![t].pc = IF /\ status # "dismissed"
                                         /\ By(t) # Of(t)
                                         /\ Info(By(t)) = "owner"
                                         /\ Info(Of(t)) # "none"
                                      THEN "swap" ELSE "refused"]

SetGroupMemberInfo(t) ==
    /\ Begin(t, "setRole", {By(t), Of(t)})
    /\ GoOn(t, /\ By(t) # Of(t)
               /\ Info(By(t)) = "owner"
               /\ Info(Of(t)) \in {"ordinary", "admin"}
               /\ conf.work[t].role \in {"ordinary", "admin"}, "update")

\* The owner is read from MySQL.
DismissGroup(t) ==
    /\ Begin(t, "dismiss", {})
    /\ \/ \E o \in Owners : GoOn(t, o = By(t) /\ status # "dismissed", "status")
       \/ Owners = {} /\ Goto(t, "refused")

\* MuteGroup and CancelMuteGroup: CheckGroupAdmin is all they ask.
MuteGroup(t) ==
    /\ \E op \in {"mute", "unmute"} : Begin(t, op, {By(t)})
    /\ GoOn(t, Info(By(t)) \in {"owner", "admin"}, "status")

\* SendMsg to the group: messageVerification.
SendMsg(t) ==
    LET r == Info(By(t)) IN
    /\ Begin(t, "send", {By(t)})
    /\ GoOn(t, /\ status # "dismissed"
               /\ r # "none"
               /\ status = "muted" => r \in {"owner", "admin"}, "send")

\* SendMsg to user.
SendSingle(t) == Begin(t, "single", {}) /\ Goto(t, "send")

-----------------------------------------------------------------------------
(* The writes.                                                             *)

\* CreateGroupRequest replaces the user's request.
CreateGroupRequest(t) ==
    /\ At(t, "request")
    /\ request' = [request EXCEPT ![Of(t)] = "pending"]
    /\ Goto(t, "done")
    /\ UNCHANGED <<conf, role, status, cacheVars, row, wayVars>>

Enters(t) == conf.work[t].op \in {"invite", "join"}

\* GroupDatabase.CreateGroup with a member: a duplicate key is an error.
CreateGroupMember(t) ==
    /\ At(t, "insert")
    /\ ~ Locked({Of(t)})
    /\ IF role[Of(t)] = "none"
       THEN role' = [role EXCEPT ![Of(t)] = "ordinary"] /\ Goto(t, "delList")
       ELSE UNCHANGED role /\ Goto(t, "refused")
    /\ UNCHANGED <<conf, status, request, cacheVars, row, wayVars>>

\* mutant: the key of the list is left for the next change of it
ExecDelListNone(t) ==
    /\ At(t, "delList")
    /\ Goto(t, "delInfo")
    /\ UNCHANGED <<conf, groupVars, cacheVars, row, wayVars>>

\* ExecDel, behind the commit: the keys of the list, and the member's own
ExecDelList(t) ==
    /\ At(t, "delList")
    /\ DelGroupMemberIDs(IF Enters(t) THEN {Of(t)} ELSE {})
    /\ Goto(t, "delInfo")
    /\ UNCHANGED <<conf, groupVars, memberInfo, row, wayVars>>

ExecDelInfo(t) ==
    /\ At(t, "delInfo")
    /\ DelGroupMembersInfo({Of(t)})
    /\ Goto(t, CASE Enters(t) -> "create"
                 [] conf.work[t].op \in {"quit", "kick"} -> "notify"
                 [] OTHER -> "done")
    /\ UNCHANGED <<conf, groupVars, listVars, row, wayVars>>

\* HandlerGroupRequest: the keys are deleted before the transaction commits.
HandlerGroupRequest(t) ==
    LET agree == conf.work[t].role # "none"
        enters == agree /\ call[t].role = "none"
    IN
    /\ At(t, "handle")
    /\ ~ Locked({Of(t)})
    /\ CASE enters /\ role[Of(t)] = "none" ->
               /\ DelGroupMembersInfo({Of(t)})
               /\ DelGroupMemberIDs({})
               /\ Goto(t, "commit")
               /\ UNCHANGED request
         [] enters /\ role[Of(t)] # "none" ->
               Goto(t, "refused") /\ UNCHANGED <<request, cacheVars>>
         [] ~ enters ->
               /\ request' = [request EXCEPT ![Of(t)] = "handled"]
               /\ Goto(t, IF agree THEN "create" ELSE "done")
               /\ UNCHANGED cacheVars
    /\ UNCHANGED <<conf, role, status, row, wayVars>>

HandlerCommit(t) ==
    /\ At(t, "commit") /\ conf.work[t].op = "respond"
    /\ request' = [request EXCEPT ![Of(t)] = "handled"]
    /\ role' = [role EXCEPT ![Of(t)] = "ordinary"]
    /\ Unlist({Of(t)})
    /\ Goto(t, "create")
    /\ UNCHANGED <<conf, status, memberInfo, memberIDs, row, wayVars>>

\* QuitGroup and KickGroupMember
DeleteGroupMember(t) ==
    /\ At(t, "delete")
    /\ ~ Locked({Of(t)})
    /\ role' = [role EXCEPT ![Of(t)] = "none"]
    /\ Goto(t, "delList")
    /\ UNCHANGED <<conf, status, request, cacheVars, row, wayVars>>

\* GroupDatabase.TransferGroupOwner: both updates must change a row (MySQL
\* counts changed rows); the keys are deleted before the transaction commits.
TransferRows(t) ==
    /\ At(t, "swap")
    /\ ~ Locked({By(t), Of(t)})
    /\ IF role[By(t)] \notin {"none", call[t].role} /\ role[Of(t)] \notin {"none", "owner"}
       THEN DelGroupMembersInfo({By(t), Of(t)}) /\ Goto(t, "commit")
       ELSE UNCHANGED memberInfo /\ Goto(t, "refused")
    /\ UNCHANGED <<conf, groupVars, listVars, row, wayVars>>

TransferCommit(t) ==
    /\ At(t, "commit") /\ conf.work[t].op = "transfer"
    /\ role' = [role EXCEPT ![By(t)] = call[t].role, ![Of(t)] = "owner"]
    /\ Goto(t, "notify")
    /\ UNCHANGED <<conf, status, request, cacheVars, row, wayVars>>

\* The update of a row that is gone changes nothing and is no error; the notice
\* is not a message of the chat.
UpdateGroupMembers(t) ==
    /\ At(t, "update")
    /\ ~ Locked({Of(t)})
    /\ role' = [role EXCEPT ![Of(t)] = IF @ = "none" THEN @ ELSE conf.work[t].role]
    /\ Goto(t, "delInfo")
    /\ UNCHANGED <<conf, status, request, cacheVars, row, wayVars>>

\* UpdateGroup of MuteGroup and CancelMuteGroup, and GroupDatabase.DismissGroup
\* without deleteMember
UpdateStatus(t) ==
    /\ At(t, "status")
    /\ status' = CASE conf.work[t].op = "mute" -> "muted"
                   [] conf.work[t].op = "unmute" -> "ok"
                   [] conf.work[t].op = "dismiss" -> "dismissed"
    /\ Goto(t, "notify")
    /\ UNCHANGED <<conf, role, request, cacheVars, row, wayVars>>

\* CreateGroupChatConversation: rows without a cap, an existing one loses its cap.
CreateGroupChatConversation(us) ==
    row' = [u \in User |-> IF u \in us THEN 0 ELSE row[u]]

\* After an approval that found the user in the group no member has entered.
FirstCreateConversation(t) ==
    /\ At(t, "create")
    /\ CreateGroupChatConversation({Of(t)})
    /\ Goto(t, IF call[t].role = "none" THEN "notify" ELSE "done")
    /\ UNCHANGED <<conf, groupVars, cacheVars, wayVars>>

-----------------------------------------------------------------------------
(* The notices, and the cap of a member who left.                          *)

Notice(t) ==
    CASE conf.work[t].op = "quit" -> "quit"
      [] conf.work[t].op = "kick" -> "kicked"
      [] conf.work[t].op = "dismiss" -> "dismissed"
      [] OTHER -> "notice"

\* mutant: the dismissed group takes no notice at all
CanNotifyNone(t) == status # "dismissed"

\* Building the notice may need the owner's row and the entrant's, and a
\* dismissed group takes no other notice (messageVerification).
CanNotify(t) ==
    /\ Notice(t) \in {"quit", "notice"} => Owners # {}
    /\ conf.work[t].op \in {"join", "respond"} => Info(Of(t)) # "none"
    /\ status = "dismissed" => Notice(t) = "dismissed"

\* An error is only logged.
Notification(t) ==
    /\ At(t, "notify")
    /\ \/ CanNotify(t) /\ topic' = Append(topic, Message(Notice(t), By(t), Of(t)))
       \/ (~ CanNotify(t) \/ "notify" \in conf.fails) /\ UNCHANGED topic
    /\ memberInfo' = Fetch(IF Notice(t) = "notice" THEN {By(t), Of(t)} ELSE {})
    /\ Goto(t, IF Notice(t) \in {"quit", "kicked"} THEN "maxSeq" ELSE "done")
    /\ UNCHANGED <<conf, groupVars, listVars, row, maxSeq, transfer, pushTopic>>

\* A single chat has its own conversation: its way to the push topic is
\* MsgTransfer's subject.
MsgToMQ(t) ==
    /\ At(t, "send")
    /\ IF conf.work[t].op = "single"
       THEN /\ pushTopic' = Append(pushTopic, Message("single", By(t), Of(t)))
            /\ UNCHANGED topic
       ELSE /\ topic' = Append(topic, Message("chat", By(t), By(t)))
            /\ UNCHANGED pushTopic
    /\ Goto(t, "done")
    /\ UNCHANGED <<conf, groupVars, cacheVars, row, maxSeq, transfer>>

\* deleteMemberAndSetConversationSeq: a conversation without MAX_SEQ is an error.
GetConversationMaxSeq(t) ==
    /\ At(t, "maxSeq")
    /\ \/ /\ maxSeq > 0
          /\ call' = [call EXCEPT ![t].pc = "cap", ![t].seq = maxSeq]
       \/ /\ maxSeq = 0 \/ "cap" \in conf.fails
          /\ Goto(t, "refused")
    /\ UNCHANGED <<conf, groupVars, cacheVars, row, wayVars>>

\* mutant: the seq after the last one
CapNext(u, seq) == row' = [row EXCEPT ![u] = IF @ = Absent THEN @ ELSE seq + 1]

\* SetConversationMaxSeq: the update of a row that is not there changes nothing.
Cap(u, seq) == row' = [row EXCEPT ![u] = IF @ = Absent THEN @ ELSE seq]

SetConversationMaxSeq(t) ==
    /\ At(t, "cap")
    /\ \/ Cap(Of(t), call[t].seq) /\ Goto(t, "done")
       \/ "cap" \in conf.fails /\ UNCHANGED row /\ Goto(t, "refused")
    /\ UNCHANGED <<conf, groupVars, cacheVars, wayVars>>

-----------------------------------------------------------------------------
(* msgtransfer, for the messages of the group one by one.                  *)

\* BatchInsertChat2Cache: the first message makes the conversation.
BatchInsertChat2Cache ==
    /\ transfer.pc = "idle" /\ topic # <<>>
    /\ maxSeq' = maxSeq + 1
    /\ transfer' = [transfer EXCEPT !.pc = IF maxSeq = 0 THEN "members" ELSE "push"]
    /\ UNCHANGED <<conf, groupVars, cacheVars, row, topic, pushTopic, call>>

GetGroupMemberIDs ==
    /\ transfer.pc = "members"
    /\ memberIDs' = MemberIDs
    /\ transfer' = [pc |-> "create", ids |-> MemberIDs]
    /\ UNCHANGED <<conf, groupVars, memberInfo, unlisted, row, maxSeq, topic, pushTopic, call>>

GroupChatFirstCreateConversation ==
    /\ transfer.pc = "create"
    /\ CreateGroupChatConversation(transfer.ids)
    /\ transfer' = [pc |-> "push", ids |-> {}]
    /\ UNCHANGED <<conf, groupVars, cacheVars, maxSeq, topic, pushTopic, call>>

\* A message; of a notice the copy that is a message of the chat and behind it the
\* notice itself.
toPushTopic ==
    LET m == Head(topic) IN
    /\ transfer.pc = "push"
    /\ pushTopic' = IF m.kind \in NoticeKind
                    THEN pushTopic \o <<m, [m EXCEPT !.raw = TRUE]>>
                    ELSE Append(pushTopic, m)
    /\ topic' = Tail(topic)
    /\ transfer' = [transfer EXCEPT !.pc = "idle"]
    /\ UNCHANGED <<conf, groupVars, cacheVars, row, maxSeq, call>>

-----------------------------------------------------------------------------
MsgTransfer ==
    \/ BatchInsertChat2Cache \/ GetGroupMemberIDs \/ GroupChatFirstCreateConversation
    \/ toPushTopic

Serve(t) ==
    \/ InviteUserToGroup(t) \/ JoinGroup(t) \/ GroupApplicationResponse(t)
    \/ KickGroupMember(t) \/ QuitGroup(t) \/ TransferGroupOwner(t)
    \/ SetGroupMemberInfo(t) \/ DismissGroup(t) \/ MuteGroup(t) \/ SendMsg(t)
    \/ SendSingle(t)
    \/ CreateGroupRequest(t) \/ CreateGroupMember(t) \/ ExecDelList(t)
    \/ ExecDelInfo(t) \/ HandlerGroupRequest(t)
    \/ HandlerCommit(t) \/ DeleteGroupMember(t) \/ TransferRows(t) \/ TransferCommit(t)
    \/ UpdateGroupMembers(t) \/ UpdateStatus(t) \/ FirstCreateConversation(t)
    \/ Notification(t) \/ MsgToMQ(t) \/ GetConversationMaxSeq(t)
    \/ SetConversationMaxSeq(t)

Next == MsgTransfer \/ \E t \in Thread : Serve(t)

Spec == Init /\ [][Next]_vars

-----------------------------------------------------------------------------
(* "group owner can't quit" (QuitGroup): a group that is not dismissed has *)
(* an owner at every moment.                                               *)
OwnerStays == status # "dismissed" => Owners # {}
=============================================================================
