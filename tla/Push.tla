-------------------------------- MODULE Push --------------------------------
(***************************************************************************)
(* The push service (internal/push) at work on the group of module Group:  *)
(* one consumer of the push topic, the gateways it pushes through, the     *)
(* offline push for those no gateway reached, and what it does behind the  *)
(* notices of a group: it caps again those who left, and it removes the    *)
(* members of a dismissed group.                                           *)
(*                                                                         *)
(* Messages ask for an offline push, notices do not.  The vendor's offline *)
(* push succeeds, nobody has muted the conversation, and the callbacks to  *)
(* other servers are off.  A call to another service may fail.             *)
(***************************************************************************)
EXTENDS Group

CONSTANTS Gateway,
          MaxCrash   \* bound: restarts of the push service

ASSUME PushAssumption == MaxCrash \in Nat

VARIABLES
    push,        \* the consumer: position, step and local variables
    start,       \* the offset it last started from
    committed,   \* has an offset been committed?
    skipped,     \* ghost: a restart without one has passed over messages
    online,      \* online[g]: users with a connection to gateway g
    crashes

offsetVars == <<start, committed, skipped>>
pushVars == <<push, offsetVars, online, crashes>>
allVars == <<vars, pushVars>>

Current == pushTopic[push.pos]

\* Before the message at position pos.  due is a ghost: the users the message
\* must reach; dropped and answered: was it given up, did a gateway answer.
Ready(pos) ==
    [pos |-> pos, pc |-> "idle", list |-> {}, todo |-> {}, reached |-> {}, missed |-> {},
     offline |-> {}, due |-> {}, dropped |-> FALSE, answered |-> FALSE, seq |-> 0]

PushInit ==
    /\ Init
    /\ push = Ready(1)
    /\ start = 1 /\ committed = conf.settled /\ skipped = FALSE
    /\ online = [g \in Gateway |-> {}]
    /\ crashes = 0

-----------------------------------------------------------------------------
(* Connections come and go, and move from one gateway to another.          *)

Connect(g, u) ==
    /\ u \in conf.moves
    /\ online' = [online EXCEPT ![g] = @ \union {u}]
    /\ UNCHANGED <<vars, push, offsetVars, crashes>>

Disconnect(g, u) ==
    /\ u \in conf.moves
    /\ online' = [online EXCEPT ![g] = @ \ {u}]
    /\ UNCHANGED <<vars, push, offsetVars, crashes>>

-----------------------------------------------------------------------------
(* handleMs2PsChat                                                         *)

\* More than ten seconds old: dropped.
DropLate ==
    /\ push.pc = "idle" /\ push.pos <= Len(pushTopic)
    /\ "late" \in conf.fails
    /\ push' = [push EXCEPT !.pc = "mark", !.dropped = TRUE]
    /\ UNCHANGED <<vars, offsetVars, online, crashes>>

\* Push2User: the sender and the receiver
Push2User ==
    /\ push.pc = "idle" /\ push.pos <= Len(pushTopic)
    /\ Current.kind = "single"
    /\ push' = [push EXCEPT !.pc = "online", !.list = {Current.from, Current.user},
                            !.todo = Gateway, !.due = {Current.user}]
    /\ UNCHANGED <<vars, offsetVars, online, crashes>>

\* Whom the list may lack: those a call is about to delete it for, or failed to.
Unlisted == unlisted \union
              {Of(t) : t \in {s \in Thread : At(s, "delList") /\ Enters(s)}}

\* Push2SuperGroup: the member list through the local cache, whose hash is made
\* of the members' records; who left is told, too.
Push2SuperGroup ==
    /\ push.pc = "idle" /\ push.pos <= Len(pushTopic)
    /\ Current.kind # "single"
    /\ push' = [push EXCEPT
           !.pc = "online", !.todo = Gateway,
           !.list = MemberIDs \union
                      (IF Current.kind \in {"quit", "kicked"} THEN {Current.user} ELSE {}),
           !.due = IF Current.kind = "chat"
                   THEN (Current.to \intersect Members) \ Unlisted ELSE {}]
    /\ memberIDs' = MemberIDs
    /\ memberInfo' = Fetch(MemberIDs)
    /\ UNCHANGED <<conf, groupVars, unlisted, row, wayVars, call, offsetVars, online, crashes>>

\* The work deferred behind a notice.
Deferred ==
    CASE Current.kind \in {"quit", "kicked"} -> "maxSeq"
      [] Current.kind = "dismissed" /\ Current.raw -> "dismiss"
      [] OTHER -> "mark"

\* An error of a call to another service ends the handling of the message: at first
\* the member list, with nothing deferred; then the gateways' addresses; at last who
\* has muted the conversation and who wants an offline push.
PushError ==
    /\ "rpc" \in conf.fails
    /\ \/ /\ push.pc = "idle" /\ push.pos <= Len(pushTopic)
          /\ Current.kind # "single"
          /\ push' = [push EXCEPT !.pc = "mark", !.dropped = TRUE]
       \/ /\ push.pc = "online"
          /\ \/ push.todo = Gateway
             \/ push.todo = {} /\ Current.kind = "chat"
          /\ push' = [push EXCEPT !.pc = Deferred, !.dropped = TRUE]
    /\ UNCHANGED <<vars, offsetVars, online, crashes>>

\* GetConnsAndOnlinePush, one gateway after the other; an error is skipped.  The
\* reply has an entry for every user, reached or not.
OnlinePush(g) ==
    /\ push.pc = "online" /\ g \in push.todo
    /\ \/ push' = [push EXCEPT !.todo = @ \ {g}, !.answered = TRUE,
                               !.reached = @ \union (push.list \intersect online[g]),
                               !.missed = @ \union (push.list \ online[g])]
       \/ "gateway" \in conf.fails /\ push' = [push EXCEPT !.todo = @ \ {g}]
    /\ UNCHANGED <<vars, offsetVars, online, crashes>>

\* mutant: a user one gateway did not reach and another one did is left out, and
\* so is everyone when no gateway answers
NeedOfflinePushByReply ==
    IF Current.kind \in {"single", "chat"} THEN push.missed \ {Current.from} ELSE {}

\* Push2User goes by the entries of the replies, Push2SuperGroup by the list.
NeedOfflinePush ==
    CASE Current.kind = "single" -> push.missed \ {Current.from}
      [] Current.kind = "chat" -> push.list \ (push.reached \union {Current.from})
      [] OTHER -> {}

OfflinePush ==
    /\ push.pc = "online" /\ push.todo = {}
    /\ push' = [push EXCEPT !.offline = NeedOfflinePush, !.pc = Deferred]
    /\ UNCHANGED <<vars, offsetVars, online, crashes>>

\* A deferred call that fails is logged, no more.
DeferredError ==
    /\ "rpc" \in conf.fails
    /\ push.pc \in {"maxSeq", "cap", "dismiss", "clear"}
    /\ push' = [push EXCEPT !.pc = "mark"]
    /\ UNCHANGED <<vars, offsetVars, online, crashes>>

\* DeleteMemberAndSetConversationSeq of the push service
PushMaxSeq ==
    /\ push.pc = "maxSeq"
    /\ push' = [push EXCEPT !.pc = "cap", !.seq = maxSeq]
    /\ UNCHANGED <<vars, offsetVars, online, crashes>>

\* mutant: the service's cap is thought to be enough
PushCapNone ==
    /\ push.pc = "cap"
    /\ push' = [push EXCEPT !.pc = "mark"]
    /\ UNCHANGED <<vars, offsetVars, online, crashes>>

PushCap ==
    /\ push.pc = "cap"
    /\ Cap(Current.user, push.seq)
    /\ push' = [push EXCEPT !.pc = "mark"]
    /\ UNCHANGED <<conf, groupVars, cacheVars, wayVars, call, offsetVars, online, crashes>>

\* DismissGroup with DeleteMember, as the app manager: it needs an owner, whatever
\* the status is.
PushDismiss ==
    /\ push.pc = "dismiss"
    /\ push' = [push EXCEPT !.pc = IF Owners = {} THEN "mark" ELSE "clear"]
    /\ UNCHANGED <<vars, offsetVars, online, crashes>>

\* GroupDatabase.DismissGroup reads the list inside its transaction and deletes it
\* behind the commit; the members' own keys stay.
PushClear ==
    /\ push.pc = "clear"
    /\ ~ Locked(User)
    /\ status' = "dismissed"
    /\ role' = [u \in User |-> "none"]
    /\ memberIDs' = MemberIDs
    /\ push' = [push EXCEPT !.pc = "delList"]
    /\ UNCHANGED <<conf, request, memberInfo, unlisted, row, wayVars, call, offsetVars, online,
                   crashes>>

PushDelList ==
    /\ push.pc = "delList"
    /\ DelGroupMemberIDs({})
    /\ push' = [push EXCEPT !.pc = "mark"]
    /\ UNCHANGED <<conf, groupVars, memberInfo, row, wayVars, call, offsetVars, online, crashes>>

\* ConsumeClaim marks a message when it is handled.
MarkMessage ==
    /\ push.pc = "mark"
    /\ push' = Ready(push.pos + 1)
    /\ UNCHANGED <<vars, offsetVars, online, crashes>>

\* The process ends and starts again at the committed offset: marked offsets are
\* committed from time to time, so that is any one from the last start to the first
\* message that is not marked.  Without one it starts at the end of the topic
\* (OffsetNewest).  The group service goes on deleting the list.
Crash ==
    /\ crashes < MaxCrash
    /\ crashes' = crashes + 1
    /\ \/ \E pos \in start..push.pos :
             /\ committed \/ pos > start
             /\ start' = pos /\ push' = Ready(pos)
             /\ committed' = TRUE /\ UNCHANGED skipped
       \/ /\ ~ committed
          /\ start' = Len(pushTopic) + 1 /\ push' = Ready(Len(pushTopic) + 1)
          /\ skipped' = (skipped \/ push.pos <= Len(pushTopic)) /\ UNCHANGED committed
    /\ IF push.pc = "delList" THEN DelGroupMemberIDs({}) ELSE UNCHANGED listVars
    /\ UNCHANGED <<conf, groupVars, memberInfo, row, wayVars, call, online>>

-----------------------------------------------------------------------------
Pushing ==
    \/ DropLate \/ Push2User \/ Push2SuperGroup \/ (\E g \in Gateway : OnlinePush(g))
    \/ OfflinePush \/ PushMaxSeq \/ PushCap \/ PushDismiss \/ PushClear \/ PushDelList
    \/ PushError \/ DeferredError \/ MarkMessage

GroupStep == Next /\ UNCHANGED pushVars

PushNext ==
    \/ GroupStep
    \/ \E g \in Gateway, u \in User : Connect(g, u) \/ Disconnect(g, u)
    \/ Pushing \/ Crash

PushSpec == PushInit /\ [][PushNext]_allVars

\* The workers and the calls that were begun are scheduled; nobody need make a
\* request, connect or disconnect.
PushLiveSpec ==
    /\ PushSpec
    /\ WF_allVars(Pushing)
    /\ WF_allVars(MsgTransfer /\ UNCHANGED pushVars)
    /\ \A t \in Thread : WF_allVars(~ At(t, "idle") /\ Serve(t) /\ UNCHANGED pushVars)

-----------------------------------------------------------------------------
(* Properties.                                                             *)

\* Types; moreover no cap lies beyond MAX_SEQ.
TypeOK ==
    /\ conf \in Setting
    /\ role \in [User -> Role] /\ memberInfo \in [User -> Role]
    /\ status \in {"ok", "muted", "dismissed"}
    /\ request \in [User -> {"none", "pending", "handled"}]
    /\ memberIDs \in (SUBSET User) \union {NoList} /\ unlisted \in SUBSET User
    /\ maxSeq \in Nat
    /\ row \in [User -> Absent..maxSeq]
    /\ topic \in Seq(AnyMessage) /\ pushTopic \in Seq(AnyMessage)
    /\ transfer \in [pc : {"idle", "members", "create", "push"}, ids : SUBSET User]
    /\ call \in [Thread -> [pc : {"idle", "request", "insert", "handle", "commit", "delete",
                                  "swap", "update", "delList", "delInfo", "status", "create",
                                  "notify", "send", "maxSeq", "cap", "done", "refused"},
                            role : Role, seq : 0..maxSeq]]
    /\ push \in [pos : 1..(Len(pushTopic) + 1),
                 pc : {"idle", "online", "maxSeq", "cap", "dismiss", "clear", "delList",
                       "mark"},
                 list : SUBSET User, todo : SUBSET Gateway, reached : SUBSET User,
                 missed : SUBSET User, offline : SUBSET User, due : SUBSET User,
                 dropped : BOOLEAN, answered : BOOLEAN, seq : 0..maxSeq]
    /\ start \in 1..(Len(pushTopic) + 1) /\ committed \in BOOLEAN /\ skipped \in BOOLEAN
    /\ online \in [Gateway -> SUBSET User]
    /\ crashes \in 0..MaxCrash

\* Push2SuperGroup and Push2User: a message whose handling was not given up (too
\* late, or a call to another service failed) has reached everyone it was for, over
\* a gateway or by offline push: whoever was a member when it was sent and when it
\* was handled, once the key of the list has been deleted behind the entry, while
\* connections move between the gateways, gateways fail, members come and go and
\* the service restarts.  A single chat needs one gateway that answers.
NoMissed ==
    push.pc = "mark" /\ ~ push.dropped /\ (Current.kind = "single" => push.answered) =>
        push.due \ {Current.from} \subseteq push.reached \union push.offline

Leaves(u) == \E t \in DOMAIN conf.work : conf.work[t].op \in {"quit", "kick"} /\ Of(t) = u
Outside(u) == Leaves(u) /\ role[u] = "none" /\ row[u] = 0 /\ status # "dismissed"

\* QuitGroup and KickGroupMember: who has left the group is capped in the end (or
\* enters again, or the group is dismissed), although the service's own cap may
\* fail, or its notice may get lost, be handled too late or in vain: the two caps
\* back each other up, unless the push service restarts past the notice.
LeaverCapped == \A u \in User : Outside(u) ~> ~ Outside(u) \/ skipped

\* DismissGroup: once a group is dismissed its members are removed, behind the
\* notice that tells them, if the notice is sent, handled in time and not passed
\* over by a restart.
DismissalCompletes ==
    status = "dismissed" /\ conf.fails \intersect {"late", "notify", "rpc"} = {}
        ~> Members = {} \/ Owners = {} \/ skipped
=============================================================================
