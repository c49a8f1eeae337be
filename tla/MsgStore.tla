------------------------------ MODULE MsgStore ------------------------------
(***************************************************************************)
(* The messages of one conversation after they got their seqs: the copy in *)
(* redis, the documents in Mongo, the del lists and the min seqs, and the  *)
(* operations of pkg/common/db/controller/msg.go that the msg service, the *)
(* Mongo consumer and the cron tasks run on them at the same time.         *)
(*                                                                         *)
(* A message is its seq.  A thread is one RPC or cron run serving one      *)
(* request; every redis or Mongo command that another actor can race is a  *)
(* step of its own.  How seqs are assigned is MsgTransfer's subject: here  *)
(* BatchInsertChat2Cache stands for all of it.                             *)
(***************************************************************************)
EXTENDS Integers, Sequences, FiniteSets, FiniteSetsExt

CONSTANTS User,
          Thread,
          Workload,    \* what the threads may be asked to do, all of them together,
                       \* and which calls may fail meanwhile
          MaxMsg,      \* bound: messages sent to the conversation
          DocNum       \* messages of a document (singleGocMsgNum, 100 in the code)

Op == {"delete", "physical", "revoke", "clear", "clearAll", "destruct", "cron", "wipe", "pull"}
AllSeq == 1..MaxMsg

\* The calls whose error the code logs and then ignores: BatchInsertChat2DB, the DEL
\* of a copy in redis, and the GET of one.
Fallible == {"insert", "evict", "get"}

ASSUME MsgStoreAssumption ==
    /\ MaxMsg \in Nat
    /\ DocNum \in Nat \ {0}
    /\ Workload \subseteq [req : [Thread -> [op : Op, user : User, seq : AllSeq]],
                        fails : SUBSET Fallible]

VARIABLES
    maxSeq, minSeq,   \* MAX_SEQ and MIN_SEQ of the conversation
    userMin,          \* userMin[u]: CON_USER_MIN_SEQ
    hasRead,          \* hasRead[u]: HAS_READ_SEQ
    cache,            \* seqs with a copy in redis
    userDel,          \* userDel[u]: redis, seqs u deleted (userDelMessagesList)
    seqDel,           \* seqDel[s]: redis, users who deleted s (messageDelUserList)
    docs,             \* numbers of the documents that exist in Mongo
    slot,             \* slot[s]: the element of its document's msgs
    toMongo,          \* seqs in the topic of the Mongo consumer
    consumer,         \* the Mongo consumer: its step, its seq, the users it read
    expired,          \* seqs 1..expired are older than the retention time
    lost,             \* ghost: seqs whose insert into Mongo failed
    stale,            \* ghost: seqs whose copy in redis the consumer failed to delete
    req,              \* req[t]: what thread t is asked to do
    fails,            \* the calls that may fail
    th                \* th[t]: step and local variables of thread t

seqVars == <<maxSeq, minSeq, userMin, hasRead>>
delVars == <<userDel, seqDel>>
mongoVars == <<docs, slot>>
queueVars == <<toMongo, consumer>>
envVars == <<expired, lost, stale, req, fails>>
vars == <<seqVars, cache, delVars, mongoVars, queueVars, envVars, th>>

-----------------------------------------------------------------------------
DocOf(s) == (s - 1) \div DocNum
LastOf(d) == (d + 1) * DocNum

\* An element of msgs: has it a message, a revocation, a del_list, and who is in
\* the list.  Create gives every element a list; DeleteMsgsInOneDocByIndex
\* replaces the element by one that has none.
Empty == [msg |-> FALSE, revoke |-> FALSE, list |-> TRUE, del |-> {}]
Removed == [Empty EXCEPT !.list = FALSE]

\* GetMsgBySeqIndexIn1Doc for the seqs S of document d: no such document is an
\* error, and so is $in over an element without a del_list.
ReadFails(d, S) == d \notin docs \/ \E s \in S : DocOf(s) = d /\ ~ slot[s].list
FoundIn(d, u, S) == {s \in S : DocOf(s) = d /\ slot[s].msg /\ u \notin slot[s].del}

\* The seqs GetMsgBySeqsRange serves u: from the larger of the two min seqs.
RangeSeqs(u) == {s \in 1..maxSeq : s >= minSeq /\ s >= userMin[u]}
\* The seqs GetMsgBySeqs serves u: from the smaller of the two.
BySeqs(u) == {s \in 1..maxSeq : s >= minSeq \/ s >= userMin[u]}

\* What GetMsgBySeqsRange of the whole conversation returns, run at one instant.
Visible(u) ==
    LET S == RangeSeqs(u)
        failed == S \ cache
        D == {DocOf(s) : s \in failed}
    IN  IF \E d \in D : ReadFails(d, failed) THEN {}
        ELSE ((S \intersect cache) \ userDel[u]) \union UNION {FoundIn(d, u, failed) : d \in D}

Idle == [pc |-> "idle", pushed |-> FALSE, upto |-> 0, index |-> 0, full |-> {},
         asked |-> {}, want |-> {}, got |-> {}, missed |-> {}]

Init ==
    /\ maxSeq = 0 /\ minSeq = 0
    /\ userMin = [u \in User |-> 0]
    /\ hasRead = [u \in User |-> 0]
    /\ cache = {}
    /\ userDel = [u \in User |-> {}]
    /\ seqDel = [s \in AllSeq |-> {}]
    /\ docs = {}
    /\ slot = [s \in AllSeq |-> Empty]
    /\ toMongo = <<>>
    /\ consumer = [pc |-> "idle", seq |-> 0, users |-> {}]
    /\ expired = 0
    /\ lost = {} /\ stale = {}
    /\ \E w \in Workload : req = w.req /\ fails = w.fails
    /\ th = [t \in Thread |-> Idle]

-----------------------------------------------------------------------------
(* The environment: msgtransfer appends a message, and time passes.        *)

\* The message is in redis before MAX_SEQ covers it, and goes to the topic of
\* the Mongo consumer.
BatchInsertChat2Cache ==
    /\ maxSeq < MaxMsg
    /\ cache' = cache \union {maxSeq + 1}
    /\ toMongo' = Append(toMongo, maxSeq + 1)
    /\ maxSeq' = maxSeq + 1
    /\ UNCHANGED <<minSeq, userMin, hasRead, delVars, mongoVars, consumer, envVars, th>>

Expire ==
    /\ expired < maxSeq
    /\ expired' = expired + 1
    /\ UNCHANGED <<seqVars, cache, delVars, mongoVars, queueVars, lost, stale, req, fails, th>>

-----------------------------------------------------------------------------
(* BatchInsertBlock, for a message or a revocation: update the element if  *)
(* its document exists, else create the document; a duplicate key means    *)
(* that another writer created it, and the update is tried again.          *)

\* mutant: UpdateMsg with an empty key replaces the whole element
UpdateMsgWhole(s, key) == slot' = [slot EXCEPT ![s] = [Empty EXCEPT ![key] = TRUE]]

UpdateMsg(s, key) == slot' = [slot EXCEPT ![s] = [@ EXCEPT ![key] = TRUE]]

Create(s, key) ==
    /\ docs' = docs \union {DocOf(s)}
    /\ slot' = [r \in AllSeq |->
                  CASE r = s -> [Empty EXCEPT ![key] = TRUE]
                    [] r # s /\ DocOf(r) = DocOf(s) -> Empty
                    [] OTHER -> slot[r]]

-----------------------------------------------------------------------------
(* The Mongo consumer, handleChatWs2Mongo.                                 *)

ConsumerAt(pc) == consumer' = [consumer EXCEPT !.pc = pc]

\* mutant: the copy in redis is removed before the insert
MongoReceiveEvict ==
    /\ consumer.pc = "idle"
    /\ toMongo # <<>>
    /\ consumer' = [pc |-> "update", seq |-> Head(toMongo), users |-> {}]
    /\ toMongo' = Tail(toMongo)
    /\ cache' = cache \ {Head(toMongo)}
    /\ UNCHANGED <<seqVars, delVars, mongoVars, envVars, th>>

MongoReceive ==
    /\ consumer.pc = "idle"
    /\ toMongo # <<>>
    /\ consumer' = [pc |-> "update", seq |-> Head(toMongo), users |-> {}]
    /\ toMongo' = Tail(toMongo)
    /\ UNCHANGED <<seqVars, cache, delVars, mongoVars, envVars, th>>

MongoUpdate ==
    /\ consumer.pc = "update"
    /\ IF DocOf(consumer.seq) \in docs
       THEN UpdateMsg(consumer.seq, "msg") /\ ConsumerAt("evict")
       ELSE UNCHANGED slot /\ ConsumerAt("create")
    /\ UNCHANGED <<seqVars, cache, delVars, docs, toMongo, envVars, th>>

\* mutant: after a duplicate key the message is taken as inserted
MongoCreateNoRetry ==
    /\ consumer.pc = "create"
    /\ IF DocOf(consumer.seq) \in docs
       THEN UNCHANGED mongoVars /\ ConsumerAt("evict")
       ELSE Create(consumer.seq, "msg") /\ ConsumerAt("evict")
    /\ UNCHANGED <<seqVars, cache, delVars, toMongo, envVars, th>>

MongoCreate ==
    /\ consumer.pc = "create"
    /\ IF DocOf(consumer.seq) \in docs
       THEN UNCHANGED mongoVars /\ ConsumerAt("update")
       ELSE Create(consumer.seq, "msg") /\ ConsumerAt("evict")
    /\ UNCHANGED <<seqVars, cache, delVars, toMongo, envVars, th>>

\* The error is logged and the message is evicted all the same.
MongoFail ==
    /\ "insert" \in fails
    /\ consumer.pc \in {"update", "create"}
    /\ ConsumerAt("evict")
    /\ lost' = lost \union {consumer.seq}
    /\ UNCHANGED <<seqVars, cache, delVars, mongoVars, toMongo, expired, stale, req, fails, th>>

\* An error is logged, and the del lists are taken down all the same.
DeleteMessagesFromCache ==
    /\ consumer.pc = "evict"
    /\ \/ cache' = cache \ {consumer.seq} /\ UNCHANGED stale
       \/ "evict" \in fails /\ stale' = stale \union {consumer.seq} /\ UNCHANGED cache
    /\ ConsumerAt("members")
    /\ UNCHANGED <<seqVars, delVars, mongoVars, toMongo, expired, lost, req, fails, th>>

\* DelUserDeleteMsgsList: SMembers, then SRem of each and Del of the list.
DelListMembers ==
    /\ consumer.pc = "members"
    /\ consumer' = [consumer EXCEPT !.users = seqDel[consumer.seq], !.pc = "unlist"]
    /\ UNCHANGED <<seqVars, cache, delVars, mongoVars, toMongo, envVars, th>>

DelUserDeleteMsgsList ==
    LET s == consumer.seq
        users == consumer.users
    IN
    /\ consumer.pc = "unlist"
    /\ userDel' = [u \in User |-> IF u \in users THEN userDel[u] \ {s} ELSE userDel[u]]
    /\ seqDel' = IF users = {} THEN seqDel ELSE [seqDel EXCEPT ![s] = {}]
    /\ consumer' = [pc |-> "idle", seq |-> 0, users |-> {}]
    /\ UNCHANGED <<seqVars, cache, mongoVars, toMongo, envVars, th>>

-----------------------------------------------------------------------------
(* The threads.                                                            *)

At(t, op, pc) == req[t].op = op /\ th[t].pc = pc
Goto(t, pc) == th' = [th EXCEPT ![t].pc = pc]
Sent(t) == req[t].seq <= maxSeq

\* GetMessagesBySeq takes a copy whose GET fails for one that is not there.
Unread(S) == IF "get" \in fails THEN SUBSET (S \intersect cache) ELSE {{}}

\* DeleteMsgs without IsSyncOther: DeleteUserMsgsBySeqs, whose UserDeleteMsgs
\* adds to the two redis lists one after the other.
DeleteRead(t) ==
    /\ At(t, "delete", "idle") /\ Sent(t)
    /\ \E missed \in Unread({req[t].seq}) :
          th' = [th EXCEPT ![t].pc = IF req[t].seq \in cache \ missed THEN "list" ELSE "push",
                           ![t].missed = missed]
    /\ UNCHANGED <<seqVars, cache, delVars, mongoVars, queueVars, envVars>>

UserDeleteMsgs(t) ==
    /\ At(t, "delete", "list")
    /\ seqDel' = [seqDel EXCEPT ![req[t].seq] = @ \union {req[t].user}]
    /\ Goto(t, "listed")
    /\ UNCHANGED <<seqVars, cache, userDel, mongoVars, queueVars, envVars>>

UserDeleteMsgsListed(t) ==
    /\ At(t, "delete", "listed")
    /\ userDel' = [userDel EXCEPT ![req[t].user] = @ \union {req[t].seq}]
    /\ Goto(t, "push")
    /\ UNCHANGED <<seqVars, cache, seqDel, mongoVars, queueVars, envVars>>

\* mutant: an upsert, which makes the element of a document that does not exist
PushUniqueUpsert(t) ==
    LET s == req[t].seq IN
    /\ At(t, "delete", "push")
    /\ slot' = [slot EXCEPT ![s].list = TRUE, ![s].del = @ \union {req[t].user}]
    /\ th' = [th EXCEPT ![t].pc = "done", ![t].pushed = DocOf(s) \in docs]
    /\ UNCHANGED <<seqVars, cache, delVars, docs, queueVars, envVars>>

\* PushUnique matches nothing while the document does not exist; the caller
\* ignores the matched count, which "pushed" keeps for the properties.
PushUnique(t) ==
    LET s == req[t].seq
        matched == DocOf(s) \in docs
    IN
    /\ At(t, "delete", "push")
    /\ IF matched
       THEN slot' = [slot EXCEPT ![s].list = TRUE, ![s].del = @ \union {req[t].user}]
       ELSE UNCHANGED slot
    /\ th' = [th EXCEPT ![t].pc = "done", ![t].pushed = matched]
    /\ UNCHANGED <<seqVars, cache, delVars, docs, queueVars, envVars>>

\* DeleteMsgs with IsSyncOther: DeleteMsgsPhysicalBySeqs.
PhysicalCache(t) ==
    /\ At(t, "physical", "idle") /\ Sent(t)
    /\ cache' = cache \ {req[t].seq}
    /\ Goto(t, "mongo")
    /\ UNCHANGED <<seqVars, delVars, mongoVars, queueVars, envVars>>

PhysicalMongo(t) ==
    LET s == req[t].seq IN
    /\ At(t, "physical", "mongo")
    /\ IF DocOf(s) \in docs THEN slot' = [slot EXCEPT ![s] = Removed] ELSE UNCHANGED slot
    /\ Goto(t, "done")
    /\ UNCHANGED <<seqVars, cache, delVars, docs, queueVars, envVars>>

\* RevokeMsg: GetMsgBySeqs must find the message, not revoked yet; the copy in
\* redis is never marked revoked.  The caller has the right to revoke it.
RevokeRead(t) ==
    LET s == req[t].seq IN
    /\ At(t, "revoke", "idle") /\ Sent(t)
    /\ \E missed \in Unread({s}) :
          Goto(t, CASE s \notin BySeqs(req[t].user) -> "refused"
                    [] s \in BySeqs(req[t].user) /\ s \in cache \ missed -> "update"
                    [] OTHER -> "find")
    /\ UNCHANGED <<seqVars, cache, delVars, mongoVars, queueVars, envVars>>

RevokeFind(t) ==
    LET s == req[t].seq
        d == DocOf(s)
    IN
    /\ At(t, "revoke", "find")
    /\ Goto(t, IF /\ ~ ReadFails(d, {s})
                  /\ s \in FoundIn(d, req[t].user, {s})
                  /\ ~ slot[s].revoke
               THEN "update" ELSE "refused")
    /\ UNCHANGED <<seqVars, cache, delVars, mongoVars, queueVars, envVars>>

RevokeUpdate(t) ==
    LET s == req[t].seq IN
    /\ At(t, "revoke", "update")
    /\ IF DocOf(s) \in docs
       THEN UpdateMsg(s, "revoke") /\ Goto(t, "done")
       ELSE UNCHANGED slot /\ Goto(t, "create")
    /\ UNCHANGED <<seqVars, cache, delVars, docs, queueVars, envVars>>

RevokeCreate(t) ==
    LET s == req[t].seq IN
    /\ At(t, "revoke", "create")
    /\ IF DocOf(s) \in docs
       THEN UNCHANGED mongoVars /\ Goto(t, "update")
       ELSE Create(s, "revoke") /\ Goto(t, "done")
    /\ UNCHANGED <<seqVars, cache, delVars, queueVars, envVars>>

\* clearConversation: GetMaxSeqs, then the min seq of the user, or with
\* IsSyncOther that of the conversation, then the user's has-read seq.
ClearRead(t) ==
    /\ req[t].op \in {"clear", "clearAll"} /\ th[t].pc = "idle"
    /\ maxSeq > 0
    /\ th' = [th EXCEPT ![t].pc = "set", ![t].upto = maxSeq]
    /\ UNCHANGED <<seqVars, cache, delVars, mongoVars, queueVars, envVars>>

SetUserConversationsMinSeqs(t) ==
    /\ At(t, "clear", "set")
    /\ userMin' = [userMin EXCEPT ![req[t].user] = th[t].upto + 1]
    /\ Goto(t, "read")
    /\ UNCHANGED <<maxSeq, minSeq, hasRead, cache, delVars, mongoVars, queueVars, envVars>>

SetMinSeqs(t) ==
    /\ At(t, "clearAll", "set")
    /\ minSeq' = th[t].upto + 1
    /\ Goto(t, "read")
    /\ UNCHANGED <<maxSeq, userMin, hasRead, cache, delVars, mongoVars, queueVars, envVars>>

UserSetHasReadSeqs(t) ==
    /\ req[t].op \in {"clear", "clearAll"} /\ th[t].pc = "read"
    /\ hasRead' = [hasRead EXCEPT ![req[t].user] = th[t].upto]
    /\ Goto(t, "done")
    /\ UNCHANGED <<maxSeq, minSeq, userMin, cache, delVars, mongoVars, queueVars, envVars>>

\* UserMsgsDestruct: the expired messages of the documents, oldest first, up to
\* an element without one; then the user's min seq is read and compared, and set.
DestructFind(t) ==
    LET u == req[t].user
        seqs == {s \in 1..expired : /\ \A r \in 1..s : DocOf(r) \in docs => slot[r].msg
                                    /\ DocOf(s) \in docs
                                    /\ u \notin slot[s].del}
    IN
    /\ At(t, "destruct", "idle")
    /\ th' = [th EXCEPT ![t].upto = IF seqs = {} THEN 0 ELSE Max(seqs) + 1,
                        ![t].pc = IF seqs = {} THEN "done" ELSE "compare"]
    /\ UNCHANGED <<seqVars, cache, delVars, mongoVars, queueVars, envVars>>

DestructCompare(t) ==
    /\ At(t, "destruct", "compare")
    /\ Goto(t, IF userMin[req[t].user] < th[t].upto THEN "set" ELSE "done")
    /\ UNCHANGED <<seqVars, cache, delVars, mongoVars, queueVars, envVars>>

DestructSet(t) ==
    /\ At(t, "destruct", "set")
    /\ userMin' = [userMin EXCEPT ![req[t].user] = th[t].upto]
    /\ Goto(t, "done")
    /\ UNCHANGED <<maxSeq, minSeq, hasRead, cache, delVars, mongoVars, queueVars, envVars>>

\* DeleteConversationMsgsAndSetMinSeq, of the cron task with the retention time
\* and of DeleteMsgPhysical with none.
Sweeping(t, pc) == req[t].op \in {"cron", "wipe"} /\ th[t].pc = pc
TooOld(t) == 1..(IF req[t].op = "wipe" THEN maxSeq ELSE expired)

SweepStart(t) ==
    /\ Sweeping(t, "idle")
    /\ th' = [th EXCEPT ![t].pc = "sweep", ![t].asked = 1..maxSeq]
    /\ UNCHANGED <<seqVars, cache, delVars, mongoVars, queueVars, envVars>>

\* mutant: the first message of the document is looked at
AllTooOldFirst(d, old) == LastOf(d) - DocNum + 1 \in old

\* A document is full, and its last message is among the old ones.
AllTooOld(d, old) == LastOf(d) \in old

\* deleteMsgRecursion on the document at position index: one whose last message
\* is too old is put on the list of documents to delete, another one loses the
\* messages that are.
DeleteMsgRecursion(t) ==
    /\ Sweeping(t, "sweep")
    /\ \E d \in docs :
          LET old == {s \in TooOld(t) : DocOf(s) = d /\ slot[s].msg} IN
          /\ Cardinality({e \in docs : e < d}) = th[t].index
          /\ IF AllTooOld(d, old)
             THEN /\ th' = [th EXCEPT ![t].index = @ + 1, ![t].upto = LastOf(d),
                                      ![t].full = @ \union {d}]
                  /\ UNCHANGED slot
             ELSE /\ slot' = [s \in AllSeq |-> IF s \in old THEN Removed ELSE slot[s]]
                  /\ th' = [th EXCEPT ![t].index = @ + 1,
                                      ![t].upto = IF old = {} THEN @ ELSE Max(old)]
    /\ UNCHANGED <<seqVars, cache, delVars, docs, queueVars, envVars>>

\* No document at that position: the full ones are deleted.
DeleteDocs(t) ==
    /\ Sweeping(t, "sweep")
    /\ Cardinality(docs) <= th[t].index
    /\ docs' = docs \ th[t].full
    /\ slot' = [s \in AllSeq |-> IF DocOf(s) \in th[t].full THEN Empty ELSE slot[s]]
    /\ Goto(t, IF req[t].op = "wipe" THEN "clean" ELSE "set")
    /\ UNCHANGED <<seqVars, cache, delVars, queueVars, envVars>>

CleanUpOneConversationAllMsg(t) ==
    /\ At(t, "wipe", "clean")
    /\ cache' = {}
    /\ Goto(t, "set")
    /\ UNCHANGED <<seqVars, delVars, mongoVars, queueVars, envVars>>

\* MIN_SEQ is set behind the last message that was too old, to 1 if none was.
SetMinSeq(t) ==
    /\ Sweeping(t, "set")
    /\ minSeq' = th[t].upto + 1
    /\ Goto(t, "done")
    /\ UNCHANGED <<maxSeq, userMin, hasRead, cache, delVars, mongoVars, queueVars, envVars>>

\* PullMessageBySeqs: GetMsgBySeqsRange of all there is, with a num that covers
\* the range.  The seqs, the redis copies, the user's del list and each document
\* are read one after the other.
PullSeqs(t) ==
    LET S == RangeSeqs(req[t].user) IN
    /\ At(t, "pull", "idle")
    /\ th' = [th EXCEPT ![t].pc = IF S = {} THEN "done" ELSE "cache", ![t].asked = S]
    /\ UNCHANGED <<seqVars, cache, delVars, mongoVars, queueVars, envVars>>

GetMessagesBySeq(t) ==
    /\ At(t, "pull", "cache")
    /\ \E missed \in Unread(th[t].asked) :
          LET found == (th[t].asked \intersect cache) \ missed IN
          th' = [th EXCEPT ![t].pc = "list", ![t].missed = missed, ![t].got = found,
                           ![t].want = th[t].asked \ found]
    /\ UNCHANGED <<seqVars, cache, delVars, mongoVars, queueVars, envVars>>

GetUserDelList(t) ==
    /\ At(t, "pull", "list")
    /\ th' = [th EXCEPT ![t].pc = IF th[t].want = {} THEN "done" ELSE "mongo",
                        ![t].got = @ \ userDel[req[t].user]]
    /\ UNCHANGED <<seqVars, cache, delVars, mongoVars, queueVars, envVars>>

\* The documents are visited in the order of a Go map; one that cannot be read
\* fails the whole call.
GetMsgBySeqIndexIn1Doc(t) ==
    /\ At(t, "pull", "mongo")
    /\ \E d \in {DocOf(s) : s \in th[t].want} :
          LET rest == {s \in th[t].want : DocOf(s) # d}
              failed == ReadFails(d, th[t].want)
          IN  th' = [th EXCEPT
                 ![t].pc = CASE failed -> "refused"
                             [] ~ failed /\ rest = {} -> "done"
                             [] OTHER -> "mongo",
                 ![t].want = rest,
                 ![t].got = IF failed THEN {}
                            ELSE @ \union FoundIn(d, req[t].user, th[t].want)]
    /\ UNCHANGED <<seqVars, cache, delVars, mongoVars, queueVars, envVars>>

-----------------------------------------------------------------------------
Consume ==
    \/ MongoReceive \/ MongoUpdate \/ MongoCreate \/ MongoFail
    \/ DeleteMessagesFromCache \/ DelListMembers \/ DelUserDeleteMsgsList

Serve(t) ==
    \/ DeleteRead(t) \/ UserDeleteMsgs(t) \/ UserDeleteMsgsListed(t) \/ PushUnique(t)
    \/ PhysicalCache(t) \/ PhysicalMongo(t)
    \/ RevokeRead(t) \/ RevokeFind(t) \/ RevokeUpdate(t) \/ RevokeCreate(t)
    \/ ClearRead(t) \/ SetUserConversationsMinSeqs(t) \/ SetMinSeqs(t) \/ UserSetHasReadSeqs(t)
    \/ DestructFind(t) \/ DestructCompare(t) \/ DestructSet(t)
    \/ SweepStart(t) \/ DeleteMsgRecursion(t) \/ DeleteDocs(t)
    \/ CleanUpOneConversationAllMsg(t) \/ SetMinSeq(t)
    \/ PullSeqs(t) \/ GetMessagesBySeq(t) \/ GetUserDelList(t) \/ GetMsgBySeqIndexIn1Doc(t)

Next == BatchInsertChat2Cache \/ Expire \/ Consume \/ \E t \in Thread : Serve(t)

Spec == Init /\ [][Next]_vars

\* The Mongo consumer and the threads that serve a request are scheduled.
LiveSpec == Spec /\ WF_vars(Consume) /\ \A t \in Thread : WF_vars(Serve(t))

-----------------------------------------------------------------------------
(* Properties.                                                             *)

\* Every variable stays within its type; moreover the elements of a document
\* that does not exist are empty, so that what Create writes is what is there.
TypeOK ==
    /\ maxSeq \in 0..MaxMsg
    /\ minSeq \in 0..(MaxMsg + 1)
    /\ userMin \in [User -> 0..(MaxMsg + 1)]
    /\ hasRead \in [User -> 0..MaxMsg]
    /\ cache \subseteq 1..maxSeq
    /\ userDel \in [User -> SUBSET AllSeq]
    /\ seqDel \in [AllSeq -> SUBSET User]
    /\ docs \subseteq {DocOf(s) : s \in AllSeq}
    /\ slot \in [AllSeq -> [msg : BOOLEAN, revoke : BOOLEAN, list : BOOLEAN, del : SUBSET User]]
    /\ \A s \in AllSeq : DocOf(s) \notin docs => slot[s] = Empty
    /\ toMongo \in Seq(AllSeq)
    /\ consumer \in [pc : {"idle", "update", "create", "evict", "members", "unlist"},
                     seq : 0..MaxMsg, users : SUBSET User]
    /\ expired \in 0..maxSeq
    /\ lost \subseteq 1..maxSeq /\ stale \subseteq 1..maxSeq
    /\ [req |-> req, fails |-> fails] \in Workload
    /\ th \in [Thread -> [pc : {"idle", "list", "listed", "push", "mongo", "find", "update",
                                "create", "set", "read", "compare", "sweep", "clean",
                                "cache", "done", "refused"},
                          pushed : BOOLEAN, upto : 0..(MaxMsg + 1), index : Nat,
                          full : SUBSET {DocOf(s) : s \in AllSeq}, asked : SUBSET AllSeq,
                          want : SUBSET AllSeq, got : SUBSET AllSeq, missed : SUBSET AllSeq]]

Begun(t) == th[t].pc # "idle"
Done(t, op) == req[t].op = op /\ th[t].pc = "done"

\* Someone set out to remove seq s for everyone.
Wiped(s) ==
    \E t \in Thread : /\ Begun(t)
                      /\ \/ req[t].op = "physical" /\ req[t].seq = s
                         \/ req[t].op \in {"cron", "wipe"}

\* GetMsgBySeqsRange against handleChatWs2Mongo: a pull returns every message of
\* the range it read, save those its own user or someone for everyone deleted, those
\* Mongo refused and those whose copy redis failed to return, and it only fails when
\* a message of the range was removed, refused or not returned.  Insert-then-evict on
\* one side and redis-then-Mongo on the other leave no gap.
ReaderComplete ==
    \A t \in Thread : req[t].op = "pull" =>
        /\ th[t].pc = "done" =>
              \A s \in th[t].asked \ th[t].got :
                 \/ Wiped(s) \/ s \in lost \/ s \in th[t].missed
                 \/ \E d \in Thread :
                       Begun(d) /\ req[d] = [op |-> "delete", seq |-> s, user |-> req[t].user]
        /\ th[t].pc = "refused" =>
              \E s \in th[t].asked : Wiped(s) \/ s \in lost \/ s \in th[t].missed

\* RevokeMsg against the consumer: a revocation that was acknowledged stays with
\* the message, whichever of the two creates the document.
RevokeSurvives ==
    \A t \in Thread : Done(t, "revoke") =>
        slot[req[t].seq].revoke \/ Wiped(req[t].seq)

\* DeleteUserMsgsBySeqs against the consumer: once the del list of the document has
\* the user, the message is hidden from that user at every later moment, while it
\* moves from redis to Mongo and the redis lists are taken down.  All that can still
\* show it is a copy in redis: one the consumer failed to delete before it took the
\* lists down, or one the delete itself failed to read and so never listed.
DeletedStaysHidden ==
    \A t \in Thread :
        LET s == req[t].seq IN
        Done(t, "delete") /\ th[t].pushed /\ ~ Wiped(s) /\ s \in Visible(req[t].user) =>
            s \in cache /\ (s \in stale \/ s \in th[t].missed)

\* The retention sweep and UserMsgsDestruct against the consumer and the other
\* requests: what is younger than the retention time is neither swept nor passed by a
\* min seq, unless someone removed it, wiped or cleared the conversation.
RetentionKept ==
    LET Asked(op) == {t \in Thread : Begun(t) /\ req[t].op = op} IN
    /\ \A s \in (expired + 1)..maxSeq :
          \/ s \in cache \/ slot[s].msg \/ s \in lost
          \/ \E t \in Asked("physical") : req[t].seq = s
          \/ Asked("wipe") # {}
    /\ minSeq <= expired + 1 \/ Asked("clearAll") \union Asked("wipe") # {}
    /\ \A u \in User :
          userMin[u] <= expired + 1 \/ \E t \in Asked("clear") : req[t].user = u

\* handleChatWs2Mongo and RevokeMsg both retry after a duplicate key: every
\* request is answered all the same, every message leaves redis unless the DEL
\* failed, and it is in Mongo then unless Mongo refused it.
EventuallyStored ==
    /\ \A s \in AllSeq :
          s <= maxSeq ~> /\ s \notin cache \/ s \in stale
                         /\ slot[s].msg \/ Wiped(s) \/ s \in lost
    /\ \A t \in Thread : Begun(t) ~> th[t].pc \in {"done", "refused"}

\* "the user deletes messages by seq" (DeleteUserMsgsBySeqs): a message a user
\* deleted is not served to that user again.
DeletedHidden ==
    \A t \in Thread : Done(t, "delete") => req[t].seq \notin Visible(req[t].user)
=============================================================================
