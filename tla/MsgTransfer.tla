---------------------------- MODULE MsgTransfer ----------------------------
(***************************************************************************)
(* internal/msgtransfer: how a message that SendMsg put on the Kafka topic *)
(* of a conversation gets its sequence number, reaches the redis cache,    *)
(* the push topic and, through a second topic, the Mongo documents.        *)
(*                                                                         *)
(* A message is a record; a list of messages that the code builds by       *)
(* filtering another list is modelled by the set of positions it keeps,    *)
(* which lists the same messages in the same order.                        *)
(***************************************************************************)
EXTENDS Integers, Sequences, FiniteSets, FiniteSetsExt

CONSTANTS
    Instance,      \* msgtransfer processes of the consumer group
    Partition,     \* partitions of the Kafka topics
    Key,           \* Kafka keys: one per pair of users, one per group
    PartOf,        \* sarama's hash partitioner
    Channel,       \* 0 .. ChannelNum - 1
    ChanOf,        \* GetHashCode(uniqueKey) % ChannelNum
    User,
    Payload,       \* the messages clients send, without their offset
    DocNum,        \* singleGocMsgNum (100): the largest batch the cache takes
    Split,         \* 1000: the largest slice handed to the distributor
    ChanCap,       \* 50: the capacity of one chArrays channel
    Fails,         \* the calls that may fail
    MaxMsg,        \* bound: messages sent
    MaxCrash,      \* bound: crashes of msgtransfer processes
    MaxRebalance   \* bound: rebalances of one partition

CallNames == {"maxSeqGet", "cacheSet", "maxSeqSet", "hasReadSet", "create", "mongoMQ",
              "pushMQ", "mongoInsert", "evict"}

Session == {"si", "sn", "sg"}

\* sorted: SendID sorts before RecvID
PayloadType ==
    [key : Key, session : Session, from : User, sorted : BOOLEAN,
     notification : BOOLEAN, history : BOOLEAN, sendMsg : BOOLEAN,
     reaction : BOOLEAN]

ASSUME TransferAssumption ==
    /\ Key # {}
    /\ PartOf \in [Key -> Partition]
    /\ ChanOf \in [Key -> Channel]
    /\ Payload \subseteq PayloadType
    /\ DocNum \in Nat \ {0} /\ Split \in Nat \ {0} /\ ChanCap \in Nat \ {0}
    /\ MaxMsg \in Nat /\ MaxCrash \in Nat /\ MaxRebalance \in Nat
    /\ Fails \subseteq CallNames

VARIABLES
    topic,      \* per partition: the log of LatestMsgToRedis
    owner,      \* per partition: the process that holds the claim
    gen,        \* per partition: how often it was claimed again
    pos,        \* per partition: where the claim reads on
    marked,     \* per partition: the offset marked in the session, 0 for none
    committed,  \* per partition: the offset the broker knows
    cMsg,       \* per call of ConsumeClaim: its buffer
    ccMsg,      \* per call of ConsumeClaim: what its ticker still hands over
    agg,        \* per process: what MessagesDistributionHandle still routes
    chArrays,   \* per worker: the channel Run reads
    wk,         \* per worker: where Run stands in its batch
    maxSeq,     \* redis MAX_SEQ per conversation, 0 for an absent key
    cache,      \* redis message cache
    hasRead,    \* redis has-read seq per conversation and user
    created,    \* conversations created for their users
    mongoTopic, \* per partition: the log of MsgToMongo
    mpos,       \* per partition: where the Mongo consumer's claim reads on
    mmarked,    \* per partition: the offset it marked, 0 for none
    mcommitted, \* per partition: the offset the broker knows
    mpc,        \* per partition: where handleChatWs2Mongo stands
    mongo,      \* the Mongo message documents
    pushTopic,  \* per key: the log of MsgToPush
    crashes

kafkaVars == <<topic, owner, gen, pos, marked, committed>>
bufVars   == <<cMsg, ccMsg, agg, chArrays>>
redisVars == <<maxSeq, cache, hasRead, created>>
mongoVars == <<mongoTopic, mpos, mmarked, mcommitted, mpc, mongo>>
vars == <<kafkaVars, bufVars, wk, redisVars, mongoVars, pushTopic, crashes>>

Worker == Instance \X Channel
Claim  == Instance \X Partition \X (0 .. MaxRebalance)
Phase  == {"chat", "notif"}
Conv   == [type : Session \cup {"n"}, key : Key, sorted : BOOLEAN]

-----------------------------------------------------------------------------
(* Batches and the lists getPushStorageMsgList makes of them.              *)

\* ctxMsgList: the messages of one Kafka key in a slice
CtxMsgList(b) == {j \in DOMAIN b.msgs : b.msgs[j].data.key = b.key}

StorageList(b, ph) ==
    {j \in CtxMsgList(b) :
        LET m == b.msgs[j].data
        IN  IF ph = "chat" THEN IF m.notification THEN m.sendMsg ELSE m.history
                           ELSE m.notification /\ m.history}

NotStorageList(b, ph) ==
    {j \in CtxMsgList(b) :
        /\ b.msgs[j].data.notification = (ph = "notif")
        /\ ~b.msgs[j].data.history}

ModifyMsgList(b) == {j \in CtxMsgList(b) : b.msgs[j].data.reaction}

\* the ids of notification sessions keep the order SendID_RecvID, the others sort it
Sorted(m) == m.data.session = "sn" => m.data.sorted
GetChatConversationIDByMsg(m) ==
    [type |-> m.data.session, key |-> m.data.key, sorted |-> Sorted(m)]
GetNotificationConversationIDByMsg(m) ==
    [type |-> "n", key |-> m.data.key, sorted |-> Sorted(m)]

\* Run takes the conversation of a whole batch from ctxMsgList[0].
ConversationOf(b, ph) ==
    LET first == b.msgs[Min(CtxMsgList(b))]
    IN  IF ph = "chat" THEN GetChatConversationIDByMsg(first)
                       ELSE GetNotificationConversationIDByMsg(first)

\* mutant: the batch is numbered from its last message to its first
RankReversed(I, j) == Cardinality({k \in I : k >= j})

Rank(I, j) == Cardinality({k \in I : k <= j})

\* The messages of a batch with the seqs BatchInsertChat2Cache gives them.
Entries(b, ph, base) ==
    {[conv |-> ConversationOf(b, ph), seq |-> base + Rank(StorageList(b, ph), j),
      msg |-> b.msgs[j]] : j \in StorageList(b, ph)}

Same(e, f) == e.conv = f.conv /\ e.seq = f.seq
\* mutant: SETNX instead of SET
OverwriteKeep(store, es) == store \cup {e \in es : \A f \in store : ~Same(e, f)}

Overwrite(store, es) == {e \in store : \A f \in es : ~Same(e, f)} \cup es

-----------------------------------------------------------------------------
(* The state of one Run loop.                                              *)

Idle == [pc |-> "idle", b |-> [key |-> CHOOSE k \in Key : TRUE, msgs |-> <<>>],
         ph |-> "chat", base |-> 0, isNew |-> FALSE, err |-> FALSE, left |-> {}]

StartPhase(b, ph) ==
    [Idle EXCEPT !.pc = "raw", !.b = b, !.ph = ph, !.left = NotStorageList(b, ph)]

\* handleMsg returns: handleNotification, then MsgToModifyMQ, then the next batch
EndPhase(s) ==
    IF s.ph = "chat" THEN StartPhase(s.b, "notif")
    ELSE IF ModifyMsgList(s.b) # {} THEN [s EXCEPT !.pc = "modify"]
    ELSE Idle

Init ==
    /\ topic = [p \in Partition |-> <<>>]
    /\ owner \in [Partition -> Instance]
    /\ gen = [p \in Partition |-> 0]
    /\ pos = [p \in Partition |-> 0]
    /\ marked = [p \in Partition |-> 0]
    /\ committed = [p \in Partition |-> 0]
    /\ cMsg = [x \in Claim |-> <<>>]
    /\ ccMsg = [x \in Claim |-> <<>>]
    /\ agg = [i \in Instance |-> [msgs |-> <<>>, keys |-> {}]]
    /\ chArrays = [w \in Worker |-> <<>>]
    /\ wk = [w \in Worker |-> Idle]
    /\ maxSeq = [c \in Conv |-> 0]
    /\ cache = {}
    /\ hasRead = [x \in Conv \X User |-> 0]
    /\ created = {}
    /\ mongoTopic = [p \in Partition |-> <<>>]
    /\ mpos = [p \in Partition |-> 0]
    /\ mmarked = [p \in Partition |-> 0]
    /\ mcommitted = [p \in Partition |-> 0]
    /\ mpc = [p \in Partition |-> "idle"]
    /\ mongo = {}
    /\ pushTopic = [k \in Key |-> <<>>]
    /\ crashes = 0

\* OffsetsInitial is OffsetNewest: a group that never committed starts at the end
Restart(offset, log) == IF offset = 0 THEN Len(log) ELSE offset

\* what a process that stops takes with it; its claims restart from the
\* committed offsets
Lost(i) ==
    /\ cMsg' = [x \in Claim |-> IF x[1] = i THEN <<>> ELSE cMsg[x]]
    /\ ccMsg' = [x \in Claim |-> IF x[1] = i THEN <<>> ELSE ccMsg[x]]
    /\ agg' = [agg EXCEPT ![i] = [msgs |-> <<>>, keys |-> {}]]
    /\ chArrays' = [w \in Worker |-> IF w[1] = i THEN <<>> ELSE chArrays[w]]
    /\ wk' = [w \in Worker |-> IF w[1] = i THEN Idle ELSE wk[w]]
    /\ pos' = [p \in Partition |-> IF owner[p] = i THEN Restart(committed[p], topic[p]) ELSE pos[p]]
    /\ mpos' = [p \in Partition |-> IF owner[p] = i THEN Restart(mcommitted[p], mongoTopic[p])
                                   ELSE mpos[p]]
    /\ marked' = [p \in Partition |-> IF owner[p] = i THEN committed[p] ELSE marked[p]]
    /\ mmarked' = [p \in Partition |-> IF owner[p] = i THEN mcommitted[p] ELSE mmarked[p]]
    /\ mpc' = [p \in Partition |-> IF owner[p] = i THEN "idle" ELSE mpc[p]]

Crash(i) ==
    /\ crashes < MaxCrash
    /\ Lost(i)
    /\ crashes' = crashes + 1
    /\ UNCHANGED <<topic, owner, gen, committed, redisVars, mongoTopic, mcommitted, mongo, pushTopic>>

-----------------------------------------------------------------------------
(* From the client to a worker.                                            *)

\* SendMsg ends in MsgToMQ, keyed by the conversation
MsgToMQ(d) ==
    LET p == PartOf[d.key]
    IN  /\ Len(topic[p]) < MaxMsg
        /\ topic' = [topic EXCEPT ![p] = Append(@, [off |-> Len(@) + 1, data |-> d])]
        /\ UNCHANGED <<owner, gen, pos, marked, committed, bufVars, wk, redisVars, mongoVars,
                       pushTopic, crashes>>

\* the loop of ConsumeClaim: buffer the message, then mark it
ConsumeClaim(p) ==
    LET x == <<owner[p], p, gen[p]>>
    IN  /\ pos[p] < Len(topic[p])
        /\ cMsg' = [cMsg EXCEPT ![x] = Append(@, topic[p][pos[p] + 1])]
        /\ pos' = [pos EXCEPT ![p] = @ + 1]
        /\ marked' = [marked EXCEPT ![p] = pos[p] + 1]
        /\ UNCHANGED <<topic, owner, gen, committed, ccMsg, agg, chArrays, wk, redisVars,
                       mongoVars, pushTopic, crashes>>

\* sarama's auto-commit of marked offsets
AutoCommit(p) ==
    /\ committed[p] # marked[p]
    /\ committed' = [committed EXCEPT ![p] = marked[p]]
    /\ UNCHANGED <<topic, owner, gen, pos, marked, bufVars, wk, redisVars, mongoVars, pushTopic,
                   crashes>>

\* the ticker goroutine of ConsumeClaim swaps the buffer out
Tick(x) ==
    /\ ccMsg[x] = <<>> /\ cMsg[x] # <<>>
    /\ ccMsg' = [ccMsg EXCEPT ![x] = cMsg[x]]
    /\ cMsg' = [cMsg EXCEPT ![x] = <<>>]
    /\ UNCHANGED <<kafkaVars, agg, chArrays, wk, redisVars, mongoVars, pushTopic,
                   crashes>>

\* one slice of at most Split messages goes through the unbuffered
\* msgDistributionCh, and the distributor groups it by key
Distribute(x) ==
    LET i == x[1]
        n == IF Len(ccMsg[x]) < Split THEN Len(ccMsg[x]) ELSE Split
        slice == SubSeq(ccMsg[x], 1, n)
    IN  /\ ccMsg[x] # <<>> /\ agg[i].keys = {}
        /\ agg' = [agg EXCEPT ![i] =
                     [msgs |-> slice, keys |-> {slice[j].data.key : j \in 1 .. n}]]
        /\ ccMsg' = [ccMsg EXCEPT ![x] = SubSeq(@, n + 1, Len(@))]
        /\ UNCHANGED <<kafkaVars, cMsg, chArrays, wk, redisVars, mongoVars, pushTopic,
                       crashes>>

\* mutant: the channel is picked without regard to the key
RouteAnyChannel(i, k) ==
    \E c \in Channel :
        /\ k \in agg[i].keys /\ Len(chArrays[<<i, c>>]) < ChanCap
        /\ chArrays' = [chArrays EXCEPT ![<<i, c>>] = Append(@, [key |-> k, msgs |-> agg[i].msgs])]
        /\ agg' = [agg EXCEPT ![i].keys = @ \ {k}]
        /\ UNCHANGED <<kafkaVars, cMsg, ccMsg, wk, redisVars, mongoVars, pushTopic,
                       crashes>>

\* the distributor ranges over its map, in any order, and blocks on a full channel
Route(i, k) ==
    LET w == <<i, ChanOf[k]>>
    IN  /\ k \in agg[i].keys /\ Len(chArrays[w]) < ChanCap
        /\ chArrays' = [chArrays EXCEPT ![w] = Append(@, [key |-> k, msgs |-> agg[i].msgs])]
        /\ agg' = [agg EXCEPT ![i] = IF agg[i].keys = {k} THEN [msgs |-> <<>>, keys |-> {}]
                                     ELSE [msgs |-> agg[i].msgs, keys |-> agg[i].keys \ {k}]]
        /\ UNCHANGED <<kafkaVars, cMsg, ccMsg, wk, redisVars, mongoVars, pushTopic,
                       crashes>>

-----------------------------------------------------------------------------
(* Run(channelID): the steps a worker takes over one batch.                *)

Goto(w, s) == wk' = [wk EXCEPT ![w] = s]

Run(w) ==
    /\ wk[w].pc = "idle" /\ chArrays[w] # <<>>
    /\ Goto(w, StartPhase(Head(chArrays[w]), "chat"))
    /\ chArrays' = [chArrays EXCEPT ![w] = Tail(@)]
    /\ UNCHANGED <<kafkaVars, cMsg, ccMsg, agg, redisVars, mongoVars, pushTopic,
                   crashes>>

\* MsgToPushMQ for one message: its error is logged and ignored
Push(w, e) ==
    \/ pushTopic' = [pushTopic EXCEPT ![wk[w].b.key] = Append(@, e)]
    \/ "pushMQ" \in Fails /\ UNCHANGED pushTopic

\* toPushTopic(notStorageList) leaves the seq at 0, toPushTopic(storageList)
\* pushes what BatchInsertChat2Cache numbered
PushSeq(s, j) == IF s.pc = "raw" THEN 0 ELSE s.base + Rank(StorageList(s.b, s.ph), j)

\* mutant: the storage list is pushed from its end
toPushTopicReversed(w) ==
    LET s == wk[w]
        j == Max(s.left)
        rest == [s EXCEPT !.left = @ \ {j}]
    IN  /\ s.pc \in {"raw", "toPush"} /\ s.left # {}
        /\ Push(w, [conv |-> ConversationOf(s.b, s.ph), seq |-> PushSeq(s, j), msg |-> s.b.msgs[j]])
        /\ Goto(w, IF s.pc = "toPush" /\ rest.left = {} THEN EndPhase(s) ELSE rest)
        /\ UNCHANGED <<kafkaVars, bufVars, redisVars, mongoVars, crashes>>

toPushTopic(w) ==
    LET s == wk[w]
        j == Min(s.left)
        rest == [s EXCEPT !.left = @ \ {j}]
    IN  /\ s.pc \in {"raw", "toPush"} /\ s.left # {}
        /\ Push(w, [conv |-> ConversationOf(s.b, s.ph), seq |-> PushSeq(s, j), msg |-> s.b.msgs[j]])
        /\ Goto(w, IF s.pc = "toPush" /\ rest.left = {} THEN EndPhase(s) ELSE rest)
        /\ UNCHANGED <<kafkaVars, bufVars, redisVars, mongoVars, crashes>>

\* mutants: MAX_SEQ taken for the next free seq; isNew dropped; a full batch refused
GetMaxSeqNext(w) ==
    LET s == wk[w]
        n == Cardinality(StorageList(s.b, s.ph))
        base == maxSeq[ConversationOf(s.b, s.ph)] - 1
    IN  /\ s.pc = "raw" /\ s.left = {}
        /\ Goto(w, IF n = 0 \/ n > DocNum THEN EndPhase(s)
                   ELSE [s EXCEPT !.pc = "setMsgs", !.base = base, !.isNew = (base = -1)])
        /\ UNCHANGED <<kafkaVars, bufVars, redisVars, mongoVars, pushTopic, crashes>>

GetMaxSeqNeverNew(w) ==
    LET s == wk[w]
        n == Cardinality(StorageList(s.b, s.ph))
    IN  /\ s.pc = "raw" /\ s.left = {}
        /\ Goto(w, IF n = 0 \/ n > DocNum THEN EndPhase(s)
                   ELSE [s EXCEPT !.pc = "setMsgs", !.base = maxSeq[ConversationOf(s.b, s.ph)]])
        /\ UNCHANGED <<kafkaVars, bufVars, redisVars, mongoVars, pushTopic, crashes>>

GetMaxSeqRefuseFull(w) ==
    LET s == wk[w]
        base == maxSeq[ConversationOf(s.b, s.ph)]
        n == Cardinality(StorageList(s.b, s.ph))
    IN  /\ s.pc = "raw" /\ s.left = {}
        /\ Goto(w, IF n = 0 \/ n >= DocNum THEN EndPhase(s)
                   ELSE [s EXCEPT !.pc = "setMsgs", !.base = base, !.isNew = (base = 0)])
        /\ UNCHANGED <<kafkaVars, bufVars, redisVars, mongoVars, pushTopic, crashes>>

\* the head of BatchInsertChat2Cache: a batch over DocNum is dropped here
GetMaxSeq(w) ==
    LET s == wk[w]
        base == maxSeq[ConversationOf(s.b, s.ph)]
        n == Cardinality(StorageList(s.b, s.ph))
    IN  /\ s.pc = "raw" /\ s.left = {}
        /\ \/ Goto(w, IF n = 0 \/ n > DocNum THEN EndPhase(s)
                      ELSE [s EXCEPT !.pc = "setMsgs", !.base = base, !.isNew = (base = 0)])
           \/ "maxSeqGet" \in Fails /\ Goto(w, EndPhase(s))
        /\ UNCHANGED <<kafkaVars, bufVars, redisVars, mongoVars, pushTopic, crashes>>

\* redis SETs one message after the other; the error is only logged
SetMessageToCache(w) ==
    LET s == wk[w]
        es == Entries(s.b, s.ph, s.base)
    IN  /\ s.pc = "setMsgs"
        /\ \/ cache' = Overwrite(cache, es)
           \/ /\ "cacheSet" \in Fails
              /\ \E e \in es : cache' = Overwrite(cache, {f \in es : f.seq < e.seq})
        /\ Goto(w, [s EXCEPT !.pc = "setMax"])
        /\ UNCHANGED <<kafkaVars, bufVars, maxSeq, hasRead, created, mongoVars, pushTopic,
                       crashes>>

\* mutant: lastMaxSeq written back instead of currentMaxSeq
SetMaxSeqLast(w) ==
    LET s == wk[w]
        c == ConversationOf(s.b, s.ph)
    IN  /\ s.pc = "setMax"
        /\ maxSeq' = [maxSeq EXCEPT ![c] = s.base]
        /\ Goto(w, [s EXCEPT !.pc = "setRead"])
        /\ UNCHANGED <<kafkaVars, bufVars, cache, hasRead, created, mongoVars, pushTopic,
                       crashes>>

SetMaxSeq(w) ==
    LET s == wk[w]
        c == ConversationOf(s.b, s.ph)
    IN  /\ s.pc = "setMax"
        /\ \/ /\ maxSeq' = [maxSeq EXCEPT ![c] = s.base + Cardinality(StorageList(s.b, s.ph))]
              /\ Goto(w, [s EXCEPT !.pc = "setRead"])
           \/ /\ "maxSeqSet" \in Fails
              /\ UNCHANGED maxSeq
              /\ Goto(w, [s EXCEPT !.pc = "setRead", !.err = TRUE])
        /\ UNCHANGED <<kafkaVars, bufVars, cache, hasRead, created, mongoVars, pushTopic,
                       crashes>>

\* mutant: the error of SetMaxSeq is shadowed and the batch goes on
SetHasReadSeqsShadow(w) ==
    LET s == wk[w]
    IN  /\ s.pc = "setRead"
        /\ Goto(w, [s EXCEPT !.pc = IF s.isNew /\ s.ph = "chat" THEN "create" ELSE "toMongo"])
        /\ UNCHANGED <<kafkaVars, bufVars, redisVars, mongoVars, pushTopic, crashes>>

\* userSeqMap: the senders of a batch have read up to their own last message in
\* it; whatever SetHasReadSeqs does, the error of SetMaxSeq is the one returned
SetHasReadSeqs(w) ==
    LET s == wk[w]
        es == Entries(s.b, s.ph, s.base)
        senders == {e.msg.data.from : e \in es}
        userSeq(u) == Max({e.seq : e \in {f \in es : f.msg.data.from = u}})
    IN  /\ s.pc = "setRead"
        /\ \E done \in SUBSET senders :
              /\ done # senders => "hasReadSet" \in Fails
              /\ hasRead' = [x \in Conv \X User |->
                    IF x[1] = ConversationOf(s.b, s.ph) /\ x[2] \in done
                    THEN userSeq(x[2]) ELSE hasRead[x]]
        /\ Goto(w, IF s.err THEN EndPhase(s)
                   ELSE [s EXCEPT !.pc = IF s.isNew /\ s.ph = "chat" THEN "create" ELSE "toMongo"])
        /\ UNCHANGED <<kafkaVars, bufVars, maxSeq, cache, created, mongoVars, pushTopic,
                       crashes>>

\* Single-/GroupChatFirstCreateConversation: a failure is only logged. The member
\* query before the RPC of a group changes nothing, and its failure, too, only
\* leaves the conversation without its users.
FirstCreateConversation(w) ==
    LET s == wk[w]
    IN  /\ s.pc = "create"
        /\ \/ created' = created \cup {ConversationOf(s.b, s.ph)}
           \/ "create" \in Fails /\ UNCHANGED created
        /\ Goto(w, [s EXCEPT !.pc = "toMongo"])
        /\ UNCHANGED <<kafkaVars, bufVars, maxSeq, cache, hasRead, mongoVars, pushTopic,
                       crashes>>

MsgToMongoMQ(w) ==
    LET s == wk[w]
        p == PartOf[s.b.key]
    IN  /\ s.pc = "toMongo"
        /\ \/ mongoTopic' = [mongoTopic EXCEPT ![p] = Append(@, Entries(s.b, s.ph, s.base))]
           \/ "mongoMQ" \in Fails /\ UNCHANGED mongoTopic
        /\ Goto(w, [s EXCEPT !.pc = "toPush", !.left = StorageList(s.b, s.ph)])
        /\ UNCHANGED <<kafkaVars, bufVars, redisVars, mpos, mmarked, mcommitted, mpc, mongo,
                       pushTopic, crashes>>

\* MsgToModifyMQ on a non-empty list calls a producer that
\* NewCommonMsgDatabase never creates: the nil dereference ends the process
ModifyPanic(w) ==
    /\ wk[w].pc = "modify"
    /\ Crash(w[1])

-----------------------------------------------------------------------------
(* handleChatWs2Mongo and the ConsumeClaim loop around it.                 *)

\* mutant: BatchInsertBlock stops one message short
MongoInsertShort(p) ==
    /\ mpc[p] = "idle" /\ mpos[p] < Len(mongoTopic[p])
    /\ LET es == mongoTopic[p][mpos[p] + 1]
       IN  mongo' = Overwrite(mongo, {f \in es : \E e \in es : f.seq < e.seq})
    /\ mpc' = [mpc EXCEPT ![p] = "evict"]
    /\ UNCHANGED <<kafkaVars, bufVars, wk, redisVars, mongoTopic, mpos, mmarked, mcommitted,
                   pushTopic, crashes>>

MongoInsert(p) ==
    /\ mpc[p] = "idle" /\ mpos[p] < Len(mongoTopic[p])
    /\ LET es == mongoTopic[p][mpos[p] + 1]
       IN  \/ mongo' = Overwrite(mongo, es)
           \/ /\ "mongoInsert" \in Fails
              /\ \E e \in es : mongo' = Overwrite(mongo, {f \in es : f.seq < e.seq})
    /\ mpc' = [mpc EXCEPT ![p] = "evict"]
    /\ UNCHANGED <<kafkaVars, bufVars, wk, redisVars, mongoTopic, mpos, mmarked, mcommitted,
                   pushTopic, crashes>>

\* DeleteMessagesFromCache runs whatever became of the insert, then MarkMessage
MongoEvict(p) ==
    /\ mpc[p] = "evict"
    /\ LET es == mongoTopic[p][mpos[p] + 1]
       IN  \/ cache' = {e \in cache : \A f \in es : ~Same(e, f)}
           \/ "evict" \in Fails /\ UNCHANGED cache
    /\ mpc' = [mpc EXCEPT ![p] = "idle"]
    /\ mpos' = [mpos EXCEPT ![p] = @ + 1]
    /\ mmarked' = [mmarked EXCEPT ![p] = mpos[p] + 1]
    /\ UNCHANGED <<kafkaVars, bufVars, wk, maxSeq, hasRead, created, mongoTopic, mcommitted, mongo,
                   pushTopic, crashes>>

MongoAutoCommit(p) ==
    /\ mcommitted[p] # mmarked[p]
    /\ mcommitted' = [mcommitted EXCEPT ![p] = mmarked[p]]
    /\ UNCHANGED <<kafkaVars, bufVars, wk, redisVars, mongoTopic, mpos, mmarked, mpc, mongo,
                   pushTopic, crashes>>

-----------------------------------------------------------------------------
(* Rebalances, and the next-state relation.                                *)

\* mutant: the new claim starts behind what the log holds already
RebalanceNewest(p, j) ==
    /\ gen[p] < MaxRebalance /\ mpc[p] = "idle"
    /\ owner' = [owner EXCEPT ![p] = j]
    /\ gen' = [gen EXCEPT ![p] = @ + 1]
    /\ committed' = [committed EXCEPT ![p] = marked[p]]
    /\ pos' = [pos EXCEPT ![p] = Len(topic[p])]
    /\ UNCHANGED <<topic, marked, bufVars, wk, redisVars, mongoVars, pushTopic, crashes>>

\* The sessions of p end and j, the same process or another, claims p in a new
\* call of ConsumeClaim. The old sessions commit what they marked, and the new
\* claims start there; the buffer and the ticker goroutine of the old call, the
\* distributor and the workers go on.
Rebalance(p, j) ==
    /\ gen[p] < MaxRebalance /\ mpc[p] = "idle"
    /\ owner' = [owner EXCEPT ![p] = j]
    /\ gen' = [gen EXCEPT ![p] = @ + 1]
    /\ committed' = [committed EXCEPT ![p] = marked[p]]
    /\ pos' = [pos EXCEPT ![p] = Restart(marked[p], topic[p])]
    /\ mcommitted' = [mcommitted EXCEPT ![p] = mmarked[p]]
    /\ mpos' = [mpos EXCEPT ![p] = Restart(mmarked[p], mongoTopic[p])]
    /\ UNCHANGED <<topic, marked, bufVars, wk, redisVars, mongoTopic, mmarked, mpc, mongo,
                   pushTopic, crashes>>

RunStep(w) ==
    \/ Run(w) \/ toPushTopic(w) \/ GetMaxSeq(w) \/ SetMessageToCache(w)
    \/ SetMaxSeq(w) \/ SetHasReadSeqs(w) \/ FirstCreateConversation(w)
    \/ MsgToMongoMQ(w) \/ ModifyPanic(w)

Next ==
    \/ \E d \in Payload : MsgToMQ(d)
    \/ \E p \in Partition : ConsumeClaim(p) \/ AutoCommit(p)
    \/ \E x \in Claim : Tick(x) \/ Distribute(x)
    \/ \E i \in Instance, k \in Key : Route(i, k)
    \/ \E w \in Worker : RunStep(w)
    \/ \E p \in Partition : MongoInsert(p) \/ MongoEvict(p) \/ MongoAutoCommit(p)
    \/ \E i \in Instance : Crash(i)
    \/ \E p \in Partition, j \in Instance : Rebalance(p, j)

Spec == Init /\ [][Next]_vars

-----------------------------------------------------------------------------
(* Properties.                                                             *)

Message == [off : Nat, data : Payload]
Entry   == [conv : Conv, seq : Nat, msg : Message]
Batch   == [key : Key, msgs : Seq(Message)]
Pc      == {"idle", "raw", "setMsgs", "setMax", "setRead", "create", "toMongo", "toPush", "modify"}
WorkerState == [pc : Pc, b : Batch, ph : Phase, base : Nat, isNew : BOOLEAN, err : BOOLEAN,
                left : SUBSET Nat]

\* Types of the whole state: queues hold messages and batches, redis and Mongo
\* hold entries, offsets and seqs are naturals.
TypeOK ==
    /\ topic \in [Partition -> Seq(Message)]
    /\ owner \in [Partition -> Instance]
    /\ pos \in [Partition -> Nat] /\ marked \in [Partition -> Nat]
    /\ committed \in [Partition -> Nat]
    /\ cMsg \in [Claim -> Seq(Message)] /\ ccMsg \in [Claim -> Seq(Message)]
    /\ agg \in [Instance -> [msgs : Seq(Message), keys : SUBSET Key]]
    /\ chArrays \in [Worker -> Seq(Batch)]
    /\ wk \in [Worker -> WorkerState]
    /\ maxSeq \in [Conv -> Nat]
    /\ cache \subseteq Entry /\ mongo \subseteq Entry
    /\ hasRead \in [Conv \X User -> Nat]
    /\ created \subseteq Conv
    /\ mongoTopic \in [Partition -> Seq(SUBSET Entry)]
    /\ mpos \in [Partition -> Nat] /\ mmarked \in [Partition -> Nat]
    /\ mcommitted \in [Partition -> Nat]
    /\ mpc \in [Partition -> {"idle", "evict"}]
    /\ pushTopic \in [Key -> Seq(Entry)]
    /\ gen \in [Partition -> 0 .. MaxRebalance]
    /\ crashes \in Nat

\* Everything that left msgtransfer under a seq of its conversation.
MongoLog == UNION {UNION {mongoTopic[p][n] : n \in 1 .. Len(mongoTopic[p])} : p \in Partition}
PushLog  == UNION {{pushTopic[k][n] : n \in 1 .. Len(pushTopic[k])} : k \in Key}
Numbered == MongoLog \cup {e \in PushLog : e.seq # 0}

\* Two messages never leave under the same seq of the same conversation: one key
\* is handled by one worker, so no one reads MAX_SEQ between another's GetMaxSeq
\* and SetMaxSeq, crashes and failed calls included.
SeqUnique == \A e, f \in Numbered : Same(e, f) => e = f

\* Nothing is pushed or sent to Mongo under a seq that MAX_SEQ does not cover yet,
\* whatever calls failed: a client told of seq s finds s within the conversation.
WithinMaxSeq == \A e \in Numbered : e.seq <= maxSeq[e.conv]

\* MAX_SEQ of a conversation never goes back, across crashes and failed batches.
MaxSeqMonotone == [][\A c \in Conv : maxSeq'[c] >= maxSeq[c]]_vars

\* The stored messages of a conversation enter the push topic in seq order, also
\* when a crash makes a part of them come again.
PushInSeqOrder ==
    \A k \in Key : \A m, n \in 1 .. Len(pushTopic[k]) :
        LET e == pushTopic[k][m]
            f == pushTopic[k][n]
        IN  m < n /\ e.conv = f.conv /\ e.seq # 0 /\ f.seq # 0 => e.seq < f.seq

\* A reader that asks redis first and Mongo for what redis lacks (getMsgBySeqs)
\* finds, under every seq that left msgtransfer, the message that left under it:
\* the cache entry goes only after the document holds the message.
ReadersAgree ==
    \A e \in Numbered : LET hit == {f \in cache : Same(f, e)}
                        IN  IF hit = {} THEN e \in mongo ELSE hit = {e}

\* Every seq up to MAX_SEQ is readable: crashes leave no hole in a conversation.
NoHole ==
    \A c \in Conv : \A s \in 1 .. maxSeq[c] :
        \E e \in cache \cup mongo : e.conv = c /\ e.seq = s

\* Without crashes, seq order is the order in which SendMsg put the messages of a
\* key on the topic, through the buffer, the slices, the routing and the batches.
SourceOrder ==
    \A e, f \in Numbered : e.conv = f.conv /\ e.seq < f.seq => e.msg.off < f.msg.off

\* No stored message of a chat leaves before its conversation was created for its
\* users: only the batch that finds no MAX_SEQ creates it, and it does so first.
CreatedBeforePush == \A e \in Numbered : e.conv.type # "n" => e.conv \in created

\* A sender's has-read seq never runs ahead of the conversation's MAX_SEQ.
HasReadWithinMax == \A c \in Conv, u \in User : hasRead[<<c, u>>] <= maxSeq[c]

Pushed(p, n) == \E e \in PushLog : PartOf[e.msg.data.key] = p /\ e.msg.off = n
Stored(p, n) == \E e \in mongo : PartOf[e.msg.data.key] = p /\ e.msg.off = n

\* BatchInsertChat2Cache is about to refuse the batch message n of p is in.
Oversized(p, n) ==
    \E w \in Worker :
        LET s == wk[w]
            storage == StorageList(s.b, s.ph)
        IN  /\ s.pc = "raw" /\ Cardinality(storage) > DocNum
            /\ \E j \in storage : PartOf[s.b.key] = p /\ s.b.msgs[j].off = n

\* Every message a client sent is pushed, also when its partition moves to another
\* process meanwhile, provided the group had marked a message of the partition at
\* or before it (a group without an offset starts at the end of the log), as long
\* as no process stops and no call fails: marking it before it is handled loses it
\* only with the process, and a batch is lost only when it exceeds DocNum.
EventuallyPushed ==
    \A p \in Partition, n \in 1 .. MaxMsg :
        \/ <>Oversized(p, n)
        \/ /\ (n <= Len(topic[p]) /\ marked[p] \in 1 .. n) ~> Pushed(p, n)
           /\ n <= Len(topic[p]) ~> (Pushed(p, n) \/ gen[p] > 0)

\* Under the same conditions every message with history reaches its Mongo document;
\* once the partition changed hands two processes may number one conversation at
\* once, and one message may take the place of another.
EventuallyStored ==
    \A p \in Partition, n \in 1 .. MaxMsg :
        \/ <>Oversized(p, n)
        \/ (n <= Len(topic[p]) /\ topic[p][n].data.history) ~> (Stored(p, n) \/ gen[p] > 0)

\* The goroutines of a running process keep running: the claim loop, the ticker,
\* the distributor, each Run loop and the Mongo consumer.
Fairness ==
    /\ \A p \in Partition : WF_vars(ConsumeClaim(p)) /\ WF_vars(MongoInsert(p) \/ MongoEvict(p))
    /\ \A x \in Claim : WF_vars(Tick(x)) /\ WF_vars(Distribute(x))
    /\ \A i \in Instance, k \in Key : WF_vars(Route(i, k))
    /\ \A w \in Worker : WF_vars(RunStep(w))
FairSpec == Spec /\ Fairness

\* conversation.go:94 "server notification chat": a message is stored in the
\* conversation its own session type names.
OwnConversation ==
    \A e \in Numbered : e.conv.type # "n" => e.conv = GetChatConversationIDByMsg(e.msg)
-----------------------------------------------------------------------------
(* The log that readers see, and the promise about it.                     *)

\* GetMsgBySeqs: redis first, Mongo for what redis lacks
ReadSeq(c, s) ==
    LET at(store) == {e \in store : e.conv = c /\ e.seq = s}
        hit == IF at(cache) # {} THEN at(cache) ELSE at(mongo)
    IN  {e.msg : e \in hit}

TheLog == INSTANCE ConversationLog WITH
    log  <- [c \in Conv |-> [s \in 1 .. maxSeq[c] |-> ReadSeq(c, s)]],
    told <- Numbered

\* Message transfer implements the conversation log: what a reader finds under
\* the seqs up to MAX_SEQ only grows at its end and is never replaced, while
\* workers crash, offsets are read again, the document store takes over and the
\* cache is evicted, and nothing leaves for clients or Mongo under another seq.
ImplementsLog == TheLog!LogSpec
=============================================================================
