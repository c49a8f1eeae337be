--------------------------- MODULE MsgStoreProofs ---------------------------
(***************************************************************************)
(* Theorems about MsgStore, for every set of users, threads and requests,  *)
(* any number of messages and any size of a document.                      *)
(***************************************************************************)
EXTENDS MsgStore, NatSets, SequenceTheorems, TLAPS

Docs == {DocOf(s) : s \in AllSeq}
Element == [msg : BOOLEAN, revoke : BOOLEAN, list : BOOLEAN, del : SUBSET User]
Step == {"idle", "list", "listed", "push", "mongo", "find", "update", "create", "set", "read",
         "compare", "sweep", "clean", "cache", "done", "refused"}
ThreadState == [pc : Step, pushed : BOOLEAN, upto : 0..(MaxMsg + 1), index : Nat,
                full : SUBSET Docs, asked : SUBSET AllSeq, want : SUBSET AllSeq,
                got : SUBSET AllSeq, missed : SUBSET AllSeq]

\* Types. Only a destruct computes a min seq; the others add one to a seq. What the
\* consumer has in hand or before it was sent.
TInv ==
    /\ TypeOK
    /\ toMongo \in Seq(1..maxSeq)
    /\ consumer.pc # "idle" => consumer.seq \in 1..maxSeq
    /\ \A t \in Thread : req[t].op # "destruct" => th[t].upto \in 0..MaxMsg

\* User u set out to delete seq s for himself.
DeletedBy(s, u) ==
    \E d \in Thread : Begun(d) /\ req[d] = [op |-> "delete", seq |-> s, user |-> u]

\* Why seq s need not be in Mongo, and: it is there, or has such an excuse.
Gone(s) == Wiped(s) \/ s \in lost
Held(s) == slot[s].msg \/ Gone(s)

\* A message leaves redis when it is in Mongo; the consumer takes the redis lists down
\* after that, or after it failed to delete the copy. An element without a list was removed; who is in a list, deleted.
CacheInv ==
    /\ \A s \in 1..maxSeq : s \in cache \/ Held(s)
    /\ consumer.pc = "evict" => Held(consumer.seq)
    /\ consumer.pc \in {"members", "unlist"} => consumer.seq \notin cache \/ consumer.seq \in stale
    /\ \A s \in AllSeq : slot[s].list \/ Wiped(s)
    /\ \A s \in AllSeq, u \in User :
          u \in slot[s].del \/ s \in userDel[u] => DeletedBy(s, u)

\* A delete for one user: from the moment it is done with redis, the copy there is
\* gone, listed, left behind by the consumer or not seen; what it pushed to the document stays there.
DelInv(t) ==
    LET s == req[t].seq
        u == req[t].user
    IN  req[t].op = "delete" =>
            /\ Begun(t) => s <= maxSeq
            /\ th[t].pc \in {"push", "done"} =>
                  s \notin cache \/ s \in userDel[u] \/ s \in stale \/ s \in th[t].missed
            /\ th[t].pc = "done" /\ th[t].pushed => u \in slot[s].del \/ Wiped(s)

RevInv(t) ==
    Done(t, "revoke") => slot[req[t].seq].revoke \/ Wiped(req[t].seq)

\* A pull: what it has not got yet, it still looks for where it is, and what it will
\* not get has an excuse.
PullInv(t) ==
    LET asked == th[t].asked
        want == th[t].want
        got == th[t].got
        missed == th[t].missed
        Excused(s) == Gone(s) \/ s \in missed \/ DeletedBy(s, req[t].user)
    IN  req[t].op = "pull" =>
            /\ Begun(t) => asked \subseteq 1..maxSeq
            /\ th[t].pc \in {"list", "mongo"} =>
                  want \subseteq asked /\ \A s \in want : Held(s) \/ s \in missed
            /\ th[t].pc = "list" => asked \subseteq got \union want
            /\ th[t].pc = "mongo" => \A s \in asked \ (got \union want) : Excused(s)
            /\ th[t].pc = "done" => \A s \in asked \ got : Excused(s)
            /\ th[t].pc = "refused" => \E s \in asked : Gone(s) \/ s \in missed

StoreInv ==
    /\ TInv
    /\ CacheInv
    /\ \A t \in Thread : DelInv(t) /\ RevInv(t) /\ PullInv(t)

-----------------------------------------------------------------------------
(* Types.                                                                  *)

\* TypeOK in the terms of this module.
LEMMA TypeParts ==
    TypeOK <=> /\ maxSeq \in 0..MaxMsg /\ minSeq \in 0..(MaxMsg + 1)
               /\ userMin \in [User -> 0..(MaxMsg + 1)] /\ hasRead \in [User -> 0..MaxMsg]
               /\ cache \subseteq 1..maxSeq
               /\ userDel \in [User -> SUBSET AllSeq] /\ seqDel \in [AllSeq -> SUBSET User]
               /\ docs \subseteq Docs /\ slot \in [AllSeq -> Element]
               /\ \A s \in AllSeq : DocOf(s) \notin docs => slot[s] = Empty
               /\ toMongo \in Seq(AllSeq)
               /\ consumer \in [pc : {"idle", "update", "create", "evict", "members", "unlist"},
                                seq : 0..MaxMsg, users : SUBSET User]
               /\ expired \in 0..maxSeq /\ lost \subseteq 1..maxSeq /\ stale \subseteq 1..maxSeq
               /\ [req |-> req, fails |-> fails] \in Workload
               /\ th \in [Thread -> ThreadState]
BY DEF TypeOK, Docs, Element, ThreadState, Step

\* A request has an operation, a user and a seq.
LEMMA RequestType ==
    ASSUME TypeOK, NEW t \in Thread
    PROVE  req[t].op \in Op /\ req[t].user \in User /\ req[t].seq \in AllSeq
           /\ req[t] \in [op : Op, user : User, seq : AllSeq]
<1>1. req \in [Thread -> [op : Op, user : User, seq : AllSeq]]
  <2>1. [req |-> req, fails |-> fails] \in [req : [Thread -> [op : Op, user : User, seq : AllSeq]],
                                           fails : SUBSET Fallible]
      BY MsgStoreAssumption DEF TypeOK
  <2> QED BY <2>1
<1> QED BY <1>1

\* Seqs up to MAX_SEQ are seqs.
LEMMA SeqRange ==
    ASSUME TypeOK
    PROVE  /\ maxSeq \in Nat /\ MaxMsg \in Nat /\ maxSeq <= MaxMsg
           /\ 1..maxSeq \subseteq AllSeq /\ AllSeq \subseteq Nat /\ expired \in Nat
           /\ 1..expired \subseteq 1..maxSeq
BY MsgStoreAssumption DEF TypeOK, AllSeq

\* The elements of a document.
LEMMA ElementType ==
    /\ Empty \in Element /\ Removed \in Element
    /\ ~ Empty.msg /\ ~ Empty.revoke /\ Empty.list /\ Empty.del = {}
    /\ Removed.del = {}
    /\ \A e \in Element : \A k \in {"msg", "revoke"} : [e EXCEPT ![k] = TRUE] \in Element
BY DEF Empty, Removed, Element

\* UpdateMsg sets one fact of one element.
LEMMA UpdateStep ==
    ASSUME TypeOK, NEW s \in AllSeq, NEW k \in {"msg", "revoke"}, UpdateMsg(s, k),
           DocOf(s) \in docs, UNCHANGED docs
    PROVE  /\ slot' \in [AllSeq -> Element]
           /\ \A r \in AllSeq : DocOf(r) \notin docs' => slot'[r] = Empty
           /\ \A r \in AllSeq : /\ slot[r].msg => slot'[r].msg
                                /\ slot[r].revoke => slot'[r].revoke
                                /\ slot'[r].list = slot[r].list
                                /\ slot'[r].del = slot[r].del
           /\ k = "msg" => slot'[s].msg
           /\ k = "revoke" => slot'[s].revoke
<1>1. slot \in [AllSeq -> Element] /\ \A r \in AllSeq : DocOf(r) \notin docs => slot[r] = Empty
    BY TypeParts
<1>2. slot' = [slot EXCEPT ![s] = [slot[s] EXCEPT ![k] = TRUE]]
    BY DEF UpdateMsg
<1>3. [slot[s] EXCEPT ![k] = TRUE] \in Element
    BY <1>1, ElementType
<1>4. /\ slot[s].msg => [slot[s] EXCEPT ![k] = TRUE].msg
      /\ slot[s].revoke => [slot[s] EXCEPT ![k] = TRUE].revoke
      /\ [slot[s] EXCEPT ![k] = TRUE].list = slot[s].list
      /\ [slot[s] EXCEPT ![k] = TRUE].del = slot[s].del
      /\ k = "msg" => [slot[s] EXCEPT ![k] = TRUE].msg
      /\ k = "revoke" => [slot[s] EXCEPT ![k] = TRUE].revoke
    BY <1>1 DEF Element
<1>5. slot'[s] = [slot[s] EXCEPT ![k] = TRUE] /\ \A r \in AllSeq : r # s => slot'[r] = slot[r]
    BY <1>1, <1>2
<1> HIDE DEF Element
<1> QED BY <1>1, <1>2, <1>3, <1>4, <1>5

\* Create writes a document of which nothing was there.
LEMMA CreateStep ==
    ASSUME TypeOK, NEW s \in AllSeq, NEW k \in {"msg", "revoke"}, Create(s, k), DocOf(s) \notin docs
    PROVE  /\ docs' \subseteq Docs /\ docs \subseteq docs'
           /\ slot' \in [AllSeq -> Element]
           /\ \A r \in AllSeq : DocOf(r) \notin docs' => slot'[r] = Empty
           /\ \A r \in AllSeq : /\ slot[r].msg => slot'[r].msg
                                /\ slot[r].revoke => slot'[r].revoke
                                /\ slot'[r].list = slot[r].list
                                /\ slot'[r].del = slot[r].del
           /\ k = "msg" => slot'[s].msg
           /\ k = "revoke" => slot'[s].revoke
<1>1. /\ slot \in [AllSeq -> Element] /\ docs \subseteq Docs
      /\ \A r \in AllSeq : DocOf(r) \notin docs => slot[r] = Empty
    BY TypeParts
<1> DEFINE new == [Empty EXCEPT ![k] = TRUE]
<1>2. /\ new \in Element /\ new.list /\ new.del = {} /\ (k = "msg" => new.msg)
      /\ (k = "revoke" => new.revoke)
    BY DEF Empty, Element
<1>3. /\ docs' = docs \union {DocOf(s)}
      /\ slot' = [r \in AllSeq |-> CASE r = s -> new
                                     [] r # s /\ DocOf(r) = DocOf(s) -> Empty
                                     [] OTHER -> slot[r]]
    BY DEF Create
<1> HIDE DEF new
<1>4. /\ slot'[s] = new
      /\ \A r \in AllSeq : r # s => slot'[r] = slot[r]
      /\ slot[s] = Empty
    BY <1>1, <1>3
<1>5. slot' \in [AllSeq -> Element]
    BY <1>1, <1>2, <1>3, ElementType
<1>6. docs' \subseteq Docs /\ docs \subseteq docs'
    BY <1>1, <1>3 DEF Docs
<1> HIDE DEF Element, Empty
<1> QED BY <1>1, <1>2, <1>3, <1>4, <1>5, <1>6, ElementType

\* A thread's step leaves the others where they are.
Moves(t) == \A v \in Thread : v # t => th'[v] = th[v]

\* A thread that goes to another step.
LEMMA GotoStep ==
    ASSUME TypeOK, NEW t \in Thread, NEW pc \in Step, Goto(t, pc)
    PROVE  /\ Moves(t) /\ th' \in [Thread -> ThreadState]
           /\ th'[t].pc = pc /\ th'[t].upto = th[t].upto /\ th'[t].asked = th[t].asked
           /\ th'[t].want = th[t].want /\ th'[t].got = th[t].got /\ th'[t].pushed = th[t].pushed
           /\ th'[t].missed = th[t].missed
<1>1. th \in [Thread -> ThreadState] /\ th[t] \in ThreadState
    BY TypeParts
<1>2. th'[t] = [th[t] EXCEPT !.pc = pc] /\ th' = [th EXCEPT ![t] = th'[t]]
    BY <1>1 DEF Goto
<1>3. [th[t] EXCEPT !.pc = pc] \in ThreadState
    BY <1>1 DEF ThreadState
<1>4. /\ th'[t].pc = pc /\ th'[t].upto = th[t].upto /\ th'[t].asked = th[t].asked
      /\ th'[t].want = th[t].want /\ th'[t].got = th[t].got /\ th'[t].pushed = th[t].pushed
      /\ th'[t].missed = th[t].missed
    BY <1>1, <1>2 DEF ThreadState
<1> QED BY <1>1, <1>2, <1>3, <1>4 DEF Moves

\* The types of what the threads write.
Stores ==
    /\ minSeq \in 0..(MaxMsg + 1)
    /\ userMin \in [User -> 0..(MaxMsg + 1)] /\ hasRead \in [User -> 0..MaxMsg]
    /\ cache \subseteq 1..maxSeq
    /\ userDel \in [User -> SUBSET AllSeq] /\ seqDel \in [AllSeq -> SUBSET User]
    /\ docs \subseteq Docs /\ slot \in [AllSeq -> Element]
    /\ \A s \in AllSeq : DocOf(s) \notin docs => slot[s] = Empty

\* A thread moves to a state of its type, and has begun then.
Typed(t) ==
    /\ Moves(t) /\ th' \in [Thread -> ThreadState] /\ th'[t].pc # "idle"
    /\ req[t].op # "destruct" => th'[t].upto \in 0..MaxMsg

\* A sequence over a set is one over any larger set.
LEMMA SeqLarger ==
    ASSUME NEW S, NEW T, S \subseteq T, NEW q \in Seq(S)
    PROVE  q \in Seq(T)
<1>1. PICK n \in Nat : q \in [1..n -> S]
    BY SeqDef
<1>2. q \in [1..n -> T]
    BY <1>1
<1> QED BY <1>2, SeqDef

\* A thread's step keeps the types if it writes what it may.
LEMMA ThreadTypes ==
    ASSUME TInv, NEW t \in Thread, UNCHANGED <<maxSeq, queueVars, envVars>>, Stores', Typed(t)
    PROVE  TInv'
<1>1. UNCHANGED <<maxSeq, toMongo, consumer, expired, lost, stale, req, fails>>
    BY DEF queueVars, envVars
<1>2. TypeOK'
    BY <1>1 DEF TInv, TypeOK, Stores, Typed, Docs, Element, ThreadState, Step
<1>3. \A v \in Thread : req'[v].op # "destruct" => th'[v].upto \in 0..MaxMsg
    BY <1>1 DEF TInv, Typed, Moves
<1> QED BY <1>1, <1>2, <1>3 DEF TInv

\* The consumer's steps keep the types if it writes what it may.
LEMMA ConsumerTypes ==
    ASSUME TInv, UNCHANGED <<maxSeq, th, expired, req, fails>>, Stores', lost' \subseteq 1..maxSeq,
           stale' \subseteq 1..maxSeq,
           toMongo' \in Seq(1..maxSeq),
           consumer' \in [pc : {"idle", "update", "create", "evict", "members", "unlist"},
                          seq : 0..MaxMsg, users : SUBSET User],
           consumer'.pc # "idle" => consumer'.seq \in 1..maxSeq
    PROVE  TInv'
<1>1. toMongo' \in Seq(AllSeq)
  <2>1. 1..maxSeq \subseteq AllSeq
      BY SeqRange DEF TInv
  <2> QED BY <2>1, SeqLarger
<1>2. TypeOK'
    BY <1>1 DEF TInv, TypeOK, Stores, Docs, Element
<1> QED BY <1>2 DEF TInv

\* What the threads write is typed to begin with.
LEMMA StoresTyped == TypeOK => Stores
BY DEF TypeOK, Stores, Docs, Element

\* A thread that only goes to another step is typed.
LEMMA GotoTyped ==
    ASSUME TInv, NEW t \in Thread, NEW pc \in Step \ {"idle"}, Goto(t, pc)
    PROVE  Typed(t)
BY GotoStep DEF TInv, Typed

\* A step that changes only a thread.
LEMMA ReadTypes ==
    ASSUME TInv, NEW t \in Thread, Typed(t),
           UNCHANGED <<seqVars, cache, delVars, mongoVars, queueVars, envVars>>
    PROVE  TInv'
<1>1. UNCHANGED <<minSeq, userMin, hasRead, maxSeq, cache, userDel, seqDel, docs, slot>>
    BY DEF seqVars, delVars, mongoVars
<1>2. Stores'
    BY <1>1, StoresTyped DEF TInv, Stores
<1> QED BY <1>1, <1>2, ThreadTypes

\* The consumer and the environment keep the types.
LEMMA ConsumeTypes ==
    ASSUME TInv, Consume \/ BatchInsertChat2Cache \/ Expire
    PROVE  TInv'
<1>1. /\ TypeOK /\ Stores /\ toMongo \in Seq(1..maxSeq) /\ lost \subseteq 1..maxSeq
      /\ stale \subseteq 1..maxSeq
      /\ consumer \in [pc : {"idle", "update", "create", "evict", "members", "unlist"},
                       seq : 0..MaxMsg, users : SUBSET User]
      /\ consumer.pc # "idle" => consumer.seq \in 1..maxSeq
    BY StoresTyped DEF TInv, TypeOK
<1>2. /\ maxSeq \in Nat /\ MaxMsg \in Nat /\ maxSeq <= MaxMsg /\ 1..maxSeq \subseteq AllSeq
      /\ AllSeq \subseteq Nat
    BY <1>1, SeqRange
<1>3. ASSUME NEW pc \in {"update", "create", "evict", "members", "unlist"}, ConsumerAt(pc),
             consumer.pc # "idle"
      PROVE  /\ consumer' \in [pc : {"idle", "update", "create", "evict", "members", "unlist"},
                               seq : 0..MaxMsg, users : SUBSET User]
             /\ consumer'.pc # "idle" => consumer'.seq \in 1..maxSeq
    BY <1>1, <1>3 DEF ConsumerAt
<1>4. CASE BatchInsertChat2Cache
  <2>1. /\ maxSeq < MaxMsg /\ cache' = cache \union {maxSeq + 1}
        /\ toMongo' = Append(toMongo, maxSeq + 1) /\ maxSeq' = maxSeq + 1
        /\ UNCHANGED <<minSeq, userMin, hasRead, userDel, seqDel, docs, slot, consumer,
                       expired, lost, stale, req, fails, th>>
      BY <1>4 DEF BatchInsertChat2Cache, delVars, mongoVars, envVars
  <2>2. /\ maxSeq' \in 0..MaxMsg /\ 1..maxSeq \subseteq 1..maxSeq' /\ maxSeq + 1 \in 1..maxSeq'
        /\ 0..maxSeq \subseteq 0..maxSeq' /\ 1..maxSeq' \subseteq AllSeq
      BY <1>2, <2>1 DEF AllSeq
  <2>3. toMongo' \in Seq(1..maxSeq') /\ toMongo' \in Seq(AllSeq)
    <3>1. toMongo \in Seq(1..maxSeq')
        BY <1>1, <2>2, SeqLarger
    <3>2. toMongo' \in Seq(1..maxSeq')
        BY <2>1, <2>2, <3>1, AppendProperties
    <3> QED BY <2>2, <3>2, SeqLarger
  <2>4. cache' \subseteq 1..maxSeq' /\ lost' \subseteq 1..maxSeq' /\ stale' \subseteq 1..maxSeq'
        /\ expired' \in 0..maxSeq'
      BY <1>1, <2>1, <2>2 DEF TypeOK
  <2>5. TypeOK'
      BY <1>1, <2>1, <2>2, <2>3, <2>4 DEF TypeOK
  <2>6. consumer'.pc # "idle" => consumer'.seq \in 1..maxSeq'
      BY <1>1, <2>1, <2>2
  <2> QED BY <2>1, <2>3, <2>5, <2>6 DEF TInv
<1>5. CASE Expire
  <2>1. expired' = expired + 1 /\ expired < maxSeq
        /\ UNCHANGED <<maxSeq, minSeq, userMin, hasRead, cache, userDel, seqDel, docs, slot,
                       toMongo, consumer, lost, stale, req, fails, th>>
      BY <1>5 DEF Expire, seqVars, delVars, mongoVars, queueVars
  <2>2. expired' \in 0..maxSeq
      BY <1>1, <1>2, <2>1 DEF TypeOK
  <2>3. TypeOK'
      BY <1>1, <2>1, <2>2 DEF TypeOK
  <2> QED BY <2>1, <2>3 DEF TInv
<1>6. CASE MongoReceive
  <2>1. /\ toMongo # <<>> /\ toMongo' = Tail(toMongo)
        /\ consumer' = [pc |-> "update", seq |-> Head(toMongo), users |-> {}]
        /\ UNCHANGED <<maxSeq, minSeq, userMin, hasRead, cache, userDel, seqDel, docs, slot,
                       expired, lost, stale, req, fails, th>>
      BY <1>6 DEF MongoReceive, seqVars, delVars, mongoVars, envVars
  <2>2. Head(toMongo) \in 1..maxSeq /\ toMongo' \in Seq(1..maxSeq)
      BY <1>1, <2>1, HeadTailProperties
  <2>3. Head(toMongo) \in 0..MaxMsg
      BY <1>2, <2>2
  <2>4. Stores'
      BY <1>1, <2>1 DEF Stores
  <2> QED BY <1>1, <2>1, <2>2, <2>3, <2>4, ConsumerTypes
<1>7. CASE MongoUpdate
  <2>1. /\ consumer.pc = "update"
        /\ UNCHANGED <<maxSeq, minSeq, userMin, hasRead, cache, userDel, seqDel, docs,
                       toMongo, expired, lost, stale, req, fails, th>>
        /\ \/ /\ DocOf(consumer.seq) \in docs /\ UpdateMsg(consumer.seq, "msg")
              /\ ConsumerAt("evict")
           \/ UNCHANGED slot /\ ConsumerAt("create")
      BY <1>7 DEF MongoUpdate, seqVars, delVars, envVars
  <2>2. consumer.seq \in AllSeq
      BY <1>1, <1>2, <2>1
  <2>3. Stores'
    <3>1. CASE DocOf(consumer.seq) \in docs /\ UpdateMsg(consumer.seq, "msg")
        BY <1>1, <2>1, <2>2, <3>1, UpdateStep DEF Stores
    <3>2. CASE UNCHANGED slot
        BY <1>1, <2>1, <3>2 DEF Stores
    <3> QED BY <2>1, <3>1, <3>2
  <2> QED BY <1>1, <1>3, <2>1, <2>3, ConsumerTypes
<1>8. CASE MongoCreate
  <2>1. /\ consumer.pc = "create"
        /\ UNCHANGED <<maxSeq, minSeq, userMin, hasRead, cache, userDel, seqDel,
                       toMongo, expired, lost, stale, req, fails, th>>
        /\ \/ UNCHANGED <<docs, slot>> /\ ConsumerAt("update")
           \/ /\ DocOf(consumer.seq) \notin docs /\ Create(consumer.seq, "msg")
              /\ ConsumerAt("evict")
      BY <1>8 DEF MongoCreate, seqVars, delVars, mongoVars, envVars
  <2>2. consumer.seq \in AllSeq
      BY <1>1, <1>2, <2>1
  <2>3. Stores'
    <3>1. CASE DocOf(consumer.seq) \notin docs /\ Create(consumer.seq, "msg")
        BY <1>1, <2>1, <2>2, <3>1, CreateStep DEF Stores
    <3>2. CASE UNCHANGED <<docs, slot>>
        BY <1>1, <2>1, <3>2 DEF Stores
    <3> QED BY <2>1, <3>1, <3>2
  <2> QED BY <1>1, <1>3, <2>1, <2>3, ConsumerTypes
<1>9. CASE MongoFail
  <2>1. /\ consumer.pc # "idle" /\ ConsumerAt("evict") /\ lost' = lost \union {consumer.seq}
        /\ UNCHANGED <<maxSeq, minSeq, userMin, hasRead, cache, userDel, seqDel, docs, slot,
                       toMongo, expired, stale, req, fails, th>>
      BY <1>9 DEF MongoFail, seqVars, delVars, mongoVars
  <2>2. Stores' /\ lost' \subseteq 1..maxSeq
      BY <1>1, <2>1 DEF Stores
  <2> QED BY <1>1, <1>3, <2>1, <2>2, ConsumerTypes
<1>10. CASE DeleteMessagesFromCache
  <2>1. /\ consumer.pc # "idle" /\ ConsumerAt("members") /\ cache' \subseteq cache
        /\ stale' \subseteq stale \union {consumer.seq}
        /\ UNCHANGED <<maxSeq, minSeq, userMin, hasRead, userDel, seqDel, docs, slot,
                       toMongo, expired, lost, req, fails, th>>
      BY <1>10 DEF DeleteMessagesFromCache, seqVars, delVars, mongoVars
  <2>2. Stores' /\ stale' \subseteq 1..maxSeq
      BY <1>1, <2>1 DEF Stores
  <2> QED BY <1>1, <1>3, <2>1, <2>2, ConsumerTypes
<1>11. CASE DelListMembers
  <2>1. /\ consumer.pc = "members"
        /\ consumer' = [consumer EXCEPT !.users = seqDel[consumer.seq], !.pc = "unlist"]
        /\ UNCHANGED <<maxSeq, minSeq, userMin, hasRead, cache, userDel, seqDel, docs, slot,
                       toMongo, expired, lost, stale, req, fails, th>>
      BY <1>11 DEF DelListMembers, seqVars, delVars, mongoVars, envVars
  <2>2. seqDel[consumer.seq] \in SUBSET User
      BY <1>1, <1>2, <2>1 DEF Stores
  <2>3. /\ consumer' \in [pc : {"idle", "update", "create", "evict", "members", "unlist"},
                          seq : 0..MaxMsg, users : SUBSET User]
        /\ consumer'.seq = consumer.seq
      BY <1>1, <2>1, <2>2
  <2>4. Stores'
      BY <1>1, <2>1 DEF Stores
  <2> QED BY <1>1, <2>1, <2>3, <2>4, ConsumerTypes
<1>12. CASE DelUserDeleteMsgsList
  <2> DEFINE s == consumer.seq
             users == consumer.users
  <2>1. /\ consumer.pc = "unlist"
        /\ userDel' = [u \in User |-> IF u \in users THEN userDel[u] \ {s} ELSE userDel[u]]
        /\ seqDel' = IF users = {} THEN seqDel ELSE [seqDel EXCEPT ![s] = {}]
        /\ consumer' = [pc |-> "idle", seq |-> 0, users |-> {}]
        /\ UNCHANGED <<maxSeq, minSeq, userMin, hasRead, cache, docs, slot,
                       toMongo, expired, lost, stale, req, fails, th>>
      BY <1>12 DEF DelUserDeleteMsgsList, seqVars, mongoVars, envVars
  <2>2. s \in AllSeq
      BY <1>1, <1>2, <2>1
  <2> HIDE DEF s, users
  <2>3. userDel' \in [User -> SUBSET AllSeq] /\ seqDel' \in [AllSeq -> SUBSET User]
      BY <1>1, <2>1, <2>2 DEF Stores
  <2>4. Stores'
      BY <1>1, <2>1, <2>3 DEF Stores
  <2>5. /\ consumer' \in [pc : {"idle", "update", "create", "evict", "members", "unlist"},
                          seq : 0..MaxMsg, users : SUBSET User]
        /\ consumer'.pc = "idle"
      BY <1>2, <2>1
  <2> QED BY <1>1, <2>1, <2>4, <2>5, ConsumerTypes
<1> QED BY <1>4, <1>5, <1>6, <1>7, <1>8, <1>9, <1>10, <1>11, <1>12 DEF Consume

\* Everything but the threads.
Still == UNCHANGED <<seqVars, cache, delVars, mongoVars, queueVars, envVars>>

\* What a GET misses was there.
LEMMA UnreadCached ==
    ASSUME NEW S, NEW missed \in Unread(S)
    PROVE  missed \subseteq S /\ missed \subseteq cache
BY DEF Unread

\* The steps that only read, and the thread after them.
LEMMA ReadSteps ==
    ASSUME TInv, NEW t \in Thread,
           \/ DeleteRead(t) \/ RevokeRead(t) \/ RevokeFind(t) \/ ClearRead(t)
           \/ DestructFind(t) \/ DestructCompare(t) \/ SweepStart(t) \/ PullSeqs(t)
           \/ GetMessagesBySeq(t) \/ GetUserDelList(t) \/ GetMsgBySeqIndexIn1Doc(t)
    PROVE  Still /\ Typed(t)
<1>1. TypeOK /\ th \in [Thread -> ThreadState] /\ th[t] \in ThreadState
    BY TypeParts DEF TInv
<1>2. /\ maxSeq \in Nat /\ MaxMsg \in Nat /\ maxSeq <= MaxMsg /\ 1..maxSeq \subseteq AllSeq
      /\ 1..expired \subseteq AllSeq /\ AllSeq \subseteq Nat
    BY <1>1, SeqRange
<1>3. req[t].op # "destruct" => th[t].upto \in 0..MaxMsg
    BY DEF TInv
\* a thread that gets a new state of its type
<1>4. ASSUME NEW s \in ThreadState, th' = [th EXCEPT ![t] = s], s.pc # "idle",
             req[t].op # "destruct" => s.upto \in 0..MaxMsg
      PROVE  Typed(t)
    BY <1>1, <1>4 DEF Typed, Moves
<1>5. CASE DeleteRead(t)
  <2>1. PICK missed \in Unread({req[t].seq}) :
          th' = [th EXCEPT ![t].pc = IF req[t].seq \in cache \ missed THEN "list" ELSE "push",
                           ![t].missed = missed]
      BY <1>5 DEF DeleteRead
  <2> DEFINE pc == IF req[t].seq \in cache \ missed THEN "list" ELSE "push"
             s == [th[t] EXCEPT !.pc = pc, !.missed = missed]
  <2>2. Still
      BY <1>5 DEF DeleteRead, Still
  <2>3. missed \in SUBSET AllSeq /\ pc \in Step \ {"idle"}
      BY <1>1, <1>2, UnreadCached DEF Step, TypeOK
  <2>4. th' = [th EXCEPT ![t] = s]
      BY <1>1, <2>1
  <2> HIDE DEF pc
  <2>5. s \in ThreadState /\ s.pc # "idle" /\ s.upto = th[t].upto
      BY <1>1, <2>3 DEF ThreadState
  <2> HIDE DEF s
  <2> QED BY <1>3, <1>4, <2>2, <2>4, <2>5
<1>6. CASE RevokeRead(t)
  <2>1. Still /\ (Goto(t, "refused") \/ Goto(t, "update") \/ Goto(t, "find"))
      BY <1>6 DEF RevokeRead, Still
  <2> QED BY <2>1, GotoTyped DEF Step
<1>7. CASE RevokeFind(t)
  <2>1. Still /\ (Goto(t, "refused") \/ Goto(t, "update"))
      BY <1>7 DEF RevokeFind, Still
  <2> QED BY <2>1, GotoTyped DEF Step
<1>8. CASE ClearRead(t)
  <2>1. Still /\ th' = [th EXCEPT ![t].pc = "set", ![t].upto = maxSeq]
      BY <1>8 DEF ClearRead, Still
  <2> DEFINE s == [th[t] EXCEPT !.pc = "set", !.upto = maxSeq]
  <2>2. s \in ThreadState /\ s.pc # "idle" /\ s.upto = maxSeq /\ maxSeq \in 0..MaxMsg
    <3>1. maxSeq \in 0..(MaxMsg + 1) /\ maxSeq \in 0..MaxMsg
        BY <1>2
    <3> QED BY <1>1, <3>1 DEF ThreadState, Step
  <2>3. th' = [th EXCEPT ![t] = s]
      BY <1>1, <2>1
  <2> HIDE DEF s
  <2> QED BY <1>4, <2>1, <2>2, <2>3
<1>9. CASE DestructFind(t)
  <2> DEFINE u == req[t].user
             seqs == {s \in 1..expired : /\ \A r \in 1..s : DocOf(r) \in docs => slot[r].msg
                                         /\ DocOf(s) \in docs
                                         /\ u \notin slot[s].del}
             upto == IF seqs = {} THEN 0 ELSE Max(seqs) + 1
             pc == IF seqs = {} THEN "done" ELSE "compare"
             s == [th[t] EXCEPT !.upto = upto, !.pc = pc]
  <2>1. Still /\ th' = [th EXCEPT ![t].upto = upto, ![t].pc = pc] /\ req[t].op = "destruct"
      BY <1>9 DEF DestructFind, Still, At
  <2>2. seqs \subseteq AllSeq
      BY <1>2
  <2>3. upto \in 0..(MaxMsg + 1) /\ pc \in Step \ {"idle"}
    <3> HIDE DEF seqs
    <3>1. CASE seqs = {}
        BY <1>2, <3>1 DEF Step
    <3>2. CASE seqs # {}
      <4>1. seqs \subseteq Nat /\ \A y \in seqs : y <= MaxMsg
          BY <1>2, <2>2 DEF AllSeq
      <4>2. Max(seqs) \in seqs
          BY <1>2, <3>2, <4>1, MaxInSet
      <4>3. Max(seqs) \in 1..MaxMsg
          BY <2>2, <4>2 DEF AllSeq
      <4> QED BY <1>2, <3>2, <4>3 DEF Step
    <3> QED BY <3>1, <3>2
  <2> HIDE DEF upto, pc
  <2>4. s \in ThreadState /\ s.pc # "idle"
      BY <1>1, <2>3 DEF ThreadState
  <2>5. th' = [th EXCEPT ![t] = s]
      BY <1>1, <2>1
  <2> HIDE DEF s
  <2> QED BY <1>4, <2>1, <2>4, <2>5
<1>10. CASE DestructCompare(t)
  <2>1. Still /\ (Goto(t, "set") \/ Goto(t, "done"))
      BY <1>10 DEF DestructCompare, Still
  <2> QED BY <2>1, GotoTyped DEF Step
<1>11. CASE SweepStart(t)
  <2>1. Still /\ th' = [th EXCEPT ![t].pc = "sweep", ![t].asked = 1..maxSeq]
      BY <1>11 DEF SweepStart, Still
  <2> DEFINE s == [th[t] EXCEPT !.pc = "sweep", !.asked = 1..maxSeq]
  <2>2. s \in ThreadState /\ s.pc # "idle" /\ s.upto = th[t].upto
      BY <1>1, <1>2 DEF ThreadState, Step
  <2>3. th' = [th EXCEPT ![t] = s]
      BY <1>1, <2>1
  <2> HIDE DEF s
  <2> QED BY <1>3, <1>4, <2>1, <2>2, <2>3
<1>12. CASE PullSeqs(t)
  <2> DEFINE S == RangeSeqs(req[t].user)
             pc == IF S = {} THEN "done" ELSE "cache"
             s == [th[t] EXCEPT !.pc = pc, !.asked = S]
  <2>1. Still /\ th' = [th EXCEPT ![t].pc = pc, ![t].asked = S]
      BY <1>12 DEF PullSeqs, Still
  <2>2. S \in SUBSET AllSeq /\ pc \in Step \ {"idle"}
      BY <1>2 DEF RangeSeqs, Step
  <2> HIDE DEF S, pc
  <2>3. s \in ThreadState /\ s.pc # "idle" /\ s.upto = th[t].upto
      BY <1>1, <2>2 DEF ThreadState
  <2>4. th' = [th EXCEPT ![t] = s]
      BY <1>1, <2>1
  <2> HIDE DEF s
  <2> QED BY <1>3, <1>4, <2>1, <2>3, <2>4
<1>13. CASE GetMessagesBySeq(t)
  <2>1. PICK missed \in Unread(th[t].asked) :
          th' = [th EXCEPT ![t].pc = "list", ![t].missed = missed,
                           ![t].got = (th[t].asked \intersect cache) \ missed,
                           ![t].want = th[t].asked \ ((th[t].asked \intersect cache) \ missed)]
      BY <1>13 DEF GetMessagesBySeq
  <2> DEFINE found == (th[t].asked \intersect cache) \ missed
             want == th[t].asked \ found
             s == [th[t] EXCEPT !.pc = "list", !.missed = missed, !.got = found, !.want = want]
  <2>2. Still
      BY <1>13 DEF GetMessagesBySeq, Still
  <2>3. found \in SUBSET AllSeq /\ want \in SUBSET AllSeq /\ missed \in SUBSET AllSeq
      BY <1>1, UnreadCached DEF ThreadState
  <2>4. th' = [th EXCEPT ![t] = s]
      BY <1>1, <2>1
  <2> HIDE DEF found, want
  <2>5. s \in ThreadState /\ s.pc # "idle" /\ s.upto = th[t].upto
      BY <1>1, <2>3 DEF ThreadState, Step
  <2> HIDE DEF s
  <2> QED BY <1>3, <1>4, <2>2, <2>4, <2>5
<1>14. CASE GetUserDelList(t)
  <2> DEFINE pc == IF th[t].want = {} THEN "done" ELSE "mongo"
             got == th[t].got \ userDel[req[t].user]
             s == [th[t] EXCEPT !.pc = pc, !.got = got]
  <2>1. Still /\ th' = [th EXCEPT ![t].pc = pc, ![t].got = @ \ userDel[req[t].user]]
      BY <1>14 DEF GetUserDelList, Still
  <2>2. got \in SUBSET AllSeq /\ pc \in Step \ {"idle"}
      BY <1>1 DEF ThreadState, Step
  <2>3. th' = [th EXCEPT ![t] = s]
      BY <1>1, <2>1
  <2> HIDE DEF got, pc
  <2>4. s \in ThreadState /\ s.pc # "idle" /\ s.upto = th[t].upto
      BY <1>1, <2>2 DEF ThreadState
  <2> HIDE DEF s
  <2> QED BY <1>3, <1>4, <2>1, <2>3, <2>4
<1>15. CASE GetMsgBySeqIndexIn1Doc(t)
  <2>1. PICK d \in {DocOf(s) : s \in th[t].want} :
          th' = [th EXCEPT
             ![t].pc = CASE ReadFails(d, th[t].want) -> "refused"
                         [] ~ ReadFails(d, th[t].want)
                               /\ {s \in th[t].want : DocOf(s) # d} = {} -> "done"
                         [] OTHER -> "mongo",
             ![t].want = {s \in th[t].want : DocOf(s) # d},
             ![t].got = IF ReadFails(d, th[t].want) THEN {}
                        ELSE @ \union FoundIn(d, req[t].user, th[t].want)]
      BY <1>15 DEF GetMsgBySeqIndexIn1Doc
  <2> DEFINE rest == {s \in th[t].want : DocOf(s) # d}
             failed == ReadFails(d, th[t].want)
             pc == CASE failed -> "refused" [] ~ failed /\ rest = {} -> "done" [] OTHER -> "mongo"
             got == IF failed THEN {} ELSE th[t].got \union FoundIn(d, req[t].user, th[t].want)
             n == [th[t] EXCEPT !.pc = pc, !.want = rest, !.got = got]
  <2>2. Still
      BY <1>15 DEF GetMsgBySeqIndexIn1Doc, Still
  <2>3. th' = [th EXCEPT ![t] = n]
      BY <1>1, <2>1
  <2>4. pc \in Step \ {"idle"}
      BY DEF Step
  <2>5. rest \in SUBSET AllSeq /\ got \in SUBSET AllSeq
      BY <1>1 DEF ThreadState, FoundIn
  <2> HIDE DEF pc, rest, got, failed
  <2>6. n \in ThreadState /\ n.pc # "idle" /\ n.upto = th[t].upto
      BY <1>1, <2>4, <2>5 DEF ThreadState
  <2> HIDE DEF n
  <2> QED BY <1>3, <1>4, <2>2, <2>3, <2>6
<1> QED BY <1>5, <1>6, <1>7, <1>8, <1>9, <1>10, <1>11, <1>12, <1>13, <1>14, <1>15

\* The steps that write keep the types.
LEMMA WriteTypes ==
    ASSUME TInv, NEW t \in Thread,
           \/ UserDeleteMsgs(t) \/ UserDeleteMsgsListed(t) \/ PushUnique(t)
           \/ PhysicalCache(t) \/ PhysicalMongo(t) \/ RevokeUpdate(t) \/ RevokeCreate(t)
           \/ SetUserConversationsMinSeqs(t) \/ SetMinSeqs(t) \/ UserSetHasReadSeqs(t)
           \/ DestructSet(t) \/ DeleteMsgRecursion(t) \/ DeleteDocs(t)
           \/ CleanUpOneConversationAllMsg(t) \/ SetMinSeq(t)
    PROVE  Stores' /\ Typed(t) /\ UNCHANGED <<maxSeq, queueVars, envVars>>
<1>1. /\ TypeOK /\ Stores /\ th \in [Thread -> ThreadState] /\ th[t] \in ThreadState
      /\ slot \in [AllSeq -> Element] /\ docs \subseteq Docs
      /\ \A s \in AllSeq : DocOf(s) \notin docs => slot[s] = Empty
    BY TypeParts, StoresTyped DEF TInv
<1>2. /\ maxSeq \in Nat /\ MaxMsg \in Nat /\ maxSeq <= MaxMsg /\ 1..maxSeq \subseteq AllSeq
      /\ 1..expired \subseteq AllSeq /\ AllSeq \subseteq Nat
    BY <1>1, SeqRange
<1>3. /\ req[t].op # "destruct" => th[t].upto \in 0..MaxMsg
      /\ req[t].op # "destruct" => th[t].upto + 1 \in 0..(MaxMsg + 1)
      /\ th[t].upto \in 0..(MaxMsg + 1)
  <2>1. req[t].op # "destruct" => th[t].upto \in 0..MaxMsg
      BY DEF TInv
  <2> QED BY <1>1, <1>2, <2>1 DEF ThreadState
<1>4. req[t].user \in User /\ req[t].seq \in AllSeq
    BY <1>1, RequestType
<1>5. ASSUME NEW s \in ThreadState, th' = [th EXCEPT ![t] = s], s.pc # "idle",
             req[t].op # "destruct" => s.upto \in 0..MaxMsg
      PROVE  Typed(t)
    BY <1>1, <1>5 DEF Typed, Moves
<1>6. CASE UserDeleteMsgs(t)
  <2>1. /\ seqDel' = [seqDel EXCEPT ![req[t].seq] = @ \union {req[t].user}] /\ Goto(t, "listed")
        /\ UNCHANGED <<seqVars, cache, userDel, mongoVars, queueVars, envVars>>
      BY <1>6 DEF UserDeleteMsgs
  <2>2. seqDel' \in [AllSeq -> SUBSET User]
      BY <1>1, <1>4, <2>1 DEF Stores
  <2> QED BY <1>1, <2>1, <2>2, GotoTyped DEF Stores, Step, seqVars, mongoVars
<1>7. CASE UserDeleteMsgsListed(t)
  <2>1. /\ userDel' = [userDel EXCEPT ![req[t].user] = @ \union {req[t].seq}] /\ Goto(t, "push")
        /\ UNCHANGED <<seqVars, cache, seqDel, mongoVars, queueVars, envVars>>
      BY <1>7 DEF UserDeleteMsgsListed
  <2>2. userDel' \in [User -> SUBSET AllSeq]
      BY <1>1, <1>4, <2>1 DEF Stores
  <2> QED BY <1>1, <2>1, <2>2, GotoTyped DEF Stores, Step, seqVars, mongoVars
<1>8. CASE PushUnique(t)
  <2> DEFINE s == req[t].seq
             e == [slot[s] EXCEPT !.list = TRUE, !.del = @ \union {req[t].user}]
             matched == DocOf(s) \in docs
             n == [th[t] EXCEPT !.pc = "done", !.pushed = matched]
  <2>1. /\ \/ DocOf(s) \in docs
              /\ slot' = [slot EXCEPT ![s].list = TRUE, ![s].del = @ \union {req[t].user}]
           \/ UNCHANGED slot
        /\ th' = [th EXCEPT ![t].pc = "done", ![t].pushed = DocOf(s) \in docs]
        /\ UNCHANGED <<seqVars, cache, delVars, docs, queueVars, envVars>>
      BY <1>8 DEF PushUnique
  <2>2. e \in Element
      BY <1>1, <1>4 DEF Element
  <2>3. UNCHANGED slot \/ (DocOf(s) \in docs /\ slot' = [slot EXCEPT ![s] = e])
      BY <1>1, <1>4, <2>1
  <2>4. th' = [th EXCEPT ![t] = n]
      BY <1>1, <2>1
  <2>5. n \in ThreadState /\ n.pc # "idle" /\ n.upto = th[t].upto
    <3>1. matched \in BOOLEAN
        OBVIOUS
    <3> HIDE DEF matched
    <3> QED BY <1>1, <3>1 DEF ThreadState, Step
  <2> HIDE DEF e, n
  <2>6. Typed(t)
      BY <1>3, <1>5, <2>4, <2>5
  <2>7. Stores'
      BY <1>1, <1>4, <2>1, <2>2, <2>3 DEF Stores, seqVars, delVars
  <2> QED BY <2>1, <2>6, <2>7 DEF seqVars
<1>9. CASE PhysicalCache(t)
  <2>1. /\ cache' = cache \ {req[t].seq} /\ Goto(t, "mongo")
        /\ UNCHANGED <<seqVars, delVars, mongoVars, queueVars, envVars>>
      BY <1>9 DEF PhysicalCache
  <2> QED BY <1>1, <2>1, GotoTyped DEF Stores, Step, seqVars, delVars, mongoVars
<1>10. CASE PhysicalMongo(t)
  <2> DEFINE s == req[t].seq
  <2>1. /\ UNCHANGED slot \/ (DocOf(s) \in docs /\ slot' = [slot EXCEPT ![s] = Removed])
        /\ Goto(t, "done") /\ UNCHANGED <<seqVars, cache, delVars, docs, queueVars, envVars>>
      BY <1>10 DEF PhysicalMongo
  <2>2. slot' \in [AllSeq -> Element] /\ \A r \in AllSeq : DocOf(r) \notin docs' => slot'[r] = Empty
      BY <1>1, <1>4, <2>1, ElementType
  <2> QED BY <1>1, <2>1, <2>2, GotoTyped DEF Stores, Step, seqVars, delVars
<1>11. CASE RevokeUpdate(t)
  <2> DEFINE s == req[t].seq
  <2>1. /\ \/ DocOf(s) \in docs /\ UpdateMsg(s, "revoke") /\ Goto(t, "done")
           \/ UNCHANGED slot /\ Goto(t, "create")
        /\ UNCHANGED <<seqVars, cache, delVars, docs, queueVars, envVars>>
      BY <1>11 DEF RevokeUpdate
  <2>2. slot' \in [AllSeq -> Element] /\ \A r \in AllSeq : DocOf(r) \notin docs' => slot'[r] = Empty
    <3>1. CASE DocOf(s) \in docs /\ UpdateMsg(s, "revoke")
        BY <1>1, <1>4, <2>1, <3>1, UpdateStep
    <3>2. CASE UNCHANGED slot
        BY <1>1, <2>1, <3>2
    <3> QED BY <2>1, <3>1, <3>2
  <2> QED BY <1>1, <2>1, <2>2, GotoTyped DEF Stores, Step, seqVars, delVars
<1>12. CASE RevokeCreate(t)
  <2> DEFINE s == req[t].seq
  <2>1. /\ \/ UNCHANGED <<docs, slot>> /\ Goto(t, "update")
           \/ DocOf(s) \notin docs /\ Create(s, "revoke") /\ Goto(t, "done")
        /\ UNCHANGED <<seqVars, cache, delVars, queueVars, envVars>>
      BY <1>12 DEF RevokeCreate, mongoVars
  <2>2. /\ slot' \in [AllSeq -> Element] /\ docs' \subseteq Docs
        /\ \A r \in AllSeq : DocOf(r) \notin docs' => slot'[r] = Empty
    <3>1. CASE DocOf(s) \notin docs /\ Create(s, "revoke")
        BY <1>1, <1>4, <3>1, CreateStep
    <3>2. CASE UNCHANGED <<docs, slot>>
        BY <1>1, <3>2
    <3> QED BY <2>1, <3>1, <3>2
  <2> QED BY <1>1, <2>1, <2>2, GotoTyped DEF Stores, Step, seqVars, delVars
<1>13. CASE SetUserConversationsMinSeqs(t)
  <2>1. /\ userMin' = [userMin EXCEPT ![req[t].user] = th[t].upto + 1] /\ Goto(t, "read")
        /\ req[t].op = "clear"
        /\ UNCHANGED <<maxSeq, minSeq, hasRead, cache, delVars, mongoVars, queueVars, envVars>>
      BY <1>13 DEF SetUserConversationsMinSeqs, At
  <2>2. userMin' \in [User -> 0..(MaxMsg + 1)]
      BY <1>1, <1>3, <2>1 DEF Stores
  <2> QED BY <1>1, <2>1, <2>2, GotoTyped DEF Stores, Step, delVars, mongoVars
<1>14. CASE SetMinSeqs(t)
  <2>1. /\ minSeq' = th[t].upto + 1 /\ Goto(t, "read") /\ req[t].op = "clearAll"
        /\ UNCHANGED <<maxSeq, userMin, hasRead, cache, delVars, mongoVars, queueVars, envVars>>
      BY <1>14 DEF SetMinSeqs, At
  <2> QED BY <1>1, <1>3, <2>1, GotoTyped DEF Stores, Step, delVars, mongoVars
<1>15. CASE UserSetHasReadSeqs(t)
  <2>1. /\ hasRead' = [hasRead EXCEPT ![req[t].user] = th[t].upto] /\ Goto(t, "done")
        /\ req[t].op # "destruct"
        /\ UNCHANGED <<maxSeq, minSeq, userMin, cache, delVars, mongoVars, queueVars, envVars>>
      BY <1>15 DEF UserSetHasReadSeqs
  <2>2. hasRead' \in [User -> 0..MaxMsg]
      BY <1>1, <1>3, <2>1 DEF Stores
  <2> QED BY <1>1, <2>1, <2>2, GotoTyped DEF Stores, Step, delVars, mongoVars
<1>16. CASE DestructSet(t)
  <2>1. /\ userMin' = [userMin EXCEPT ![req[t].user] = th[t].upto] /\ Goto(t, "done")
        /\ UNCHANGED <<maxSeq, minSeq, hasRead, cache, delVars, mongoVars, queueVars, envVars>>
      BY <1>16 DEF DestructSet
  <2>2. userMin' \in [User -> 0..(MaxMsg + 1)]
      BY <1>1, <1>3, <2>1 DEF Stores
  <2> QED BY <1>1, <2>1, <2>2, GotoTyped DEF Stores, Step, delVars, mongoVars
<1>17. CASE DeleteMsgRecursion(t)
  <2>1. PICK d \in docs :
          LET old == {s \in TooOld(t) : DocOf(s) = d /\ slot[s].msg} IN
          IF AllTooOld(d, old)
          THEN /\ th' = [th EXCEPT ![t].index = @ + 1, ![t].upto = LastOf(d),
                                   ![t].full = @ \union {d}]
               /\ UNCHANGED slot
          ELSE /\ slot' = [s \in AllSeq |-> IF s \in old THEN Removed ELSE slot[s]]
               /\ th' = [th EXCEPT ![t].index = @ + 1,
                                   ![t].upto = IF old = {} THEN @ ELSE Max(old)]
      BY <1>17 DEF DeleteMsgRecursion
  <2> DEFINE old == {s \in TooOld(t) : DocOf(s) = d /\ slot[s].msg}
             upto == IF old = {} THEN th[t].upto ELSE Max(old)
             m == [th[t] EXCEPT !.index = @ + 1, !.upto = LastOf(d), !.full = @ \union {d}]
             n == [th[t] EXCEPT !.index = @ + 1, !.upto = upto]
  <2>2. UNCHANGED <<seqVars, cache, delVars, docs, queueVars, envVars>> /\ req[t].op # "destruct"
        /\ th[t].pc # "idle"
      BY <1>17 DEF DeleteMsgRecursion, Sweeping
  <2>3. old \subseteq AllSeq /\ d \in Docs
      BY <1>1, <1>2 DEF TooOld
  <2>4. \A s \in old : s \in 1..MaxMsg /\ DocOf(s) \in docs
      BY <2>3 DEF AllSeq
  <2>5. \/ LastOf(d) \in old /\ th' = [th EXCEPT ![t] = m] /\ UNCHANGED slot
        \/ /\ th' = [th EXCEPT ![t] = n]
           /\ slot' = [s \in AllSeq |-> IF s \in old THEN Removed ELSE slot[s]]
      BY <1>1, <2>1 DEF AllTooOld
  <2> HIDE DEF old
  <2>6. upto \in 0..MaxMsg
    <3>1. CASE old # {}
      <4>1. old \subseteq Nat /\ \A y \in old : y <= MaxMsg
          BY <1>2, <2>3, <2>4
      <4>2. Max(old) \in old
          BY <1>2, <3>1, <4>1, MaxInSet
      <4> QED BY <2>4, <3>1, <4>2
    <3> QED BY <1>3, <2>2, <3>1
  <2> HIDE DEF upto
  <2>7. upto \in 0..(MaxMsg + 1) /\ (LastOf(d) \in old => LastOf(d) \in 0..(MaxMsg + 1))
        /\ (LastOf(d) \in old => LastOf(d) \in 0..MaxMsg)
      BY <1>2, <2>4, <2>6
  <2>8. /\ LastOf(d) \in old => m \in ThreadState /\ m.upto = LastOf(d) /\ m.pc = th[t].pc
        /\ n \in ThreadState /\ n.upto = upto /\ n.pc = th[t].pc
    <3>1. th[t].index + 1 \in Nat /\ th[t].full \union {d} \in SUBSET Docs
        BY <1>1, <2>3 DEF ThreadState
    <3> QED BY <1>1, <2>7, <3>1 DEF ThreadState
  <2> HIDE DEF m, n
  <2>9. Typed(t)
      BY <1>5, <2>2, <2>5, <2>6, <2>7, <2>8
  <2>10. slot' \in [AllSeq -> Element] /\ \A r \in AllSeq : DocOf(r) \notin docs' => slot'[r] = Empty
    <3>1. CASE UNCHANGED slot
        BY <1>1, <2>2, <3>1
    <3>2. CASE slot' = [s \in AllSeq |-> IF s \in old THEN Removed ELSE slot[s]]
        BY <1>1, <2>2, <2>4, <3>2, ElementType
    <3> QED BY <2>5, <3>1, <3>2
  <2>11. Stores'
      BY <1>1, <2>2, <2>10 DEF Stores, seqVars, delVars
  <2> QED BY <2>2, <2>9, <2>11 DEF seqVars
<1>18. CASE DeleteDocs(t)
  <2>1. /\ docs' = docs \ th[t].full
        /\ slot' = [s \in AllSeq |-> IF DocOf(s) \in th[t].full THEN Empty ELSE slot[s]]
        /\ Goto(t, "clean") \/ Goto(t, "set")
        /\ UNCHANGED <<seqVars, cache, delVars, queueVars, envVars>>
      BY <1>18 DEF DeleteDocs
  <2>2. /\ slot' \in [AllSeq -> Element] /\ docs' \subseteq Docs
        /\ \A r \in AllSeq : DocOf(r) \notin docs' => slot'[r] = Empty
      BY <1>1, <2>1, ElementType
  <2> QED BY <1>1, <2>1, <2>2, GotoTyped DEF Stores, Step, seqVars, delVars
<1>19. CASE CleanUpOneConversationAllMsg(t)
  <2>1. /\ cache' = {} /\ Goto(t, "set")
        /\ UNCHANGED <<seqVars, delVars, mongoVars, queueVars, envVars>>
      BY <1>19 DEF CleanUpOneConversationAllMsg
  <2> QED BY <1>1, <2>1, GotoTyped DEF Stores, Step, seqVars, delVars, mongoVars
<1>20. CASE SetMinSeq(t)
  <2>1. /\ minSeq' = th[t].upto + 1 /\ Goto(t, "done") /\ req[t].op # "destruct"
        /\ UNCHANGED <<maxSeq, userMin, hasRead, cache, delVars, mongoVars, queueVars, envVars>>
      BY <1>20 DEF SetMinSeq, Sweeping
  <2> QED BY <1>1, <1>3, <2>1, GotoTyped DEF Stores, Step, delVars, mongoVars
<1> QED BY <1>6, <1>7, <1>8, <1>9, <1>10, <1>11, <1>12, <1>13, <1>14, <1>15, <1>16, <1>17,
           <1>18, <1>19, <1>20

\* Every step keeps the types.
LEMMA TypeNext == TInv /\ [Next]_vars => TInv'
<1> SUFFICES ASSUME TInv, [Next]_vars PROVE TInv'
    OBVIOUS
<1>1. CASE UNCHANGED vars
  <2>1. UNCHANGED <<maxSeq, th, expired, req, fails, lost, stale, toMongo, consumer>> /\ UNCHANGED <<minSeq,
          userMin, hasRead, cache, userDel, seqDel, docs, slot>>
      BY <1>1 DEF vars, seqVars, delVars, mongoVars, queueVars, envVars
  <2>2. Stores'
      BY <2>1, StoresTyped DEF TInv, Stores
  <2> QED BY <2>1, <2>2, ConsumerTypes DEF TInv, TypeOK
<1>2. CASE Consume \/ BatchInsertChat2Cache \/ Expire
    BY <1>2, ConsumeTypes
<1>3. ASSUME NEW t \in Thread, Serve(t) PROVE TInv'
  <2>1. CASE \/ DeleteRead(t) \/ RevokeRead(t) \/ RevokeFind(t) \/ ClearRead(t)
             \/ DestructFind(t) \/ DestructCompare(t) \/ SweepStart(t) \/ PullSeqs(t)
             \/ GetMessagesBySeq(t) \/ GetUserDelList(t) \/ GetMsgBySeqIndexIn1Doc(t)
      BY <2>1, ReadSteps, ReadTypes DEF Still
  <2>2. CASE \/ UserDeleteMsgs(t) \/ UserDeleteMsgsListed(t) \/ PushUnique(t)
             \/ PhysicalCache(t) \/ PhysicalMongo(t) \/ RevokeUpdate(t) \/ RevokeCreate(t)
             \/ SetUserConversationsMinSeqs(t) \/ SetMinSeqs(t) \/ UserSetHasReadSeqs(t)
             \/ DestructSet(t) \/ DeleteMsgRecursion(t) \/ DeleteDocs(t)
             \/ CleanUpOneConversationAllMsg(t) \/ SetMinSeq(t)
      BY <2>2, WriteTypes, ThreadTypes
  <2> QED BY <1>3, <2>1, <2>2 DEF Serve
<1> QED BY <1>1, <1>2, <1>3 DEF Next

\* The types hold initially.
LEMMA TypeInit == Init => TInv
<1> SUFFICES ASSUME Init PROVE TInv
    OBVIOUS
<1>1. MaxMsg \in Nat
    BY MsgStoreAssumption
<1>2. Idle \in ThreadState /\ Idle.upto = 0 /\ Idle.pc = "idle"
    BY <1>1 DEF Idle, ThreadState, Step
<1>3. th \in [Thread -> ThreadState] /\ \A t \in Thread : th[t].upto = 0
    BY <1>2 DEF Init
<1>4. /\ maxSeq = 0 /\ minSeq = 0 /\ userMin = [u \in User |-> 0] /\ hasRead = [u \in User |-> 0]
      /\ cache = {} /\ userDel = [u \in User |-> {}] /\ seqDel = [s \in AllSeq |-> {}]
      /\ docs = {} /\ slot = [s \in AllSeq |-> Empty] /\ toMongo = <<>>
      /\ consumer = [pc |-> "idle", seq |-> 0, users |-> {}] /\ expired = 0 /\ lost = {}
      /\ stale = {}
    BY DEF Init
<1>5. toMongo \in Seq(AllSeq) /\ toMongo \in Seq(1..maxSeq)
    BY <1>4, EmptySeq
<1>6. slot \in [AllSeq -> Element]
    BY <1>4, ElementType
<1>7. /\ minSeq \in 0..(MaxMsg + 1) /\ userMin \in [User -> 0..(MaxMsg + 1)]
      /\ hasRead \in [User -> 0..MaxMsg] /\ maxSeq \in 0..MaxMsg /\ expired \in 0..maxSeq
      /\ consumer \in [pc : {"idle", "update", "create", "evict", "members", "unlist"},
                       seq : 0..MaxMsg, users : SUBSET User]
    BY <1>1, <1>4
<1>8. [req |-> req, fails |-> fails] \in Workload
  <2>1. PICK w \in Workload : req = w.req /\ fails = w.fails
      BY DEF Init
  <2>2. w \in [req : [Thread -> [op : Op, user : User, seq : AllSeq]], fails : SUBSET Fallible]
      BY MsgStoreAssumption
  <2>3. w = [req |-> w.req, fails |-> w.fails]
      BY <2>2
  <2> QED BY <2>1, <2>3
<1>9. TypeOK
    BY <1>3, <1>4, <1>5, <1>6, <1>7, <1>8, TypeParts
<1> QED BY <1>1, <1>3, <1>4, <1>5, <1>9 DEF TInv

\* MsgStore is type correct for every set of requests and any size of its documents:
\* min seqs stay within one of the seqs, and the elements of a document that does not
\* exist are empty, whoever creates, deletes or fills documents.
THEOREM StoreTypeCorrect == Spec => []TypeOK
<1>1. TInv => TypeOK
    BY DEF TInv
<1> QED BY <1>1, TypeInit, TypeNext, PTL DEF Spec

-----------------------------------------------------------------------------
(* What no step undoes.                                                    *)

\* Whoever set out to remove or delete a message did so; nothing is unlost.
Grows ==
    /\ UNCHANGED req /\ maxSeq <= maxSeq' /\ lost \subseteq lost' /\ stale \subseteq stale'
    /\ \A s \in AllSeq : Wiped(s) => Wiped(s)'
    /\ \A s \in AllSeq, u \in User : DeletedBy(s, u) => DeletedBy(s, u)'

\* An element loses nothing unless its message is removed for everyone, and only a
\* user who deletes gets on its list.
SlotKept ==
    \A s \in AllSeq :
        /\ \/ Wiped(s)'
           \/ /\ slot[s].msg => slot'[s].msg
              /\ slot[s].revoke => slot'[s].revoke
              /\ slot[s].list => slot'[s].list
              /\ slot[s].del \subseteq slot'[s].del
        /\ \A u \in User : u \in slot'[s].del => u \in slot[s].del \/ DeletedBy(s, u)

\* A copy leaves redis when the message is in Mongo, and does not come back.
CacheKept ==
    \A s \in 1..maxSeq : /\ s \in cache => s \in cache' \/ Held(s)'
                         /\ s \in cache' => s \in cache

\* The user's list in redis forgets a message only when its copy has left, or was left
\* behind.
ListKept ==
    \A s \in AllSeq, u \in User :
        /\ s \in userDel[u] => s \in userDel'[u] \/ s \notin cache \/ s \in stale'
        /\ s \in userDel'[u] => s \in userDel[u] \/ DeletedBy(s, u)

Progress == Grows /\ SlotKept /\ CacheKept /\ ListKept

\* A step after which everyone who had begun still has.
LEMMA GrowsStep ==
    ASSUME UNCHANGED req, maxSeq <= maxSeq', lost \subseteq lost', stale \subseteq stale',
           \A v \in Thread : Begun(v) => Begun(v)'
    PROVE  Grows
<1>1. \A s \in AllSeq : Wiped(s) => Wiped(s)'
    BY DEF Wiped
<1>2. \A s \in AllSeq, u \in User : DeletedBy(s, u) => DeletedBy(s, u)'
    BY DEF DeletedBy
<1> QED BY <1>1, <1>2 DEF Grows

\* A thread's step is one.
LEMMA GrowsThread ==
    ASSUME TInv, NEW t \in Thread, Typed(t), UNCHANGED <<maxSeq, envVars>>
    PROVE  Grows /\ Begun(t)'
<1>1. Begun(t)' /\ \A v \in Thread : Begun(v) => Begun(v)'
    BY DEF Typed, Moves, Begun
<1>2. UNCHANGED <<maxSeq, lost, stale, req>> /\ maxSeq \in Nat
    BY SeqRange DEF envVars, TInv
<1>3. maxSeq <= maxSeq' /\ lost \subseteq lost' /\ stale \subseteq stale'
    BY <1>2
<1> QED BY <1>1, <1>2, <1>3, GrowsStep

\* What is left alone is kept.
LEMMA SlotSame == UNCHANGED slot => SlotKept
BY DEF SlotKept
LEMMA CacheSame == UNCHANGED cache => CacheKept
BY DEF CacheKept
LEMMA ListSame == UNCHANGED userDel => ListKept
BY DEF ListKept

\* What UpdateMsg and Create do to the elements keeps them.
LEMMA InsertKeeps ==
    ASSUME \A r \in AllSeq : /\ slot[r].msg => slot'[r].msg
                             /\ slot[r].revoke => slot'[r].revoke
                             /\ slot'[r].list = slot[r].list
                             /\ slot'[r].del = slot[r].del
    PROVE  SlotKept
BY DEF SlotKept

\* A message that is in Mongo or has an excuse keeps it.
LEMMA HeldKept ==
    ASSUME Progress, NEW s \in AllSeq
    PROVE  (Held(s) => Held(s)') /\ (Gone(s) => Gone(s)')
BY DEF Progress, Grows, SlotKept, Held, Gone

\* The consumer and the environment undo nothing.
LEMMA ConsumeProgress ==
    ASSUME TInv, CacheInv, Consume \/ BatchInsertChat2Cache \/ Expire
    PROVE  Progress
<1>1. /\ TypeOK /\ maxSeq \in Nat /\ 1..maxSeq \subseteq AllSeq
      /\ consumer.pc # "idle" => consumer.seq \in 1..maxSeq
    BY SeqRange DEF TInv
<1>2. ASSUME UNCHANGED <<th, req>>, maxSeq' \in {maxSeq, maxSeq + 1}, lost \subseteq lost',
             stale \subseteq stale'
      PROVE  Grows
  <2>1. maxSeq <= maxSeq'
      BY <1>1, <1>2
  <2>2. \A v \in Thread : Begun(v) => Begun(v)'
      BY <1>2 DEF Begun
  <2> QED BY <1>2, <2>1, <2>2, GrowsStep
<1>3. CASE BatchInsertChat2Cache
  <2>1. /\ cache' = cache \union {maxSeq + 1} /\ maxSeq' = maxSeq + 1
        /\ UNCHANGED <<userDel, slot, lost, stale, req, th>>
      BY <1>3 DEF BatchInsertChat2Cache, delVars, mongoVars, envVars
  <2>2. CacheKept
      BY <1>1, <2>1 DEF CacheKept
  <2> QED BY <1>2, <2>1, <2>2, SlotSame, ListSame DEF Progress
<1>4. CASE Expire \/ MongoReceive \/ DelListMembers
  <2>1. UNCHANGED <<maxSeq, cache, userDel, slot, lost, stale, req, th>>
      BY <1>4 DEF Expire, MongoReceive, DelListMembers, seqVars, delVars, mongoVars, envVars
  <2> QED BY <1>2, <2>1, SlotSame, CacheSame, ListSame DEF Progress
<1>5. CASE MongoFail
  <2>1. UNCHANGED <<maxSeq, cache, userDel, slot, stale, req, th>> /\ lost \subseteq lost'
      BY <1>5 DEF MongoFail, seqVars, delVars, mongoVars
  <2> QED BY <1>2, <2>1, SlotSame, CacheSame, ListSame DEF Progress
<1>6. CASE MongoUpdate
  <2>1. /\ consumer.pc = "update" /\ UNCHANGED <<maxSeq, cache, userDel, docs, lost, stale, req, th>>
        /\ UNCHANGED slot \/ (DocOf(consumer.seq) \in docs /\ UpdateMsg(consumer.seq, "msg"))
      BY <1>6 DEF MongoUpdate, seqVars, delVars, envVars
  <2>2. SlotKept
    <3>1. CASE DocOf(consumer.seq) \in docs /\ UpdateMsg(consumer.seq, "msg")
        BY <1>1, <2>1, <3>1, UpdateStep, InsertKeeps
    <3> QED BY <2>1, <3>1, SlotSame
  <2> QED BY <1>2, <2>1, <2>2, CacheSame, ListSame DEF Progress
<1>7. CASE MongoCreate
  <2>1. /\ consumer.pc = "create" /\ UNCHANGED <<maxSeq, cache, userDel, lost, stale, req, th>>
        /\ UNCHANGED slot \/ (DocOf(consumer.seq) \notin docs /\ Create(consumer.seq, "msg"))
      BY <1>7 DEF MongoCreate, seqVars, delVars, mongoVars, envVars
  <2>2. SlotKept
    <3>1. CASE DocOf(consumer.seq) \notin docs /\ Create(consumer.seq, "msg")
        BY <1>1, <2>1, <3>1, CreateStep, InsertKeeps
    <3> QED BY <2>1, <3>1, SlotSame
  <2> QED BY <1>2, <2>1, <2>2, CacheSame, ListSame DEF Progress
<1>8. CASE DeleteMessagesFromCache
  <2>1. /\ consumer.pc = "evict" /\ stale \subseteq stale'
        /\ cache' = cache \ {consumer.seq} \/ cache' = cache
        /\ UNCHANGED <<maxSeq, userDel, slot, lost, req, th>>
      BY <1>8 DEF DeleteMessagesFromCache, seqVars, delVars, mongoVars
  <2>2. Held(consumer.seq) /\ consumer.seq \in AllSeq
      BY <1>1, <2>1 DEF CacheInv
  <2>3. Grows /\ SlotKept
      BY <1>2, <2>1, SlotSame
  <2>4. \A s \in AllSeq : Held(s) => Held(s)'
      BY <2>1, <2>3 DEF Grows, Held, Gone
  <2>5. CacheKept
      BY <1>1, <2>1, <2>2, <2>4 DEF CacheKept
  <2> QED BY <2>1, <2>3, <2>5, ListSame DEF Progress
<1>9. CASE DelUserDeleteMsgsList
  <2>1. /\ consumer.pc = "unlist"
        /\ userDel' = [u \in User |-> IF u \in consumer.users THEN userDel[u] \ {consumer.seq}
                                      ELSE userDel[u]]
        /\ UNCHANGED <<maxSeq, cache, slot, lost, stale, req, th>>
      BY <1>9 DEF DelUserDeleteMsgsList, seqVars, mongoVars, envVars
  <2>2. consumer.seq \notin cache \/ consumer.seq \in stale'
      BY <2>1 DEF CacheInv
  <2>3. ListKept
      BY <2>1, <2>2 DEF ListKept
  <2> QED BY <1>2, <2>1, <2>3, SlotSame, CacheSame DEF Progress
<1> QED BY <1>3, <1>4, <1>5, <1>6, <1>7, <1>8, <1>9 DEF Consume

\* A thread undoes nothing either, save a message it removes for everyone.
LEMMA ServeProgress ==
    ASSUME TInv, NEW t \in Thread, Serve(t)
    PROVE  Progress /\ Typed(t) /\ UNCHANGED <<maxSeq, queueVars, envVars>>
<1>1. CASE \/ DeleteRead(t) \/ RevokeRead(t) \/ RevokeFind(t) \/ ClearRead(t)
           \/ DestructFind(t) \/ DestructCompare(t) \/ SweepStart(t) \/ PullSeqs(t)
           \/ GetMessagesBySeq(t) \/ GetUserDelList(t) \/ GetMsgBySeqIndexIn1Doc(t)
  <2>1. Still /\ Typed(t)
      BY <1>1, ReadSteps
  <2>2. UNCHANGED <<maxSeq, queueVars, envVars>> /\ UNCHANGED <<slot, cache, userDel>>
      BY <2>1 DEF Still, seqVars, delVars, mongoVars
  <2> QED BY <2>1, <2>2, GrowsThread, SlotSame, CacheSame, ListSame DEF Progress
<1>2. CASE \/ UserDeleteMsgs(t) \/ UserDeleteMsgsListed(t) \/ PushUnique(t)
           \/ PhysicalCache(t) \/ PhysicalMongo(t) \/ RevokeUpdate(t) \/ RevokeCreate(t)
           \/ SetUserConversationsMinSeqs(t) \/ SetMinSeqs(t) \/ UserSetHasReadSeqs(t)
           \/ DestructSet(t) \/ DeleteMsgRecursion(t) \/ DeleteDocs(t)
           \/ CleanUpOneConversationAllMsg(t) \/ SetMinSeq(t)
  <2>1. Typed(t) /\ UNCHANGED <<maxSeq, queueVars, envVars>>
      BY <1>2, WriteTypes
  <2>2. Grows /\ Begun(t)' /\ UNCHANGED req
      BY <2>1, GrowsThread DEF Grows
  <2>3. /\ TypeOK /\ req[t].user \in User /\ req[t].seq \in AllSeq /\ 1..maxSeq \subseteq AllSeq
        /\ req[t] \in [op : Op, user : User, seq : AllSeq]
        /\ slot \in [AllSeq -> Element] /\ userDel \in [User -> SUBSET AllSeq]
      BY RequestType, SeqRange, TypeParts DEF TInv
  <2>4. /\ req[t].op \in {"cron", "wipe"} => \A s \in AllSeq : Wiped(s)'
        /\ req[t].op = "physical" => Wiped(req[t].seq)'
    <3>1. ASSUME NEW s, req[t].op \in {"cron", "wipe"} \/ (req[t].op = "physical" /\ req[t].seq = s)
          PROVE  Wiped(s)'
        BY <2>2, <3>1 DEF Wiped
    <3>2. ASSUME req[t].op = "physical" PROVE Wiped(req[t].seq)'
        BY <2>2, <3>2 DEF Wiped
    <3> QED BY <3>1, <3>2
  <2>5. req[t].op = "delete" /\ Begun(t) => DeletedBy(req[t].seq, req[t].user)
    <3>1. req[t].op = "delete" => req[t] = [op |-> "delete", seq |-> req[t].seq, user |-> req[t].user]
        BY <2>3
    <3> QED BY <3>1 DEF DeletedBy
  <2>6. CASE \/ UserDeleteMsgs(t) \/ SetUserConversationsMinSeqs(t) \/ SetMinSeqs(t)
             \/ UserSetHasReadSeqs(t) \/ DestructSet(t) \/ SetMinSeq(t)
    <3>1. UNCHANGED <<slot, cache, userDel>>
        BY <2>6 DEF UserDeleteMsgs, SetUserConversationsMinSeqs, SetMinSeqs, UserSetHasReadSeqs,
                    DestructSet, SetMinSeq, mongoVars, delVars
    <3> QED BY <2>1, <2>2, <3>1, SlotSame, CacheSame, ListSame DEF Progress
  <2>7. CASE UserDeleteMsgsListed(t)
    <3>1. /\ req[t].op = "delete" /\ Begun(t) /\ UNCHANGED <<slot, cache>>
          /\ userDel' = [userDel EXCEPT ![req[t].user] = @ \union {req[t].seq}]
        BY <2>7 DEF UserDeleteMsgsListed, At, Begun, mongoVars
    <3>2. ListKept
        BY <2>3, <2>5, <3>1 DEF ListKept
    <3> QED BY <2>1, <2>2, <3>1, <3>2, SlotSame, CacheSame DEF Progress
  <2>8. CASE PushUnique(t)
    <3> DEFINE s == req[t].seq
               e == [slot[s] EXCEPT !.list = TRUE, !.del = @ \union {req[t].user}]
    <3>1. /\ req[t].op = "delete" /\ Begun(t) /\ UNCHANGED <<userDel, cache>>
          /\ \/ slot' = [slot EXCEPT ![s].list = TRUE, ![s].del = @ \union {req[t].user}]
             \/ UNCHANGED slot
        BY <2>8 DEF PushUnique, At, Begun, delVars
    <3>2. UNCHANGED slot \/ slot' = [slot EXCEPT ![s] = e]
        BY <2>3, <3>1
    <3>3. /\ (slot[s].msg => e.msg) /\ (slot[s].revoke => e.revoke) /\ e.list
          /\ e.del = slot[s].del \union {req[t].user}
        BY <2>3 DEF Element
    <3>4. s \in AllSeq /\ DeletedBy(s, req[t].user)
        BY <2>3, <2>5, <3>1
    <3> HIDE DEF e, s
    <3>5. ASSUME slot' = [slot EXCEPT ![s] = e] PROVE SlotKept
      <4>1. slot'[s] = e /\ \A r \in AllSeq : r # s => slot'[r] = slot[r]
          BY <2>3, <3>4, <3>5
      <4> QED BY <3>3, <3>4, <4>1 DEF SlotKept
    <3> QED BY <2>1, <2>2, <3>1, <3>2, <3>5, SlotSame, CacheSame, ListSame DEF Progress
  <2>9. CASE PhysicalCache(t)
    <3>1. /\ req[t].op = "physical" /\ UNCHANGED <<userDel, slot>> /\ cache' = cache \ {req[t].seq}
        BY <2>9 DEF PhysicalCache, At, delVars, mongoVars
    <3>2. CacheKept
      <4>1. ASSUME NEW s \in 1..maxSeq, s \in cache, s \notin cache' PROVE Wiped(s)'
        <5>1. s = req[t].seq
            BY <3>1, <4>1
        <5> QED BY <2>2, <3>1, <5>1 DEF Wiped
      <4> QED BY <3>1, <4>1 DEF CacheKept, Held, Gone
    <3> QED BY <2>1, <2>2, <3>1, <3>2, SlotSame, ListSame DEF Progress
  <2>10. CASE PhysicalMongo(t)
    <3>1. /\ req[t].op = "physical" /\ UNCHANGED <<userDel, cache>>
          /\ UNCHANGED slot \/ slot' = [slot EXCEPT ![req[t].seq] = Removed]
        BY <2>10 DEF PhysicalMongo, At, delVars
    <3>2. SlotKept
      <4>1. ASSUME NEW s \in AllSeq, slot'[s] # slot[s] PROVE Wiped(s)' /\ slot'[s] = Removed
        <5>1. s = req[t].seq /\ slot'[s] = Removed
            BY <2>3, <3>1, <4>1
        <5> QED BY <2>2, <3>1, <5>1 DEF Wiped
      <4> QED BY <4>1, ElementType DEF SlotKept
    <3> QED BY <2>1, <2>2, <3>1, <3>2, CacheSame, ListSame DEF Progress
  <2>11. CASE RevokeUpdate(t)
    <3>1. /\ UNCHANGED <<userDel, cache, docs>>
          /\ \/ DocOf(req[t].seq) \in docs /\ UpdateMsg(req[t].seq, "revoke")
             \/ UNCHANGED slot
        BY <2>11 DEF RevokeUpdate, delVars
    <3>2. SlotKept
      <4>1. CASE DocOf(req[t].seq) \in docs /\ UpdateMsg(req[t].seq, "revoke")
          BY <2>3, <3>1, <4>1, UpdateStep, InsertKeeps
      <4> QED BY <3>1, <4>1, SlotSame
    <3> QED BY <2>1, <2>2, <3>1, <3>2, CacheSame, ListSame DEF Progress
  <2>12. CASE RevokeCreate(t)
    <3>1. /\ UNCHANGED <<userDel, cache>>
          /\ \/ DocOf(req[t].seq) \notin docs /\ Create(req[t].seq, "revoke")
             \/ UNCHANGED slot
        BY <2>12 DEF RevokeCreate, delVars, mongoVars
    <3>2. SlotKept
      <4>1. CASE DocOf(req[t].seq) \notin docs /\ Create(req[t].seq, "revoke")
          BY <2>3, <3>1, <4>1, CreateStep, InsertKeeps
      <4> QED BY <3>1, <4>1, SlotSame
    <3> QED BY <2>1, <2>2, <3>1, <3>2, CacheSame, ListSame DEF Progress
  <2>13. CASE DeleteMsgRecursion(t) \/ DeleteDocs(t)
    <3>1. /\ req[t].op \in {"cron", "wipe"} /\ UNCHANGED <<userDel, cache>>
          /\ \A s \in AllSeq : slot'[s] \in {slot[s], Removed, Empty}
      <4>1. CASE DeleteDocs(t)
          BY <4>1 DEF DeleteDocs, Sweeping, delVars
      <4>2. CASE DeleteMsgRecursion(t)
          BY <4>2 DEF DeleteMsgRecursion, Sweeping, delVars
      <4> QED BY <2>13, <4>1, <4>2
    <3>2. SlotKept
        BY <2>4, <3>1, ElementType DEF SlotKept
    <3> QED BY <2>1, <2>2, <3>1, <3>2, CacheSame, ListSame DEF Progress
  <2>14. CASE CleanUpOneConversationAllMsg(t)
    <3>1. req[t].op = "wipe" /\ cache' = {} /\ UNCHANGED <<userDel, slot>>
        BY <2>14 DEF CleanUpOneConversationAllMsg, At, delVars, mongoVars
    <3>2. CacheKept
        BY <2>3, <2>4, <3>1 DEF CacheKept, Held, Gone
    <3> QED BY <2>1, <2>2, <3>1, <3>2, SlotSame, ListSame DEF Progress
  <2> QED BY <1>2, <2>6, <2>7, <2>8, <2>9, <2>10, <2>11, <2>12, <2>13, <2>14
<1> QED BY <1>1, <1>2 DEF Serve

-----------------------------------------------------------------------------
(* The inductive invariant.                                                *)

\* What CacheInv says of the store, but not of the consumer, is kept by every step
\* that undoes nothing.
LEMMA StoreKept ==
    ASSUME TInv, CacheInv, Progress, TypeOK', maxSeq' # maxSeq => maxSeq' = maxSeq + 1 /\ maxSeq' \in cache'
    PROVE  /\ \A s \in 1..maxSeq' : s \in cache' \/ Held(s)'
           /\ \A s \in AllSeq : slot'[s].list \/ Wiped(s)'
           /\ \A s \in AllSeq, u \in User :
                 u \in slot'[s].del \/ s \in userDel'[u] => DeletedBy(s, u)'
<1>1. /\ maxSeq \in Nat /\ maxSeq' \in Nat /\ 1..maxSeq \subseteq AllSeq
    BY SeqRange DEF TInv, TypeOK
<1>2. \A s \in 1..maxSeq' : s \in cache' \/ Held(s)'
  <2> TAKE s \in 1..maxSeq'
  <2>1. CASE s \in 1..maxSeq
      BY <1>1, <2>1, HeldKept DEF CacheInv, Progress, CacheKept
  <2>2. CASE s \notin 1..maxSeq
      BY <1>1, <2>2
  <2> QED BY <2>1, <2>2
<1>3. \A s \in AllSeq : slot'[s].list \/ Wiped(s)'
    BY DEF CacheInv, Progress, SlotKept, Grows
<1>4. \A s \in AllSeq, u \in User :
         u \in slot'[s].del \/ s \in userDel'[u] => DeletedBy(s, u)'
    BY DEF CacheInv, Progress, SlotKept, ListKept, Grows
<1> QED BY <1>2, <1>3, <1>4

\* A step that leaves the consumer where it is.
LEMMA CacheKeptBesides ==
    ASSUME TInv, CacheInv, Progress, TypeOK', UNCHANGED consumer,
           maxSeq' # maxSeq => maxSeq' = maxSeq + 1 /\ maxSeq' \in cache'
    PROVE  CacheInv'
<1> DEFINE s == consumer.seq
<1>1. 1..maxSeq \subseteq AllSeq /\ (consumer.pc # "idle" => s \in 1..maxSeq)
    BY SeqRange DEF TInv
<1>2. ASSUME NEW r \in 1..maxSeq, r = s
      PROVE  /\ consumer.pc = "evict" => Held(r)'
             /\ consumer.pc \in {"members", "unlist"} => r \notin cache' \/ r \in stale'
    BY <1>1, <1>2, HeldKept DEF CacheInv, Progress, CacheKept, Grows
<1>3. /\ consumer'.pc = "evict" => Held(consumer.seq)'
      /\ consumer'.pc \in {"members", "unlist"} =>
            consumer'.seq \notin cache' \/ consumer'.seq \in stale'
  <2>1. CASE consumer.pc = "idle"
      BY <2>1
  <2>2. CASE consumer.pc # "idle"
    <3>1. PICK r \in 1..maxSeq : r = s
        BY <1>1, <2>2
    <3>2. (consumer.pc = "evict" => Held(r)') /\ r = consumer'.seq
        BY <1>2, <3>1
    <3>3. consumer.pc = "evict" => Held(consumer.seq)'
        BY <3>2 DEF Held, Gone, Wiped
    <3> QED BY <1>2, <3>1, <3>3
  <2> QED BY <2>1, <2>2
<1> QED BY <1>3, StoreKept DEF CacheInv

\* The consumer's steps, and those of the environment.
LEMMA ConsumeCache ==
    ASSUME TInv, CacheInv, Consume \/ BatchInsertChat2Cache \/ Expire
    PROVE  CacheInv'
<1>1. Progress /\ TypeOK' /\ TypeOK
    BY ConsumeProgress, ConsumeTypes DEF TInv
<1>2. /\ consumer.pc # "idle" => consumer.seq \in AllSeq
      /\ consumer \in [pc : {"idle", "update", "create", "evict", "members", "unlist"},
                       seq : 0..MaxMsg, users : SUBSET User]
    BY SeqRange DEF TInv, TypeOK
<1>3. CASE BatchInsertChat2Cache
    BY <1>1, <1>3, CacheKeptBesides DEF BatchInsertChat2Cache
<1>4. CASE Expire
    BY <1>1, <1>4, CacheKeptBesides DEF Expire, queueVars, seqVars
<1>5. CASE Consume
  <2>1. UNCHANGED maxSeq
      BY <1>5 DEF Consume, MongoReceive, MongoUpdate, MongoCreate, MongoFail,
                  DeleteMessagesFromCache, DelListMembers, DelUserDeleteMsgsList, seqVars
  <2>2. /\ consumer'.pc = "evict" => Held(consumer.seq)'
        /\ consumer'.pc \in {"members", "unlist"} =>
            consumer'.seq \notin cache' \/ consumer'.seq \in stale'
    <3>1. CASE MongoReceive \/ DelUserDeleteMsgsList
        BY <3>1 DEF MongoReceive, DelUserDeleteMsgsList
    <3>2. CASE MongoUpdate
      <4>1. /\ consumer.pc = "update" /\ UNCHANGED docs
            /\ \/ /\ DocOf(consumer.seq) \in docs /\ UpdateMsg(consumer.seq, "msg")
                  /\ ConsumerAt("evict")
               \/ ConsumerAt("create")
          BY <3>2 DEF MongoUpdate
      <4>2. DocOf(consumer.seq) \in docs /\ UpdateMsg(consumer.seq, "msg") => slot'[consumer.seq].msg
          BY <1>1, <1>2, <4>1, UpdateStep
      <4> QED BY <1>2, <4>1, <4>2 DEF ConsumerAt, Held
    <3>3. CASE MongoCreate
      <4>1. /\ consumer.pc = "create"
            /\ \/ /\ DocOf(consumer.seq) \notin docs /\ Create(consumer.seq, "msg")
                  /\ ConsumerAt("evict")
               \/ ConsumerAt("update")
          BY <3>3 DEF MongoCreate
      <4>2. DocOf(consumer.seq) \notin docs /\ Create(consumer.seq, "msg") => slot'[consumer.seq].msg
          BY <1>1, <1>2, <4>1, CreateStep
      <4> QED BY <1>2, <4>1, <4>2 DEF ConsumerAt, Held
    <3>4. CASE MongoFail
      <4>1. ConsumerAt("evict") /\ lost' = lost \union {consumer.seq}
          BY <3>4 DEF MongoFail
      <4> QED BY <1>2, <4>1 DEF ConsumerAt, Held, Gone
    <3>5. CASE DeleteMessagesFromCache
        BY <1>2, <3>5 DEF DeleteMessagesFromCache, ConsumerAt
    <3>6. CASE DelListMembers
      <4>1. /\ consumer.pc = "members" /\ consumer'.pc = "unlist" /\ UNCHANGED <<cache, stale>>
            /\ consumer'.seq = consumer.seq
          BY <1>2, <3>6 DEF DelListMembers, envVars
      <4> QED BY <4>1 DEF CacheInv
    <3> QED BY <1>5, <3>1, <3>2, <3>3, <3>4, <3>5, <3>6 DEF Consume
  <2> QED BY <1>1, <2>1, <2>2, StoreKept DEF CacheInv
<1> QED BY <1>3, <1>4, <1>5

\* A thread that does not move keeps what is said of it.
LEMMA OthersKept ==
    ASSUME TInv, CacheInv, Progress, NEW v \in Thread, th'[v] = th[v], maxSeq' \in Nat,
           DelInv(v), RevInv(v), PullInv(v)
    PROVE  DelInv(v)' /\ RevInv(v)' /\ PullInv(v)'
<1>1. /\ TypeOK /\ req[v].seq \in AllSeq /\ req[v].user \in User /\ th[v] \in ThreadState
      /\ maxSeq \in Nat /\ AllSeq \subseteq Nat /\ 1..maxSeq \subseteq AllSeq
    BY RequestType, SeqRange, TypeParts DEF TInv
<1>2. UNCHANGED req /\ maxSeq <= maxSeq'
    BY DEF Progress, Grows
<1> DEFINE s == req[v].seq
           u == req[v].user
<1>3. Wiped(s) => Wiped(req[v].seq)'
  <2>1. PICK r \in AllSeq : r = s
      BY <1>1
  <2>2. Wiped(r) => Wiped(r)'
      BY DEF Progress, Grows
  <2>3. Wiped(r)' => Wiped(req[v].seq)'
      BY <1>2, <2>1 DEF Wiped
  <2> QED BY <2>1, <2>2, <2>3
<1>4. DelInv(v)'
  <2> SUFFICES ASSUME req[v].op = "delete"
               PROVE  /\ Begun(v)' => s <= maxSeq'
                      /\ th[v].pc \in {"push", "done"} =>
                            s \notin cache' \/ s \in userDel'[u] \/ s \in stale' \/ s \in th[v].missed
                      /\ th[v].pc = "done" /\ th[v].pushed =>
                            u \in slot'[s].del \/ Wiped(req[v].seq)'
      BY <1>2 DEF DelInv
  <2>1. Begun(v)' => s <= maxSeq /\ s \in 1..maxSeq
      BY <1>1 DEF DelInv, Begun, AllSeq
  <2>2. Begun(v)' => s <= maxSeq'
      BY <1>1, <1>2, <2>1
  <2>3. th[v].pc \in {"push", "done"} =>
            s \notin cache' \/ s \in userDel'[u] \/ s \in stale' \/ s \in th[v].missed
      BY <1>1, <2>1 DEF DelInv, Progress, CacheKept, ListKept, Grows, Begun
  <2>4. th[v].pc = "done" /\ th[v].pushed => u \in slot'[s].del \/ Wiped(req[v].seq)'
      BY <1>1, <1>2, <1>3 DEF DelInv, Progress, SlotKept, Wiped
  <2> QED BY <2>2, <2>3, <2>4
<1>5. RevInv(v)'
    BY <1>1, <1>2, <1>3 DEF RevInv, Done, Progress, SlotKept, Wiped
<1>6. PullInv(v)'
  <2>1. \A r \in AllSeq : /\ Held(r) => Held(r)'
                          /\ Gone(r) => Gone(r)'
                          /\ DeletedBy(r, u) => DeletedBy(r, req[v].user)'
    <3>1. \A r \in AllSeq : DeletedBy(r, u) => DeletedBy(r, req[v].user)'
        BY <1>1, <1>2 DEF Progress, Grows, DeletedBy
    <3> QED BY <3>1, HeldKept
  <2>2. th[v].asked \subseteq AllSeq /\ th[v].want \subseteq AllSeq
      BY <1>1 DEF ThreadState
  <2>3. 1..maxSeq \subseteq 1..maxSeq'
      BY <1>1, <1>2
  <2> QED BY <1>2, <2>1, <2>2, <2>3 DEF PullInv, Begun
<1> QED BY <1>4, <1>5, <1>6

\* A delete's own steps.
LEMMA OwnDelete ==
    ASSUME TInv, NEW t \in Thread, DelInv(t),
           DeleteRead(t) \/ UserDeleteMsgs(t) \/ UserDeleteMsgsListed(t) \/ PushUnique(t)
    PROVE  DelInv(t)'
<1> DEFINE s == req[t].seq
           u == req[t].user
<1>1. /\ TypeOK /\ s \in AllSeq /\ u \in User /\ th \in [Thread -> ThreadState]
      /\ slot \in [AllSeq -> Element] /\ userDel \in [User -> SUBSET AllSeq]
    BY RequestType, TypeParts DEF TInv
<1>2. req[t].op = "delete" /\ UNCHANGED <<req, maxSeq>>
    BY DEF DeleteRead, UserDeleteMsgs, UserDeleteMsgsListed, PushUnique, At, envVars, seqVars
<1>3. s <= maxSeq
    BY <1>2 DEF DelInv, DeleteRead, UserDeleteMsgs, UserDeleteMsgsListed, PushUnique, At, Sent, Begun
<1>4. CASE DeleteRead(t)
  <2>1. /\ UNCHANGED <<cache, userDel>>
        /\ \E missed : th' = [th EXCEPT
                 ![t].pc = IF s \in cache \ missed THEN "list" ELSE "push", ![t].missed = missed]
      BY <1>4 DEF DeleteRead, delVars
  <2>2. (th'[t].pc = "list") \/ (th'[t].pc = "push" /\ (s \notin cache \/ s \in th'[t].missed))
    <3>1. PICK missed : th' = [th EXCEPT
             ![t].pc = IF s \in cache \ missed THEN "list" ELSE "push", ![t].missed = missed]
        BY <2>1
    <3> DEFINE pc == IF s \in cache \ missed THEN "list" ELSE "push"
    <3>2. pc = "list" \/ (pc = "push" /\ (s \notin cache \/ s \in missed))
        OBVIOUS
    <3>3. th' = [th EXCEPT ![t].pc = pc, ![t].missed = missed]
        BY <3>1
    <3> HIDE DEF pc
    <3>4. th'[t].pc = pc /\ th'[t].missed = missed
        BY <1>1, <3>3 DEF ThreadState
    <3> QED BY <3>2, <3>4
  <2> QED BY <1>2, <1>3, <2>1, <2>2 DEF DelInv
<1>5. CASE UserDeleteMsgs(t)
  <2>1. th'[t].pc = "listed"
      BY <1>1, <1>5, GotoStep DEF UserDeleteMsgs, Step
  <2> QED BY <1>2, <1>3, <2>1 DEF DelInv
<1>6. CASE UserDeleteMsgsListed(t)
  <2>1. th'[t].pc = "push" /\ userDel' = [userDel EXCEPT ![u] = @ \union {s}]
      BY <1>1, <1>6, GotoStep DEF UserDeleteMsgsListed, Step
  <2>2. s \in userDel'[u]
      BY <1>1, <2>1
  <2> QED BY <1>2, <1>3, <2>1, <2>2 DEF DelInv
<1>7. CASE PushUnique(t)
  <2>1. /\ th[t].pc = "push" /\ UNCHANGED <<cache, userDel, stale>>
        /\ th' = [th EXCEPT ![t].pc = "done", ![t].pushed = DocOf(s) \in docs]
        /\ DocOf(s) \in docs =>
              slot' = [slot EXCEPT ![s].list = TRUE, ![s].del = @ \union {u}]
      BY <1>7 DEF PushUnique, At, delVars, envVars
  <2>2. s \notin cache \/ s \in userDel[u] \/ s \in stale \/ s \in th[t].missed
      BY <1>2, <2>1 DEF DelInv
  <2>3. th'[t].pc = "done" /\ th'[t].missed = th[t].missed /\ (th'[t].pushed => DocOf(s) \in docs)
    <3> DEFINE matched == DocOf(s) \in docs
    <3>1. th' = [th EXCEPT ![t].pc = "done", ![t].pushed = matched]
        BY <2>1
    <3> HIDE DEF matched
    <3>2. th'[t].pc = "done" /\ th'[t].pushed = matched /\ th'[t].missed = th[t].missed
        BY <1>1, <3>1 DEF ThreadState
    <3> QED BY <3>2 DEF matched
  <2>4. DocOf(s) \in docs => u \in slot'[s].del
      BY <1>1, <2>1 DEF Element
  <2> QED BY <1>2, <1>3, <2>1, <2>2, <2>3, <2>4 DEF DelInv
<1> QED BY <1>4, <1>5, <1>6, <1>7

\* A revocation's own steps.
LEMMA OwnRevoke ==
    ASSUME TInv, NEW t \in Thread, RevokeRead(t) \/ RevokeFind(t) \/ RevokeUpdate(t) \/ RevokeCreate(t)
    PROVE  RevInv(t)'
<1> DEFINE s == req[t].seq
<1>1. TypeOK /\ s \in AllSeq
    BY RequestType DEF TInv
<1>2. CASE RevokeRead(t) \/ RevokeFind(t)
  <2>1. Goto(t, "refused") \/ Goto(t, "update") \/ Goto(t, "find")
      BY <1>2 DEF RevokeRead, RevokeFind
  <2>2. th'[t].pc # "done"
      BY <1>1, <2>1, GotoStep DEF Step
  <2> QED BY <2>2 DEF RevInv, Done
<1>3. CASE RevokeUpdate(t)
  <2>1. /\ UNCHANGED <<docs, req>>
        /\ \/ DocOf(s) \in docs /\ UpdateMsg(s, "revoke") /\ Goto(t, "done")
           \/ Goto(t, "create")
      BY <1>3 DEF RevokeUpdate, envVars
  <2>2. DocOf(s) \in docs /\ UpdateMsg(s, "revoke") => slot'[s].revoke
      BY <1>1, <2>1, UpdateStep
  <2>3. Goto(t, "create") => th'[t].pc # "done"
      BY <1>1, GotoStep DEF Step
  <2> QED BY <2>1, <2>2, <2>3 DEF RevInv, Done
<1>4. CASE RevokeCreate(t)
  <2>1. /\ UNCHANGED req
        /\ \/ DocOf(s) \notin docs /\ Create(s, "revoke") /\ Goto(t, "done")
           \/ Goto(t, "update")
      BY <1>4 DEF RevokeCreate, envVars
  <2>2. DocOf(s) \notin docs /\ Create(s, "revoke") => slot'[s].revoke
      BY <1>1, CreateStep
  <2>3. Goto(t, "update") => th'[t].pc # "done"
      BY <1>1, GotoStep DEF Step
  <2> QED BY <2>1, <2>2, <2>3 DEF RevInv, Done
<1> QED BY <1>2, <1>3, <1>4

\* A pull's own steps. It reads redis before Mongo, and a message that was not in redis
\* is in Mongo or has an excuse, then and later; a document that cannot be read was
\* deleted, or lost an element, or never got the message.
LEMMA OwnPull ==
    ASSUME TInv, CacheInv, NEW t \in Thread, PullInv(t), Progress,
           PullSeqs(t) \/ GetMessagesBySeq(t) \/ GetUserDelList(t) \/ GetMsgBySeqIndexIn1Doc(t)
    PROVE  PullInv(t)'
<1> DEFINE u == req[t].user
           Excused(s) == Gone(s) \/ s \in th[t].missed \/ DeletedBy(s, u)
<1>1. /\ TypeOK /\ u \in User /\ th \in [Thread -> ThreadState] /\ th[t] \in ThreadState
      /\ 1..maxSeq \subseteq AllSeq /\ slot \in [AllSeq -> Element]
      /\ \A s \in AllSeq : DocOf(s) \notin docs => slot[s] = Empty
    BY RequestType, SeqRange, TypeParts DEF TInv
<1>2. req[t].op = "pull" /\ UNCHANGED <<req, maxSeq, userDel>>
    BY DEF PullSeqs, GetMessagesBySeq, GetUserDelList, GetMsgBySeqIndexIn1Doc, At, envVars, seqVars,
           delVars
<1>3. \A s \in AllSeq : /\ Held(s) => Held(s)'
                        /\ Gone(s) => Gone(s)'
                        /\ DeletedBy(s, u) => DeletedBy(s, req[t].user)'
  <2>1. \A s \in AllSeq : DeletedBy(s, u) => DeletedBy(s, req[t].user)'
      BY <1>1, <1>2 DEF Progress, Grows, DeletedBy
  <2> QED BY <2>1, HeldKept
<1>4. CASE PullSeqs(t)
  <2> DEFINE S == RangeSeqs(u)
             pc == IF S = {} THEN "done" ELSE "cache"
  <2>1. th' = [th EXCEPT ![t].pc = pc, ![t].asked = S]
      BY <1>4 DEF PullSeqs
  <2>2. S \subseteq 1..maxSeq /\ pc \in {"done", "cache"} /\ (pc = "done" => S = {})
      BY DEF RangeSeqs
  <2> HIDE DEF S, pc
  <2>3. th'[t].pc = pc /\ th'[t].asked = S
      BY <1>1, <2>1 DEF ThreadState
  <2> QED BY <1>2, <2>2, <2>3 DEF PullInv
<1>5. CASE GetMessagesBySeq(t)
  <2>1. th[t].pc = "cache"
      BY <1>5 DEF GetMessagesBySeq, At
  <2>2. PICK missed :
          th' = [th EXCEPT ![t].pc = "list", ![t].missed = missed,
                           ![t].got = (th[t].asked \intersect cache) \ missed,
                           ![t].want = th[t].asked \ ((th[t].asked \intersect cache) \ missed)]
      BY <1>5 DEF GetMessagesBySeq
  <2> DEFINE found == (th[t].asked \intersect cache) \ missed
             want == th[t].asked \ found
  <2>3. /\ th'[t].pc = "list" /\ th'[t].asked = th[t].asked /\ th'[t].missed = missed
        /\ th'[t].want = want /\ th'[t].got = found
      BY <1>1, <2>2 DEF ThreadState
  <2>4. th[t].asked \subseteq 1..maxSeq
      BY <1>2, <2>1 DEF PullInv, Begun
  <2>5. \A s \in th'[t].want : Held(s)' \/ s \in th'[t].missed
    <3>1. \A s \in want : s \in 1..maxSeq /\ (s \notin cache \/ s \in missed)
        BY <2>4
    <3> QED BY <1>1, <1>3, <2>3, <3>1 DEF CacheInv
  <2>6. want \subseteq th[t].asked /\ th[t].asked \subseteq found \union want
      OBVIOUS
  <2> HIDE DEF found, want
  <2> QED BY <1>2, <2>3, <2>4, <2>5, <2>6 DEF PullInv
<1>6. CASE GetUserDelList(t)
  <2> DEFINE pc == IF th[t].want = {} THEN "done" ELSE "mongo"
  <2>1. /\ th' = [th EXCEPT ![t].pc = pc, ![t].got = @ \ userDel[u]]
        /\ th[t].pc = "list"
      BY <1>6 DEF GetUserDelList, At
  <2>2. pc \in {"done", "mongo"} /\ (pc = "done" => th[t].want = {})
      OBVIOUS
  <2> HIDE DEF pc
  <2>3. /\ th'[t].pc = pc /\ th'[t].asked = th[t].asked /\ th'[t].want = th[t].want
        /\ th'[t].got = th[t].got \ userDel[u] /\ th'[t].missed = th[t].missed
      BY <1>1, <2>1 DEF ThreadState
  <2>4. /\ th[t].asked \subseteq 1..maxSeq /\ th[t].want \subseteq th[t].asked
        /\ \A s \in th[t].want : Held(s) \/ s \in th[t].missed
        /\ th[t].asked \subseteq th[t].got \union th[t].want
      BY <1>2, <2>1 DEF PullInv, Begun
  <2>5. \A s \in th[t].asked \ (th'[t].got \union th[t].want) : DeletedBy(s, req[t].user)'
    <3>1. \A s \in th[t].asked \ (th'[t].got \union th[t].want) : s \in AllSeq /\ s \in userDel[u]
        BY <1>1, <2>3, <2>4
    <3>2. \A s \in AllSeq : s \in userDel[u] => DeletedBy(s, u)
        BY <1>1 DEF CacheInv
    <3> QED BY <1>3, <3>1, <3>2
  <2>6. \A s \in th'[t].want : Held(s)' \/ s \in th'[t].missed
      BY <1>1, <1>3, <2>3, <2>4
  <2> QED BY <1>2, <2>2, <2>3, <2>4, <2>5, <2>6 DEF PullInv
<1>7. CASE GetMsgBySeqIndexIn1Doc(t)
  <2>1. PICK d \in {DocOf(s) : s \in th[t].want} :
          th' = [th EXCEPT
             ![t].pc = CASE ReadFails(d, th[t].want) -> "refused"
                         [] ~ ReadFails(d, th[t].want)
                               /\ {s \in th[t].want : DocOf(s) # d} = {} -> "done"
                         [] OTHER -> "mongo",
             ![t].want = {s \in th[t].want : DocOf(s) # d},
             ![t].got = IF ReadFails(d, th[t].want) THEN {}
                        ELSE @ \union FoundIn(d, req[t].user, th[t].want)]
      BY <1>7 DEF GetMsgBySeqIndexIn1Doc
  <2> DEFINE rest == {s \in th[t].want : DocOf(s) # d}
             failed == ReadFails(d, th[t].want)
             found == FoundIn(d, u, th[t].want)
             pc == CASE failed -> "refused" [] ~ failed /\ rest = {} -> "done" [] OTHER -> "mongo"
             got == IF failed THEN {} ELSE th[t].got \union found
  <2>2. th' = [th EXCEPT ![t].pc = pc, ![t].want = rest, ![t].got = got]
      BY <1>1, <2>1 DEF ThreadState
  <2>3. /\ pc \in {"refused", "done", "mongo"} /\ (pc = "refused" => failed)
        /\ pc \in {"done", "mongo"} => ~ failed /\ got = th[t].got \union found
        /\ pc = "done" => rest = {}
      OBVIOUS
  <2>4. /\ th[t].asked \subseteq 1..maxSeq /\ th[t].want \subseteq th[t].asked
        /\ \A s \in th[t].want : Held(s) \/ s \in th[t].missed
        /\ \A s \in th[t].asked \ (th[t].got \union th[t].want) : Excused(s)
    <3>1. th[t].pc = "mongo"
        BY <1>7 DEF GetMsgBySeqIndexIn1Doc, At
    <3> QED BY <1>2, <3>1 DEF PullInv, Begun
  <2>5. th[t].want \subseteq AllSeq
      BY <1>1 DEF ThreadState
  \* what this document did not give the pull
  <2>6. \A s \in th[t].want : s \notin rest /\ s \notin found => Excused(s)
    <3> TAKE s \in th[t].want
    <3> HAVE s \notin rest /\ s \notin found
    <3>1. ~ slot[s].msg \/ u \in slot[s].del
        BY DEF FoundIn
    <3> QED BY <1>1, <2>4, <2>5, <3>1 DEF Held, CacheInv
  <2>7. failed => \E s \in th[t].want : Gone(s) \/ s \in th[t].missed
    <3>1. PICK s \in th[t].want : d = DocOf(s)
        OBVIOUS
    <3>2. CASE d \notin docs
        BY <1>1, <2>4, <2>5, <3>1, <3>2, ElementType DEF Held
    <3>3. CASE \E r \in th[t].want : DocOf(r) = d /\ ~ slot[r].list
        BY <2>5, <3>3 DEF CacheInv, Gone
    <3> QED BY <3>2, <3>3 DEF ReadFails
  <2> HIDE DEF failed, found, pc, got
  <2>8. /\ th'[t].pc = pc /\ th'[t].asked = th[t].asked /\ th'[t].want = rest /\ th'[t].got = got
        /\ th'[t].missed = th[t].missed
    <3> HIDE DEF rest
    <3> QED BY <1>1, <2>2 DEF ThreadState
  <2>9. rest \subseteq th[t].want
      OBVIOUS
  <2> HIDE DEF rest
  <2>10. pc = "refused" => \E s \in th[t].asked : Gone(s)' \/ s \in th[t].missed
      BY <1>3, <2>3, <2>4, <2>5, <2>7
  <2>11. pc \in {"done", "mongo"} => \A s \in th[t].asked \ (got \union rest) :
                                        Gone(s)' \/ s \in th[t].missed \/ DeletedBy(s, req[t].user)'
    <3> SUFFICES ASSUME pc \in {"done", "mongo"}, NEW s \in th[t].asked, s \notin got, s \notin rest
                 PROVE  Gone(s)' \/ s \in th[t].missed \/ DeletedBy(s, req[t].user)'
        OBVIOUS
    <3>1. s \notin th[t].got /\ s \notin found /\ s \in AllSeq
        BY <1>1, <2>3, <2>4
    <3>2. Excused(s)
        BY <2>4, <2>6, <3>1
    <3> QED BY <1>3, <3>1, <3>2
  <2>12. \A s \in rest : Held(s)' \/ s \in th[t].missed
      BY <1>3, <2>4, <2>5, <2>9
  <2> QED BY <1>2, <2>3, <2>4, <2>8, <2>9, <2>10, <2>11, <2>12 DEF PullInv
<1> QED BY <1>4, <1>5, <1>6, <1>7

\* Every step keeps the invariant.
LEMMA StoreNext == StoreInv /\ [Next]_vars => StoreInv'
<1> SUFFICES ASSUME StoreInv, [Next]_vars PROVE StoreInv'
    OBVIOUS
<1>1. /\ TInv /\ CacheInv /\ TInv' /\ TypeOK' /\ maxSeq' \in Nat
      /\ \A v \in Thread : DelInv(v) /\ RevInv(v) /\ PullInv(v)
  <2>1. TInv /\ TInv'
      BY TypeNext DEF StoreInv
  <2>2. TypeOK'
      BY <2>1 DEF TInv
  <2>3. maxSeq' \in 0..MaxMsg
      BY <2>2 DEF TypeOK
  <2>4. maxSeq' \in Nat
      BY <2>3, MsgStoreAssumption
  <2> QED BY <2>1, <2>2, <2>4 DEF StoreInv
<1>2. CASE UNCHANGED vars
  <2>1. UNCHANGED <<maxSeq, cache, userDel, slot, lost, stale, req, th, consumer>>
      BY <1>2 DEF vars, seqVars, delVars, mongoVars, queueVars, envVars
  <2>2. CacheInv' /\ \A v \in Thread : DelInv(v)' /\ RevInv(v)' /\ PullInv(v)'
      BY <1>1, <2>1 DEF CacheInv, DelInv, RevInv, PullInv, Held, Gone, Wiped, DeletedBy, Begun, Done
  <2> QED BY <1>1, <2>2 DEF StoreInv
<1>3. CASE Consume \/ BatchInsertChat2Cache \/ Expire
  <2>1. UNCHANGED th
      BY <1>3 DEF Consume, BatchInsertChat2Cache, Expire, MongoReceive, MongoUpdate, MongoCreate,
                  MongoFail, DeleteMessagesFromCache, DelListMembers, DelUserDeleteMsgsList
  <2>2. Progress /\ CacheInv'
      BY <1>1, <1>3, ConsumeProgress, ConsumeCache
  <2>3. \A v \in Thread : DelInv(v)' /\ RevInv(v)' /\ PullInv(v)'
      BY <1>1, <2>1, <2>2, OthersKept
  <2> QED BY <1>1, <2>2, <2>3 DEF StoreInv
<1>4. ASSUME NEW t \in Thread, Serve(t) PROVE StoreInv'
  <2>1. Progress /\ Moves(t) /\ UNCHANGED <<maxSeq, consumer, req>>
      BY <1>1, <1>4, ServeProgress DEF Typed, queueVars, envVars
  <2>2. CacheInv'
      BY <1>1, <2>1, CacheKeptBesides
  <2>3. \A v \in Thread : v # t => DelInv(v)' /\ RevInv(v)' /\ PullInv(v)'
      BY <1>1, <2>1, OthersKept DEF Moves
  <2>4. DelInv(t)' /\ RevInv(t)' /\ PullInv(t)'
    <3>1. CASE DeleteRead(t) \/ UserDeleteMsgs(t) \/ UserDeleteMsgsListed(t) \/ PushUnique(t)
      <4>1. req'[t].op = "delete"
          BY <2>1, <3>1 DEF DeleteRead, UserDeleteMsgs, UserDeleteMsgsListed, PushUnique, At
      <4> QED BY <1>1, <3>1, <4>1, OwnDelete DEF RevInv, Done, PullInv
    <3>2. CASE RevokeRead(t) \/ RevokeFind(t) \/ RevokeUpdate(t) \/ RevokeCreate(t)
      <4>1. req'[t].op = "revoke"
          BY <2>1, <3>2 DEF RevokeRead, RevokeFind, RevokeUpdate, RevokeCreate, At
      <4> QED BY <1>1, <3>2, <4>1, OwnRevoke DEF DelInv, PullInv
    <3>3. CASE PullSeqs(t) \/ GetMessagesBySeq(t) \/ GetUserDelList(t) \/ GetMsgBySeqIndexIn1Doc(t)
      <4>1. req'[t].op = "pull"
          BY <2>1, <3>3 DEF PullSeqs, GetMessagesBySeq, GetUserDelList, GetMsgBySeqIndexIn1Doc, At
      <4> QED BY <1>1, <2>1, <3>3, <4>1, OwnPull DEF DelInv, RevInv, Done
    <3>4. CASE \/ PhysicalCache(t) \/ PhysicalMongo(t)
               \/ ClearRead(t) \/ SetUserConversationsMinSeqs(t) \/ SetMinSeqs(t)
               \/ UserSetHasReadSeqs(t) \/ DestructFind(t) \/ DestructCompare(t) \/ DestructSet(t)
               \/ SweepStart(t) \/ DeleteMsgRecursion(t) \/ DeleteDocs(t)
               \/ CleanUpOneConversationAllMsg(t) \/ SetMinSeq(t)
      <4>1. req'[t].op \notin {"delete", "revoke", "pull"}
          BY <2>1, <3>4 DEF PhysicalCache, PhysicalMongo, ClearRead, SetUserConversationsMinSeqs,
                SetMinSeqs, UserSetHasReadSeqs, DestructFind, DestructCompare, DestructSet,
                SweepStart, DeleteMsgRecursion, DeleteDocs, CleanUpOneConversationAllMsg, SetMinSeq,
                At, Sweeping
      <4> QED BY <4>1 DEF DelInv, RevInv, Done, PullInv
    <3> QED BY <1>4, <3>1, <3>2, <3>3, <3>4 DEF Serve
  <2> QED BY <1>1, <2>2, <2>3, <2>4 DEF StoreInv
<1> QED BY <1>2, <1>3, <1>4 DEF Next

\* The invariant holds initially: nothing was sent and nobody has begun.
LEMMA StoreInit == Init => StoreInv
<1> SUFFICES ASSUME Init PROVE StoreInv
    OBVIOUS
<1>1. TInv
    BY TypeInit
<1>2. \A t \in Thread : th[t].pc = "idle"
    BY DEF Init, Idle
<1>3. CacheInv
  <2>1. /\ maxSeq = 0 /\ consumer.pc = "idle" /\ \A s \in AllSeq : slot[s] = Empty
        /\ \A u \in User : userDel[u] = {}
      BY DEF Init
  <2> QED BY <2>1, ElementType DEF CacheInv
<1>4. \A t \in Thread : DelInv(t) /\ RevInv(t) /\ PullInv(t)
    BY <1>2 DEF DelInv, RevInv, PullInv, Done, Begun
<1> QED BY <1>1, <1>3, <1>4 DEF StoreInv

-----------------------------------------------------------------------------
(* The theorems.                                                           *)

\* GetMsgBySeqsRange against handleChatWs2Mongo, for any number of readers, deletes,
\* sweeps and messages: a pull returns every message of the range it read, save those
\* its user or someone for everyone deleted, those Mongo refused and those whose copy
\* redis failed to return, and it fails only when a message of the range was removed,
\* refused or not returned.
THEOREM ReaderCompleteHolds == Spec => []ReaderComplete
<1>1. StoreInv => ReaderComplete
    BY DEF StoreInv, PullInv, ReaderComplete, Gone, DeletedBy
<1> QED BY <1>1, StoreInit, StoreNext, PTL DEF Spec

\* RevokeMsg against the Mongo consumer and every other writer of the document: an
\* acknowledged revocation stays with its message until the message is removed.
THEOREM RevokeSurvivesHolds == Spec => []RevokeSurvives
<1>1. StoreInv => RevokeSurvives
    BY DEF StoreInv, RevInv, RevokeSurvives
<1> QED BY <1>1, StoreInit, StoreNext, PTL DEF Spec

\* DeleteUserMsgsBySeqs against the Mongo consumer: once the document's del list has the
\* user, the message is hidden from that user at every later moment, while it moves from
\* redis to Mongo and the redis lists are taken down, even when calls fail: all that can
\* still show it is a copy in redis that the consumer failed to delete or the delete
\* itself failed to read.
THEOREM DeletedStaysHiddenHolds == Spec => []DeletedStaysHidden
<1>1. StoreInv => DeletedStaysHidden
  <2> SUFFICES ASSUME StoreInv, NEW t \in Thread, Done(t, "delete"), th[t].pushed,
                      ~ Wiped(req[t].seq), req[t].seq \in Visible(req[t].user)
               PROVE  /\ req[t].seq \in cache
                      /\ req[t].seq \in stale \/ req[t].seq \in th[t].missed
      BY DEF DeletedStaysHidden
  <2> DEFINE s == req[t].seq
             u == req[t].user
  <2>1. /\ s \notin cache \/ s \in userDel[u] \/ s \in stale \/ s \in th[t].missed
        /\ u \in slot[s].del
      BY DEF StoreInv, DelInv, Done
  <2>2. \A d, S : s \notin FoundIn(d, u, S)
      BY <2>1 DEF FoundIn
  <2> QED BY <2>1, <2>2 DEF Visible
<1> QED BY <1>1, StoreInit, StoreNext, PTL DEF Spec

-----------------------------------------------------------------------------
(* The retention time.                                                     *)

\* Someone set out to remove seq s, not because of its age.
Removing(s) ==
    \E t \in Thread : Begun(t) /\ (req[t].op = "wipe" \/ (req[t].op = "physical" /\ req[t].seq = s))

\* Seq s need not be in redis: it is old, in Mongo, refused by Mongo or removed.
Safe(s) == s <= expired \/ slot[s].msg \/ s \in lost \/ Removing(s)

MinOK ==
    minSeq <= expired + 1 \/ \E t \in Thread : Begun(t) /\ req[t].op \in {"clearAll", "wipe"}
UserMinOK(u) ==
    userMin[u] <= expired + 1 \/ \E t \in Thread : Begun(t) /\ req[t].op = "clear" /\ req[t].user = u

\* What a sweep put on its list of documents and where it, or a destruct, will set the
\* min seq: nothing younger than the retention time.
SweepInv(t) ==
    /\ req[t].op = "cron" =>
          th[t].upto <= expired /\ \A d \in th[t].full : LastOf(d) <= expired
    /\ req[t].op = "destruct" => th[t].upto <= expired + 1

RetInv ==
    /\ \A s \in 1..maxSeq : s \in cache \/ Safe(s)
    /\ \A s \in AllSeq : consumer.pc = "evict" /\ consumer.seq = s => Safe(s)
    /\ MinOK
    /\ \A u \in User : UserMinOK(u)
    /\ \A t \in Thread : SweepInv(t)

\* No message of a document comes after its last one.
LEMMA DocLast ==
    ASSUME NEW s \in AllSeq
    PROVE  s <= LastOf(DocOf(s))
<1>1. s \in Nat \ {0} /\ DocNum \in Nat \ {0}
    BY MsgStoreAssumption DEF AllSeq
<1> QED BY <1>1 DEF DocOf, LastOf

\* What is within a bound is within a later one.
LEMMA LaterBound ==
    ASSUME NEW a \in Nat, NEW b \in Nat, NEW c \in Nat, b <= c
    PROVE  a <= b + 1 => a <= c + 1
OBVIOUS

\* Time goes on, and who has begun or was lost remains so.
RetGrows ==
    /\ UNCHANGED req /\ expired <= expired' /\ lost \subseteq lost'
    /\ \A v \in Thread : Begun(v) => Begun(v)'

\* Every step is one of these.
LEMMA RetGrowsStep ==
    ASSUME TInv, Next
    PROVE  RetGrows
<1>1. expired \in Nat
    BY SeqRange DEF TInv
<1>2. CASE Consume \/ BatchInsertChat2Cache \/ Expire
  <2>1. /\ UNCHANGED <<req, th>> /\ lost \subseteq lost' /\ expired' \in {expired, expired + 1}
      BY <1>2 DEF Consume, BatchInsertChat2Cache, Expire, MongoReceive, MongoUpdate, MongoCreate,
                  MongoFail, DeleteMessagesFromCache, DelListMembers, DelUserDeleteMsgsList, envVars
  <2>2. expired <= expired'
      BY <1>1, <2>1
  <2> QED BY <2>1, <2>2 DEF RetGrows, Begun
<1>3. ASSUME NEW t \in Thread, Serve(t) PROVE RetGrows
  <2>1. Typed(t) /\ UNCHANGED <<req, lost, expired>>
      BY <1>3, ServeProgress DEF envVars
  <2>2. expired <= expired'
      BY <1>1, <2>1
  <2> QED BY <2>1, <2>2 DEF RetGrows, Typed, Moves, Begun
<1> QED BY <1>2, <1>3 DEF Next

\* Every step keeps it.
LEMMA RetNext ==
    ASSUME TInv, TInv', RetInv, [Next]_vars
    PROVE  RetInv'
<1>1. CASE UNCHANGED vars
  <2>1. UNCHANGED <<maxSeq, minSeq, userMin, cache, slot, consumer, expired, lost, req, th>>
      BY <1>1 DEF vars, seqVars, mongoVars, queueVars, envVars
  <2> QED BY <2>1 DEF RetInv, Safe, Removing, MinOK, UserMinOK, SweepInv, Begun
<1>2. CASE Next
  <2>1. RetGrows
      BY <1>2, RetGrowsStep
  <2>2. /\ TypeOK /\ maxSeq \in Nat /\ expired \in Nat /\ MaxMsg \in Nat /\ AllSeq \subseteq Nat
        /\ 1..maxSeq \subseteq AllSeq /\ minSeq \in Nat /\ slot \in [AllSeq -> Element]
        /\ \A u \in User : userMin[u] \in Nat
        /\ th \in [Thread -> ThreadState] /\ \A v \in Thread : th[v].upto \in Nat
    <3>1. TypeOK
        BY DEF TInv
    <3>2. /\ th \in [Thread -> ThreadState] /\ minSeq \in 0..(MaxMsg + 1)
          /\ userMin \in [User -> 0..(MaxMsg + 1)] /\ slot \in [AllSeq -> Element]
        BY <3>1, TypeParts
    <3>3. \A v \in Thread : th[v].upto \in 0..(MaxMsg + 1)
        BY <3>2 DEF ThreadState
    <3> QED BY <3>1, <3>2, <3>3, SeqRange
  <2>3. expired' \in Nat /\ maxSeq' \in Nat /\ expired <= expired'
    <3>1. TypeOK'
        BY DEF TInv
    <3>2. maxSeq' \in 0..MaxMsg /\ expired' \in 0..maxSeq'
        BY <3>1 DEF TypeOK
    <3> QED BY <2>1, <2>2, <3>2 DEF RetGrows
  <2>4. \A s \in AllSeq : Removing(s) => Removing(s)'
      BY <2>1 DEF RetGrows, Removing
  <2>5. ASSUME NEW s \in AllSeq, Safe(s),
               slot[s].msg => slot'[s].msg \/ s <= expired' \/ Removing(s)'
        PROVE  Safe(s)'
    <3>1. s <= expired => s <= expired'
        BY <2>2, <2>3
    <3> QED BY <2>1, <2>4, <2>5, <3>1 DEF Safe, RetGrows
  <2>6. ASSUME UNCHANGED minSeq PROVE MinOK'
    <3>1. minSeq' = minSeq
        BY <2>6
    <3>2. minSeq \in Nat /\ expired \in Nat
        BY <2>2
    <3>3. expired' \in Nat /\ expired <= expired'
        BY <2>3
    <3>4. minSeq <= expired + 1 => minSeq <= expired' + 1
        BY <3>2, <3>3, LaterBound
    <3> QED BY <2>1, <3>1, <3>4 DEF RetInv, MinOK, RetGrows
  <2>7. ASSUME NEW u \in User, userMin'[u] = userMin[u] PROVE UserMinOK(u)'
    <3>1. userMin[u] <= expired + 1 => userMin'[u] <= expired' + 1
        BY <2>2, <2>3, <2>7
    <3> QED BY <2>1, <3>1 DEF RetInv, UserMinOK, RetGrows
  <2>8. ASSUME NEW v \in Thread, th'[v] = th[v] PROVE SweepInv(v)'
    <3>1. /\ req[v].op = "cron" =>
                th[v].upto <= expired /\ \A d \in th[v].full : LastOf(d) <= expired
          /\ req[v].op = "destruct" => th[v].upto <= expired + 1
        BY DEF RetInv, SweepInv
    <3>2. th[v].upto <= expired => th[v].upto <= expired'
        BY <2>2, <2>3
    <3>3. th[v].upto <= expired + 1 => th[v].upto <= expired' + 1
        BY <2>2, <2>3
    <3>4. \A d \in th[v].full : LastOf(d) <= expired => LastOf(d) <= expired'
      <4>1. \A d \in th[v].full : LastOf(d) \in Int
        <5>1. \A d \in Docs : d \in Int
            BY <2>2, MsgStoreAssumption DEF Docs, DocOf
        <5>2. th[v].full \subseteq Docs
            BY <2>2 DEF ThreadState
        <5> QED BY <5>1, <5>2, MsgStoreAssumption DEF LastOf
      <4> QED BY <2>2, <2>3, <4>1
    <3> QED BY <2>1, <2>8, <3>1, <3>2, <3>3, <3>4 DEF SweepInv, RetGrows
  \* what is left is to show that redis and Mongo keep what is young
  <2>9. ASSUME \A s \in AllSeq : slot[s].msg => slot'[s].msg \/ s <= expired' \/ Removing(s)',
               \A s \in 1..maxSeq : s \in cache => s \in cache' \/ Safe(s) \/ Removing(s)',
               maxSeq' # maxSeq => maxSeq' = maxSeq + 1 /\ maxSeq' \in cache',
               \A s \in AllSeq : consumer'.pc = "evict" /\ consumer'.seq = s =>
                    Safe(s)' \/ (consumer.pc = "evict" /\ consumer.seq = s)
        PROVE  /\ \A s \in 1..maxSeq' : s \in cache' \/ Safe(s)'
               /\ \A s \in AllSeq : consumer'.pc = "evict" /\ consumer'.seq = s => Safe(s)'
    <3>1. \A s \in AllSeq : Safe(s) => Safe(s)'
        BY <2>5, <2>9
    <3>2. \A s \in AllSeq : consumer'.pc = "evict" /\ consumer'.seq = s => Safe(s)'
        BY <2>9, <3>1 DEF RetInv
    <3>3. ASSUME NEW s \in 1..maxSeq' PROVE s \in cache' \/ Safe(s)'
      <4>1. CASE s \in 1..maxSeq
          BY <2>2, <2>9, <3>1, <4>1 DEF RetInv, Safe
      <4>2. CASE s \notin 1..maxSeq
          BY <2>2, <2>3, <2>9, <4>2
      <4> QED BY <4>1, <4>2
    <3> QED BY <3>2, <3>3
  <2>10. CASE Consume \/ BatchInsertChat2Cache \/ Expire
    <3>1. UNCHANGED <<minSeq, userMin, th>>
        BY <2>10 DEF Consume, BatchInsertChat2Cache, Expire, MongoReceive, MongoUpdate, MongoCreate,
                  MongoFail, DeleteMessagesFromCache, DelListMembers, DelUserDeleteMsgsList, seqVars
    <3>2. /\ consumer.pc # "idle" => consumer.seq \in AllSeq
          /\ consumer \in [pc : {"idle", "update", "create", "evict", "members", "unlist"},
                           seq : 0..MaxMsg, users : SUBSET User]
        BY <2>2 DEF TInv, TypeOK
    <3>3. /\ \A s \in 1..maxSeq' : s \in cache' \/ Safe(s)'
          /\ \A s \in AllSeq : consumer'.pc = "evict" /\ consumer'.seq = s => Safe(s)'
      <4>1. CASE BatchInsertChat2Cache
          BY <2>9, <4>1 DEF BatchInsertChat2Cache, mongoVars
      <4>2. CASE Expire
          BY <2>9, <4>2 DEF Expire, seqVars, mongoVars, queueVars
      <4>3. CASE MongoReceive \/ DelUserDeleteMsgsList
          BY <2>9, <4>3 DEF MongoReceive, DelUserDeleteMsgsList, seqVars, mongoVars
      <4>4. CASE MongoUpdate
        <5>1. /\ consumer.pc = "update" /\ UNCHANGED <<docs, maxSeq, cache>>
              /\ \/ /\ DocOf(consumer.seq) \in docs /\ UpdateMsg(consumer.seq, "msg")
                    /\ ConsumerAt("evict")
                 \/ UNCHANGED slot /\ ConsumerAt("create")
            BY <4>4 DEF MongoUpdate, seqVars
        <5>2. CASE DocOf(consumer.seq) \in docs /\ UpdateMsg(consumer.seq, "msg") /\ ConsumerAt("evict")
          <6>1. slot'[consumer.seq].msg /\ \A s \in AllSeq : slot[s].msg => slot'[s].msg
              BY <2>2, <3>2, <5>1, <5>2, UpdateStep
          <6>2. consumer'.seq = consumer.seq
              BY <3>2, <5>2 DEF ConsumerAt
          <6>3. \A s \in AllSeq : consumer'.seq = s => Safe(s)'
              BY <6>1, <6>2 DEF Safe
          <6> QED BY <2>9, <5>1, <6>1, <6>3
        <5>3. CASE UNCHANGED slot /\ ConsumerAt("create")
          <6>1. consumer'.pc # "evict"
              BY <3>2, <5>3 DEF ConsumerAt
          <6> QED BY <2>9, <5>1, <5>3, <6>1
        <5> QED BY <5>1, <5>2, <5>3
      <4>5. CASE MongoCreate
        <5>1. /\ consumer.pc = "create" /\ UNCHANGED <<maxSeq, cache>>
              /\ \/ /\ DocOf(consumer.seq) \notin docs /\ Create(consumer.seq, "msg")
                    /\ ConsumerAt("evict")
                 \/ UNCHANGED slot /\ ConsumerAt("update")
            BY <4>5 DEF MongoCreate, seqVars, mongoVars
        <5>2. CASE DocOf(consumer.seq) \notin docs /\ Create(consumer.seq, "msg") /\ ConsumerAt("evict")
          <6>1. slot'[consumer.seq].msg /\ \A s \in AllSeq : slot[s].msg => slot'[s].msg
              BY <2>2, <3>2, <5>1, <5>2, CreateStep
          <6>2. consumer'.seq = consumer.seq
              BY <3>2, <5>2 DEF ConsumerAt
          <6>3. \A s \in AllSeq : consumer'.seq = s => Safe(s)'
              BY <6>1, <6>2 DEF Safe
          <6> QED BY <2>9, <5>1, <6>1, <6>3
        <5>3. CASE UNCHANGED slot /\ ConsumerAt("update")
          <6>1. consumer'.pc # "evict"
              BY <3>2, <5>3 DEF ConsumerAt
          <6> QED BY <2>9, <5>1, <5>3, <6>1
        <5> QED BY <5>1, <5>2, <5>3
      <4>6. CASE MongoFail
        <5>1. ConsumerAt("evict") /\ lost' = lost \union {consumer.seq} /\ UNCHANGED <<maxSeq, cache, slot>>
            BY <4>6 DEF MongoFail, seqVars, mongoVars
        <5>2. \A s \in AllSeq : consumer'.seq = s => Safe(s)'
            BY <3>2, <5>1 DEF ConsumerAt, Safe
        <5> QED BY <2>9, <5>1, <5>2
      <4>7. CASE DeleteMessagesFromCache
        <5>1. /\ consumer.pc = "evict" /\ ConsumerAt("members") /\ UNCHANGED <<maxSeq, slot>>
              /\ cache' = cache \ {consumer.seq} \/ cache' = cache
            BY <4>7 DEF DeleteMessagesFromCache, seqVars, mongoVars
        <5>2. \A s \in 1..maxSeq : s \in cache => s \in cache' \/ Safe(s)
            BY <2>2, <5>1 DEF RetInv
        <5>3. consumer'.pc # "evict"
            BY <3>2, <5>1 DEF ConsumerAt
        <5> QED BY <2>9, <5>1, <5>2, <5>3
      <4>8. CASE DelListMembers
        <5>1. /\ consumer' = [consumer EXCEPT !.users = seqDel[consumer.seq], !.pc = "unlist"]
              /\ UNCHANGED <<maxSeq, cache, slot>>
            BY <4>8 DEF DelListMembers, seqVars, mongoVars
        <5>2. consumer'.pc # "evict"
            BY <3>2, <5>1
        <5> QED BY <2>9, <5>1, <5>2
      <4> QED BY <2>10, <4>1, <4>2, <4>3, <4>4, <4>5, <4>6, <4>7, <4>8 DEF Consume
    <3> QED BY <2>6, <2>7, <2>8, <3>1, <3>3 DEF RetInv
  <2>11. ASSUME NEW t \in Thread, Serve(t) PROVE RetInv'
    <3>1. /\ Typed(t) /\ UNCHANGED <<maxSeq, consumer, req, expired>>
        BY <2>11, ServeProgress DEF queueVars, envVars
    <3>2. /\ req[t].user \in User /\ req[t].seq \in AllSeq /\ Begun(t)'
          /\ \A v \in Thread : v # t => SweepInv(v)'
        BY <2>2, <2>8, <3>1, RequestType DEF Typed, Moves, Begun
    \* nobody else moves, so four things are left to show
    <3>3. ASSUME \A s \in AllSeq : slot[s].msg => slot'[s].msg \/ s <= expired' \/ Removing(s)',
                 \A s \in 1..maxSeq : s \in cache => s \in cache' \/ Removing(s)',
                 MinOK', \A u \in User : UserMinOK(u)', SweepInv(t)'
          PROVE  RetInv'
      <4>1. /\ \A s \in 1..maxSeq' : s \in cache' \/ Safe(s)'
            /\ \A s \in AllSeq : consumer'.pc = "evict" /\ consumer'.seq = s => Safe(s)'
          BY <2>9, <3>1, <3>3
      <4> QED BY <3>2, <3>3, <4>1 DEF RetInv
    <3>4. ASSUME NEW s, req[t].op = "wipe" \/ (req[t].op = "physical" /\ req[t].seq = s)
          PROVE  Removing(s)'
        BY <3>1, <3>2, <3>4 DEF Removing
    \* a thread that only goes on to another step
    <3>5. ASSUME NEW pc \in Step, Goto(t, pc) PROVE SweepInv(t)'
      <4>1. th' = [th EXCEPT ![t].pc = pc]
          BY <3>5 DEF Goto
      <4>2. th'[t].upto = th[t].upto /\ th'[t].full = th[t].full
          BY <2>2, <4>1 DEF ThreadState
      <4> QED BY <3>1, <4>2 DEF RetInv, SweepInv
    \* and one that is no sweep
    <3>6. ASSUME req[t].op \notin {"cron", "destruct"} PROVE SweepInv(t)'
        BY <3>1, <3>6 DEF SweepInv
    <3>7. CASE \/ DeleteRead(t) \/ RevokeRead(t) \/ RevokeFind(t) \/ ClearRead(t) \/ PullSeqs(t)
               \/ GetMessagesBySeq(t) \/ GetUserDelList(t) \/ GetMsgBySeqIndexIn1Doc(t)
               \/ UserDeleteMsgs(t) \/ UserDeleteMsgsListed(t)
      <4>1. UNCHANGED <<minSeq, userMin, slot, cache>> /\ req[t].op \notin {"cron", "destruct"}
          BY <3>7 DEF DeleteRead, RevokeRead, RevokeFind, ClearRead, PullSeqs, GetMessagesBySeq,
                GetUserDelList, GetMsgBySeqIndexIn1Doc, UserDeleteMsgs, UserDeleteMsgsListed, At,
                seqVars, mongoVars
      <4> QED BY <2>6, <2>7, <3>3, <3>6, <4>1
    <3>8. CASE PushUnique(t)
      <4>1. /\ UNCHANGED <<minSeq, userMin, cache>> /\ req[t].op = "delete"
            /\ \/ UNCHANGED slot
               \/ slot' = [slot EXCEPT ![req[t].seq].list = TRUE,
                                       ![req[t].seq].del = @ \union {req[t].user}]
          BY <3>8 DEF PushUnique, At, seqVars
      <4>2. \A s \in AllSeq : slot'[s].msg = slot[s].msg
          BY <2>2, <3>2, <4>1 DEF Element
      <4> QED BY <2>6, <2>7, <3>3, <3>6, <4>1, <4>2
    <3>9. CASE PhysicalCache(t) \/ PhysicalMongo(t)
      <4>1. /\ UNCHANGED <<minSeq, userMin>> /\ req[t].op = "physical"
            /\ cache' = cache \/ cache' = cache \ {req[t].seq}
            /\ slot' = slot \/ slot' = [slot EXCEPT ![req[t].seq] = Removed]
          BY <3>9 DEF PhysicalCache, PhysicalMongo, At, seqVars, mongoVars
      <4>2. \A s \in AllSeq : slot[s].msg => slot'[s].msg \/ Removing(s)'
          BY <2>2, <3>2, <3>4, <4>1
      <4>3. \A s \in 1..maxSeq : s \in cache => s \in cache' \/ Removing(s)'
          BY <3>4, <4>1
      <4> QED BY <2>6, <2>7, <3>3, <3>6, <4>1, <4>2, <4>3
    <3>10. CASE RevokeUpdate(t) \/ RevokeCreate(t)
      <4>1. /\ UNCHANGED <<minSeq, userMin, cache>> /\ req[t].op = "revoke"
            /\ \/ UNCHANGED slot
               \/ DocOf(req[t].seq) \in docs /\ UpdateMsg(req[t].seq, "revoke") /\ UNCHANGED docs
               \/ DocOf(req[t].seq) \notin docs /\ Create(req[t].seq, "revoke")
          BY <3>10 DEF RevokeUpdate, RevokeCreate, At, seqVars, mongoVars
      <4>2. \A s \in AllSeq : slot[s].msg => slot'[s].msg
        <5>1. CASE DocOf(req[t].seq) \in docs /\ UpdateMsg(req[t].seq, "revoke") /\ UNCHANGED docs
            BY <2>2, <3>2, <5>1, UpdateStep
        <5>2. CASE DocOf(req[t].seq) \notin docs /\ Create(req[t].seq, "revoke")
            BY <2>2, <3>2, <5>2, CreateStep
        <5> QED BY <4>1, <5>1, <5>2
      <4> QED BY <2>6, <2>7, <3>3, <3>6, <4>1, <4>2
    <3>11. CASE SetUserConversationsMinSeqs(t)
      <4>1. /\ UNCHANGED <<minSeq, slot, cache>> /\ req[t].op = "clear"
            /\ userMin' = [userMin EXCEPT ![req[t].user] = th[t].upto + 1]
          BY <3>11 DEF SetUserConversationsMinSeqs, At, mongoVars
      <4>2. userMin \in [User -> 0..(MaxMsg + 1)]
          BY <2>2, TypeParts
      <4>3. \A u \in User : UserMinOK(u)'
        <5> TAKE u \in User
        <5>1. CASE u = req[t].user
            BY <3>1, <3>2, <4>1, <5>1 DEF UserMinOK
        <5>2. CASE u # req[t].user
            BY <2>7, <4>1, <4>2, <5>2
        <5> QED BY <5>1, <5>2
      <4> QED BY <2>6, <3>3, <3>6, <4>1, <4>3
    <3>12. CASE SetMinSeqs(t)
      <4>1. UNCHANGED <<userMin, slot, cache>> /\ req[t].op = "clearAll"
          BY <3>12 DEF SetMinSeqs, At, mongoVars
      <4>2. MinOK'
          BY <3>1, <3>2, <4>1 DEF MinOK
      <4> QED BY <2>7, <3>3, <3>6, <4>1, <4>2
    <3>13. CASE UserSetHasReadSeqs(t)
      <4>1. UNCHANGED <<minSeq, userMin, slot, cache>> /\ req[t].op \notin {"cron", "destruct"}
          BY <3>13 DEF UserSetHasReadSeqs, mongoVars
      <4> QED BY <2>6, <2>7, <3>3, <3>6, <4>1
    <3>14. CASE DestructFind(t)
      <4> DEFINE u == req[t].user
                 seqs == {s \in 1..expired : /\ \A r \in 1..s : DocOf(r) \in docs => slot[r].msg
                                             /\ DocOf(s) \in docs
                                             /\ u \notin slot[s].del}
                 upto == IF seqs = {} THEN 0 ELSE Max(seqs) + 1
                 pc == IF seqs = {} THEN "done" ELSE "compare"
      <4>1. /\ UNCHANGED <<minSeq, userMin, slot, cache>> /\ req[t].op = "destruct"
            /\ th' = [th EXCEPT ![t].upto = upto, ![t].pc = pc]
          BY <3>14 DEF DestructFind, At, seqVars, mongoVars
      <4>2. upto <= expired + 1
        <5>1. seqs \subseteq Nat /\ \A y \in seqs : y <= expired
            BY <2>2
        <5> HIDE DEF seqs
        <5>2. CASE seqs # {}
          <6>1. Max(seqs) \in seqs
              BY <2>2, <5>1, <5>2, MaxInSet
          <6>2. Max(seqs) \in Nat /\ Max(seqs) <= expired
              BY <5>1, <6>1
          <6> QED BY <2>2, <5>2, <6>2
        <5> QED BY <2>2, <5>2
      <4> HIDE DEF upto, pc
      <4>3. th'[t].upto = upto
          BY <2>2, <4>1 DEF ThreadState
      <4>4. SweepInv(t)'
          BY <3>1, <4>1, <4>2, <4>3 DEF SweepInv
      <4> QED BY <2>6, <2>7, <3>3, <4>1, <4>4
    <3>15. CASE DestructCompare(t)
      <4>1. UNCHANGED <<minSeq, userMin, slot, cache>> /\ (Goto(t, "set") \/ Goto(t, "done"))
          BY <3>15 DEF DestructCompare, seqVars, mongoVars
      <4>2. SweepInv(t)'
          BY <3>5, <4>1 DEF Step
      <4> QED BY <2>6, <2>7, <3>3, <4>1, <4>2
    <3>16. CASE DestructSet(t)
      <4>1. /\ UNCHANGED <<minSeq, slot, cache>> /\ req[t].op = "destruct" /\ Goto(t, "done")
            /\ userMin' = [userMin EXCEPT ![req[t].user] = th[t].upto]
          BY <3>16 DEF DestructSet, At, mongoVars
      <4>2. userMin \in [User -> 0..(MaxMsg + 1)]
          BY <2>2, TypeParts
      <4>3. th[t].upto <= expired + 1
          BY <4>1 DEF RetInv, SweepInv
      <4>4. \A u \in User : UserMinOK(u)'
        <5> TAKE u \in User
        <5>1. CASE u = req[t].user
            BY <3>1, <4>1, <4>2, <4>3, <5>1 DEF UserMinOK
        <5>2. CASE u # req[t].user
            BY <2>7, <4>1, <4>2, <5>2
        <5> QED BY <5>1, <5>2
      <4>5. SweepInv(t)'
          BY <3>5, <4>1 DEF Step
      <4> QED BY <2>6, <3>3, <4>1, <4>4, <4>5
    <3>17. CASE SweepStart(t)
      <4>1. /\ UNCHANGED <<minSeq, userMin, slot, cache>>
            /\ th' = [th EXCEPT ![t].pc = "sweep", ![t].asked = 1..maxSeq]
          BY <3>17 DEF SweepStart, seqVars, mongoVars
      <4>2. th'[t].upto = th[t].upto /\ th'[t].full = th[t].full
          BY <2>2, <4>1 DEF ThreadState
      <4>3. SweepInv(t)'
          BY <3>1, <4>2 DEF RetInv, SweepInv
      <4> QED BY <2>6, <2>7, <3>3, <4>1, <4>3
    <3>18. CASE DeleteMsgRecursion(t)
      <4>1. PICK d \in docs :
              LET old == {s \in TooOld(t) : DocOf(s) = d /\ slot[s].msg} IN
              IF AllTooOld(d, old)
              THEN /\ th' = [th EXCEPT ![t].index = @ + 1, ![t].upto = LastOf(d),
                                       ![t].full = @ \union {d}]
                   /\ UNCHANGED slot
              ELSE /\ slot' = [s \in AllSeq |-> IF s \in old THEN Removed ELSE slot[s]]
                   /\ th' = [th EXCEPT ![t].index = @ + 1,
                                       ![t].upto = IF old = {} THEN @ ELSE Max(old)]
          BY <3>18 DEF DeleteMsgRecursion
      <4> DEFINE old == {s \in TooOld(t) : DocOf(s) = d /\ slot[s].msg}
                 upto == IF old = {} THEN th[t].upto ELSE Max(old)
      <4>2. UNCHANGED <<minSeq, userMin, cache>> /\ req[t].op \in {"cron", "wipe"}
          BY <3>18 DEF DeleteMsgRecursion, Sweeping, seqVars
      <4>3. old \subseteq AllSeq /\ (req[t].op = "cron" => old \subseteq 1..expired)
        <5>1. old \subseteq TooOld(t)
            OBVIOUS
        <5>2. TooOld(t) = 1..maxSeq \/ TooOld(t) = 1..expired
            BY DEF TooOld
        <5>3. req[t].op = "cron" => TooOld(t) = 1..expired
            BY DEF TooOld
        <5>4. 1..expired \subseteq AllSeq
            BY <2>2, SeqRange
        <5> QED BY <2>2, <5>1, <5>2, <5>3, <5>4
      <4>4. \/ /\ LastOf(d) \in old /\ UNCHANGED slot
               /\ th' = [th EXCEPT ![t].index = @ + 1, ![t].upto = LastOf(d), ![t].full = @ \union {d}]
            \/ /\ th' = [th EXCEPT ![t].index = @ + 1, ![t].upto = upto]
               /\ slot' = [s \in AllSeq |-> IF s \in old THEN Removed ELSE slot[s]]
          BY <2>2, <4>1 DEF AllTooOld
      <4> HIDE DEF old
      <4>5. req[t].op = "cron" => upto <= expired
        <5> SUFFICES ASSUME req[t].op = "cron" PROVE upto <= expired
            OBVIOUS
        <5>1. CASE old # {}
          <6>1. old \subseteq Nat /\ \A y \in old : y <= expired
              BY <2>2, <4>3
          <6>2. Max(old) \in old
              BY <2>2, <5>1, <6>1, MaxInSet
          <6> QED BY <5>1, <6>1, <6>2
        <5>2. CASE old = {}
            BY <5>2 DEF RetInv, SweepInv
        <5> QED BY <5>1, <5>2
      <4> HIDE DEF upto
      <4>6. \A s \in AllSeq : slot[s].msg => slot'[s].msg \/ s <= expired' \/ Removing(s)'
        <5> SUFFICES ASSUME NEW s \in AllSeq, slot'[s] # slot[s] PROVE s <= expired' \/ Removing(s)'
            OBVIOUS
        <5>1. s \in old
            BY <2>2, <4>4
        <5>2. CASE req[t].op = "wipe"
            BY <3>4, <5>2
        <5>3. CASE req[t].op = "cron"
            BY <2>2, <3>1, <4>3, <5>1, <5>3
        <5> QED BY <4>2, <5>2, <5>3
      <4>7. SweepInv(t)'
        <5> SUFFICES ASSUME req[t].op = "cron"
                     PROVE  th'[t].upto <= expired /\ \A e \in th'[t].full : LastOf(e) <= expired
            BY <3>1, <4>2 DEF SweepInv
        <5>1. \A e \in th[t].full : LastOf(e) <= expired
            BY DEF RetInv, SweepInv
        <5>2. CASE /\ LastOf(d) \in old
                   /\ th' = [th EXCEPT ![t].index = @ + 1, ![t].upto = LastOf(d), ![t].full = @ \union {d}]
          <6>1. th'[t].upto = LastOf(d) /\ th'[t].full = th[t].full \union {d}
              BY <2>2, <5>2 DEF ThreadState
          <6>2. LastOf(d) <= expired
              BY <4>3, <5>2
          <6> QED BY <5>1, <6>1, <6>2
        <5>3. CASE th' = [th EXCEPT ![t].index = @ + 1, ![t].upto = upto]
          <6>1. th'[t].upto = upto /\ th'[t].full = th[t].full
              BY <2>2, <5>3 DEF ThreadState
          <6> QED BY <4>5, <5>1, <6>1
        <5> QED BY <4>4, <5>2, <5>3
      <4> QED BY <2>6, <2>7, <3>3, <4>2, <4>6, <4>7
    <3>19. CASE DeleteDocs(t)
      <4>1. /\ UNCHANGED <<minSeq, userMin, cache>> /\ req[t].op \in {"cron", "wipe"}
            /\ slot' = [s \in AllSeq |-> IF DocOf(s) \in th[t].full THEN Empty ELSE slot[s]]
            /\ Goto(t, "clean") \/ Goto(t, "set")
          BY <3>19 DEF DeleteDocs, Sweeping, seqVars
      <4>2. \A s \in AllSeq : slot[s].msg => slot'[s].msg \/ s <= expired' \/ Removing(s)'
        <5> SUFFICES ASSUME NEW s \in AllSeq, slot'[s] # slot[s] PROVE s <= expired' \/ Removing(s)'
            OBVIOUS
        <5>1. DocOf(s) \in th[t].full
            BY <4>1
        <5>2. CASE req[t].op = "wipe"
            BY <3>4, <5>2
        <5>3. CASE req[t].op = "cron"
          <6>1. LastOf(DocOf(s)) <= expired
              BY <5>1, <5>3 DEF RetInv, SweepInv
          <6>2. s <= LastOf(DocOf(s)) /\ LastOf(DocOf(s)) \in Int /\ s \in Int
              BY <2>2, DocLast, MsgStoreAssumption DEF DocOf, LastOf
          <6> QED BY <2>2, <3>1, <6>1, <6>2
        <5> QED BY <4>1, <5>2, <5>3
      <4>3. SweepInv(t)'
          BY <3>5, <4>1 DEF Step
      <4> QED BY <2>6, <2>7, <3>3, <4>1, <4>2, <4>3
    <3>20. CASE CleanUpOneConversationAllMsg(t)
      <4>1. UNCHANGED <<minSeq, userMin, slot>> /\ req[t].op = "wipe"
          BY <3>20 DEF CleanUpOneConversationAllMsg, At, seqVars, mongoVars
      <4>2. \A s \in 1..maxSeq : Removing(s)'
          BY <3>4, <4>1
      <4> QED BY <2>6, <2>7, <3>3, <3>6, <4>1, <4>2
    <3>21. CASE SetMinSeq(t)
      <4>1. /\ UNCHANGED <<userMin, slot, cache>> /\ req[t].op \in {"cron", "wipe"}
            /\ minSeq' = th[t].upto + 1 /\ Goto(t, "done")
          BY <3>21 DEF SetMinSeq, Sweeping, mongoVars
      <4>2. MinOK'
        <5>1. CASE req[t].op = "wipe"
            BY <3>1, <3>2, <5>1 DEF MinOK
        <5>2. CASE req[t].op = "cron"
          <6>1. th[t].upto <= expired
              BY <5>2 DEF RetInv, SweepInv
          <6>2. minSeq' <= expired' + 1
              BY <2>2, <3>1, <4>1, <6>1
          <6> QED BY <6>2 DEF MinOK
        <5> QED BY <4>1, <5>1, <5>2
      <4>3. SweepInv(t)'
          BY <3>5, <4>1 DEF Step
      <4> QED BY <2>7, <3>3, <4>1, <4>2, <4>3
    <3> QED BY <2>11, <3>7, <3>8, <3>9, <3>10, <3>11, <3>12, <3>13, <3>14, <3>15, <3>16, <3>17,
               <3>18, <3>19, <3>20, <3>21 DEF Serve
  <2> QED BY <1>2, <2>10, <2>11 DEF Next
<1> QED BY <1>1, <1>2

\* The retention sweep and UserMsgsDestruct, for any number of requests, messages and
\* documents of any size: nothing younger than the retention time is swept from Mongo or
\* passed by a min seq, whatever the consumer and the other requests do meanwhile.
THEOREM RetentionKeptHolds == Spec => []RetentionKept
<1> DEFINE Inv == TInv /\ RetInv
<1>1. Init => Inv
  <2> SUFFICES ASSUME Init PROVE RetInv
      BY TypeInit
  <2>1. /\ maxSeq = 0 /\ minSeq = 0 /\ expired = 0 /\ consumer.pc = "idle"
        /\ userMin = [u \in User |-> 0] /\ \A t \in Thread : th[t].upto = 0 /\ th[t].full = {}
      BY DEF Init, Idle
  <2> QED BY <2>1 DEF RetInv, MinOK, UserMinOK, SweepInv
<1>2. Inv /\ [Next]_vars => Inv'
    BY TypeNext, RetNext
<1>3. Inv => RetentionKept
  <2> SUFFICES ASSUME Inv PROVE RetentionKept
      OBVIOUS
  <2>1. maxSeq \in Nat /\ expired \in Nat
      BY SeqRange DEF TInv
  <2>2. ASSUME NEW s \in (expired + 1)..maxSeq
        PROVE  s \in cache \/ slot[s].msg \/ s \in lost \/ Removing(s)
    <3>1. s \in 1..maxSeq /\ ~ (s <= expired)
        BY <2>1
    <3> QED BY <3>1 DEF RetInv, Safe
  <2> QED BY <2>2 DEF RetentionKept, RetInv, MinOK, UserMinOK, Removing
<1> QED BY <1>1, <1>2, <1>3, PTL DEF Spec
=============================================================================
