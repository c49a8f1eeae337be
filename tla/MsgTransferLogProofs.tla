------------------------ MODULE MsgTransferLogProofs ------------------------
(***************************************************************************)
(* What readers of a conversation find: message transfer implements the    *)
(* conversation log.  The proofs build on the numbering of                 *)
(* MsgTransferProofs and assume, besides, that redis and Mongo take whole  *)
(* batches: every other call may fail, and processes may crash at any      *)
(* step.                                                                   *)
(***************************************************************************)
EXTENDS MsgTransferProofs, FunctionTheorems

\* A write of a batch to redis or to Mongo is not cut short.
WholeBatches == "cacheSet" \notin Fails /\ "mongoInsert" \notin Fails

-----------------------------------------------------------------------------
(* Ranks and entries.                                                      *)

\* Ranks grow with the positions, and every number up to the size of a set is the
\* rank of one of its elements.
LEMMA RankOrder ==
    ASSUME NEW I, I \subseteq Nat, IsFiniteSet(I)
    PROVE  /\ \A j, k \in I : j < k => Rank(I, j) < Rank(I, k)
           /\ \A n \in 1 .. Cardinality(I) : \E j \in I : Rank(I, j) = n
BY UptoRanks DEF Rank, Upto

\* The entries of a batch fill the seqs from base + 1 on without a gap.
LEMMA EntriesFill ==
    ASSUME NEW b \in Batch, CtxMsgList(b) # {}, NEW ph \in Phase, NEW base \in Nat,
           NEW n \in base + 1 .. base + Cardinality(StorageList(b, ph))
    PROVE  \E e \in Entries(b, ph, base) : e.seq = n
<1> DEFINE I == StorageList(b, ph)
<1>1. I \subseteq Nat /\ IsFiniteSet(I) /\ Cardinality(I) \in Nat
    BY BatchProperties
<1>2. n - base \in 1 .. Cardinality(I)
    BY <1>1
<1>3. PICK j \in I : Rank(I, j) = n - base
    BY <1>1, <1>2, RankOrder
<1>4. base + Rank(I, j) = n
    BY <1>1, <1>3
<1>5. [conv |-> ConversationOf(b, ph), seq |-> base + Rank(I, j), msg |-> b.msgs[j]]
         \in Entries(b, ph, base)
    BY EntriesProperties
<1> QED BY <1>4, <1>5

-----------------------------------------------------------------------------
(* Reading. A reader finds e under its seq: redis holds e alone, or        *)
(* nothing while Mongo holds e. From the write to redis on this is true of *)
(* everything a worker has numbered, and of everything up to MAX_SEQ.      *)

Readable(e) ==
    LET hit == {f \in cache : Same(f, e)}
    IN  IF hit = {} THEN e \in mongo ELSE hit = {e}

Cached(s) == s.pc \in {"setMax", "toPush"} \/ Assigned(s)

ReadOK(s) ==
    /\ s.pc \in {"setMsgs", "setMax"} => StorageList(s.b, s.ph) # {}
    /\ Cached(s) => \A e \in Entries(s.b, s.ph, s.base) : Readable(e)

\* The Mongo consumer takes from redis what it has written before.
EvictOK ==
    \A p \in Partition : mpc[p] = "evict" =>
        /\ mpos[p] + 1 \in 1 .. Len(mongoTopic[p])
        /\ mongoTopic[p][mpos[p] + 1] \subseteq mongo

LogOK ==
    \A c \in Conv : \A n \in 1 .. maxSeq[c] :
        \E e \in Entry : e.conv = c /\ e.seq = n /\ Readable(e)

ReadInv ==
    /\ \A e \in Numbered : e.seq # 0 /\ Readable(e)
    /\ LogOK
    /\ mongo \subseteq MongoLog
    /\ EvictOK
    /\ \A w \in Worker : ReadOK(wk[w])

\* What a step may not take away from a reader: the message under a seq up to MAX_SEQ.
Stays ==
    \A e \in Entry : e.seq <= maxSeq[e.conv] /\ Readable(e) => Readable(e)'

\* Only redis and Mongo matter to a reader.
LEMMA ReadableFrame ==
    ASSUME UNCHANGED <<cache, mongo>>
    PROVE  \A e : Readable(e)' <=> Readable(e)
BY DEF Readable

\* A worker outside BatchInsertChat2Cache and what follows it owes readers nothing.
LEMMA QuietReadOK == \A s : Quiet(s) => ReadOK(s) /\ ReadOK(s)'
BY DEF Quiet, ReadOK, Cached, Assigned

\* What Mongo holds has left for Mongo, so two of its entries never share a seq.
LEMMA MongoUnique ==
    ASSUME SeqInv, ReadInv, NEW e \in MongoLog, NEW f \in mongo, Same(e, f)
    PROVE  e = f
<1>1. e \in Numbered /\ f \in Numbered
    BY DEF ReadInv, Numbered
<1> QED BY <1>1 DEF SeqInv, SeqUnique

\* Under a seq with a readable entry, GetMsgBySeqs returns its message alone.
LEMMA ReadSeqIs ==
    ASSUME SeqInv, ReadInv, NEW e, Readable(e)
    PROVE  ReadSeq(e.conv, e.seq) = {e.msg}
<1> DEFINE at(store) == {f \in store : f.conv = e.conv /\ f.seq = e.seq}
           hit == {f \in cache : Same(f, e)}
<1>1. hit = at(cache)
    BY DEF Same
<1>2. ReadSeq(e.conv, e.seq) = {f.msg : f \in IF at(cache) # {} THEN at(cache) ELSE at(mongo)}
    BY DEF ReadSeq
<1>3. CASE hit # {}
  <2>1. hit = {e}
      BY <1>3 DEF Readable
  <2> QED BY <1>1, <1>2, <2>1
<1>4. CASE hit = {}
  <2>1. e \in mongo
      BY <1>4 DEF Readable
  <2>2. \A f \in at(mongo) : f = e
    <3> TAKE f \in at(mongo)
    <3>1. e \in MongoLog /\ f \in mongo /\ Same(e, f)
        BY <2>1 DEF ReadInv, Same
    <3> QED BY <3>1, MongoUnique
  <2>3. at(mongo) = {e}
      BY <2>1, <2>2
  <2> QED BY <1>1, <1>2, <1>4, <2>3
<1> QED BY <1>3, <1>4

-----------------------------------------------------------------------------
(* What the steps that touch redis and Mongo leave readable.               *)

\* Inserting a batch into the documents only adds to them.
LEMMA InsertKeeps ==
    ASSUME WholeBatches, TInv, SeqInv, ReadInv, NEW p \in Partition, MongoInsert(p)
    PROVE  /\ mongo' = mongo \cup mongoTopic[p][mpos[p] + 1]
           /\ mpos[p] + 1 \in 1 .. Len(mongoTopic[p])
           /\ mongoTopic[p][mpos[p] + 1] \subseteq MongoLog
           /\ \A e : Readable(e) => Readable(e)'
<1> DEFINE es == mongoTopic[p][mpos[p] + 1]
<1>1. mpos[p] + 1 \in 1 .. Len(mongoTopic[p])
    BY LenProperties DEF MongoInsert, TInv, TypeOK
<1>2. es \subseteq MongoLog
    BY <1>1 DEF MongoLog
<1>3. mongo' = Overwrite(mongo, es)
    BY DEF MongoInsert, WholeBatches
<1>4. ASSUME NEW e \in mongo, NEW f \in es, Same(e, f) PROVE e = f
  <2>1. f \in MongoLog /\ Same(f, e)
      BY <1>2, <1>4 DEF Same
  <2> QED BY <2>1, MongoUnique
<1> HIDE DEF es
<1>5. mongo' = mongo \cup es
    BY <1>3, <1>4 DEF Overwrite
<1>6. UNCHANGED cache
    BY DEF MongoInsert, redisVars
<1>7. \A e : Readable(e) => Readable(e)'
    BY <1>5, <1>6 DEF Readable
<1> QED BY <1>1, <1>2, <1>5, <1>7 DEF es

\* Evicting a batch from redis uncovers the same messages in the documents.
LEMMA EvictKeeps ==
    ASSUME ReadInv, NEW p \in Partition, MongoEvict(p)
    PROVE  \A e : Readable(e) => Readable(e)'
<1> DEFINE es == mongoTopic[p][mpos[p] + 1]
<1>1. es \subseteq mongo /\ UNCHANGED mongo
    BY DEF MongoEvict, ReadInv, EvictOK
<1>2. es \subseteq Numbered
    BY <1>1 DEF ReadInv, Numbered
<1>3. cache' = {e \in cache : \A f \in es : ~Same(e, f)} \/ cache' = cache
    BY DEF MongoEvict
<1> HIDE DEF es
<1>4. CASE cache' = cache
    BY <1>1, <1>4, ReadableFrame
<1>5. CASE cache' = {e \in cache : \A f \in es : ~Same(e, f)}
  <2> SUFFICES ASSUME NEW e, Readable(e) PROVE Readable(e)'
      OBVIOUS
  <2> DEFINE hit == {f \in cache : Same(f, e)}
  <2>1. {f \in cache' : Same(f, e)} \subseteq hit
      BY <1>5
  <2>2. CASE hit = {}
    <3>1. e \in mongo' /\ {f \in cache' : Same(f, e)} = {}
        BY <1>1, <2>1, <2>2 DEF Readable
    <3> QED BY <3>1 DEF Readable, Same
  <2>3. CASE hit = {e} /\ \E f \in es : Same(e, f)
    <3>1. PICK f \in es : Same(e, f)
        BY <2>3
    <3>2. Readable(f)
        BY <1>2, <3>1 DEF ReadInv
    <3>3. e \in {g \in cache : Same(g, f)}
        BY <2>3, <3>1
    <3>4. e = f
        BY <3>2, <3>3 DEF Readable
    <3>5. e \in mongo' /\ e \notin cache'
        BY <1>1, <1>5, <3>1, <3>4
    <3>6. {g \in cache' : Same(g, e)} = {}
        BY <2>1, <2>3, <3>5
    <3> QED BY <3>5, <3>6 DEF Readable, Same
  <2>4. CASE hit = {e} /\ ~\E f \in es : Same(e, f)
    <3>1. e \in cache /\ Same(e, e)
        BY <2>4
    <3>2. e \in cache'
        BY <1>5, <2>4, <3>1
    <3>3. {g \in cache' : Same(g, e)} = {e}
        BY <2>1, <2>4, <3>1, <3>2
    <3> QED BY <3>3 DEF Readable, Same
  <2> QED BY <2>2, <2>3, <2>4 DEF Readable
<1> QED BY <1>3, <1>4, <1>5

\* Writing a batch to redis makes it readable and touches nothing up to MAX_SEQ.
LEMMA CacheKeeps ==
    ASSUME WholeBatches, TInv, NEW w \in Worker, SetMessageToCache(w)
    PROVE  /\ \A e \in Entries(wk[w].b, wk[w].ph, wk[w].base) : Readable(e)'
           /\ \A e \in Entry : /\ e.conv # ConvOf(wk[w]) \/ e.seq <= wk[w].base
                               /\ Readable(e)
                               => Readable(e)'
<1> DEFINE s == wk[w]
           es == Entries(s.b, s.ph, s.base)
           c == ConvOf(s)
<1>1. s.pc = "setMsgs" /\ cache' = Overwrite(cache, es) /\ UNCHANGED mongo
    BY DEF SetMessageToCache, WholeBatches, mongoVars
<1>2. /\ s.base \in Nat /\ Cardinality(StorageList(s.b, s.ph)) \in Nat
      /\ \A e \in es : e.conv = c /\ e.seq \in s.base + 1 .. LastOf(s)
      /\ \A e, f \in es : e.seq = f.seq => e = f
    BY <1>1, WorkerFacts, EntriesProperties DEF ConvOf, LastOf
<1>3. \A e \in Entry : e.seq \in Nat
    BY DEF Entry
<1>4. \A e \in es : e.seq > s.base
    BY <1>2 DEF LastOf
<1> HIDE DEF s, es, c
<1>5. ASSUME NEW e \in es PROVE Readable(e)'
  <2>1. e \in cache'
      BY <1>1 DEF Overwrite
  <2>2. \A f \in cache' : Same(f, e) => f = e
      BY <1>1, <1>2 DEF Overwrite, Same
  <2>3. Same(e, e)
      BY DEF Same
  <2>4. {f \in cache' : Same(f, e)} = {e}
      BY <2>1, <2>2, <2>3
  <2> QED BY <2>4 DEF Readable, Same
<1>6. ASSUME NEW e \in Entry, e.conv # c \/ e.seq <= s.base, Readable(e) PROVE Readable(e)'
  <2>1. \A f \in es : ~Same(f, e)
      BY <1>2, <1>3, <1>4, <1>6 DEF Same
  <2>2. \A f \in cache : Same(f, e) => f \in cache'
      BY <1>1, <2>1 DEF Overwrite, Same
  <2>3. \A f \in cache' : Same(f, e) => f \in cache
      BY <1>1, <2>1 DEF Overwrite
  <2>4. {f \in cache' : Same(f, e)} = {f \in cache : Same(f, e)}
      BY <2>2, <2>3
  <2>5. IF {f \in cache' : Same(f, e)} = {} THEN e \in mongo' ELSE {f \in cache' : Same(f, e)} = {e}
      BY <1>1, <1>6, <2>4 DEF Readable
  <2> QED BY <2>5 DEF Readable, Same
<1> QED BY <1>5, <1>6 DEF s, es, c

-----------------------------------------------------------------------------
(* Every step keeps what can be read.                                      *)

\* A step that leaves MAX_SEQ alone keeps the invariant if it keeps what is readable
\* up to MAX_SEQ and announces only what is readable.
LEMMA ReadStep ==
    ASSUME TInv, SeqInv, ReadInv, UNCHANGED maxSeq, Stays,
           \A e \in Numbered' : e \in Numbered \/ (e.seq # 0 /\ Readable(e)'),
           mongo' \subseteq MongoLog', EvictOK', \A w \in Worker : ReadOK(wk[w])'
    PROVE  ReadInv'
<1>1. \A e \in Numbered : e \in Entry /\ e.seq # 0 /\ Readable(e) /\ e.seq <= maxSeq[e.conv]
    BY NumberedType DEF TInv, SeqInv, ReadInv, WithinMaxSeq
<1>2. \A e \in Numbered' : e.seq # 0 /\ Readable(e)'
    BY <1>1 DEF Stays
<1>3. ASSUME NEW c \in Conv, NEW n \in 1 .. maxSeq'[c]
      PROVE  \E e \in Entry : e.conv = c /\ e.seq = n /\ Readable(e)'
  <2>1. PICK e \in Entry : e.conv = c /\ e.seq = n /\ Readable(e)
      BY DEF ReadInv, LogOK
  <2>2. e.seq <= maxSeq[e.conv]
      BY <2>1 DEF TInv, TypeOK
  <2> QED BY <2>1, <2>2 DEF Stays
<1>4. LogOK'
    BY <1>3 DEF LogOK
<1> QED BY <1>2, <1>4 DEF ReadInv

\* A step that numbers and stores nothing keeps everything readable.
LEMMA ReadQuietStep ==
    ASSUME TInv, SeqInv, ReadInv, UNCHANGED <<maxSeq, cache, mongo, mongoTopic, pushTopic>>,
           EvictOK', \A v \in Worker : wk'[v] = wk[v] \/ ReadOK(wk'[v])
    PROVE  ReadInv' /\ Stays /\ Numbered' = Numbered
<1>1. Numbered' = Numbered /\ MongoLog' = MongoLog
    BY DEF Numbered, MongoLog, PushLog
<1>2. \A e : Readable(e)' <=> Readable(e)
    BY ReadableFrame
<1>3. ASSUME NEW v \in Worker PROVE ReadOK(wk[v])'
  <2>1. ReadOK(wk'[v])
      BY DEF ReadInv
  <2> QED BY <1>2, <2>1 DEF ReadOK, Cached, Assigned
<1>4. Stays
    BY <1>2 DEF Stays
<1>5. mongo' \subseteq MongoLog'
    BY <1>1 DEF ReadInv
<1> QED BY <1>1, <1>3, <1>4, <1>5, ReadStep

\* Nothing that left is ever taken back.
LEMMA NumberedGrows ==
    ASSUME TypeOK,
           \/ UNCHANGED pushTopic
           \/ \E k \in Key, e \in Entry : pushTopic' = [pushTopic EXCEPT ![k] = Append(@, e)],
           \/ UNCHANGED mongoTopic
           \/ \E p \in Partition, es \in SUBSET Entry :
                 mongoTopic' = [mongoTopic EXCEPT ![p] = Append(@, es)]
    PROVE  /\ Numbered \subseteq Numbered' /\ MongoLog \subseteq MongoLog'
           /\ \A p \in Partition : \A n \in 1 .. Len(mongoTopic[p]) :
                 n \in 1 .. Len(mongoTopic'[p]) /\ mongoTopic'[p][n] = mongoTopic[p][n]
<1>1. ASSUME NEW k \in Key, NEW n \in 1 .. Len(pushTopic[k])
      PROVE  n \in 1 .. Len(pushTopic'[k]) /\ pushTopic'[k][n] = pushTopic[k][n]
  <2>1. pushTopic[k] \in Seq(Entry)
      BY DEF TypeOK
  <2>2. \/ pushTopic'[k] = pushTopic[k]
        \/ \E e \in Entry : pushTopic'[k] = Append(pushTopic[k], e)
      BY DEF TypeOK
  <2>3. ASSUME NEW e \in Entry, pushTopic'[k] = Append(pushTopic[k], e)
        PROVE  n \in 1 .. Len(pushTopic'[k]) /\ pushTopic'[k][n] = pushTopic[k][n]
    <3>1. /\ Len(Append(pushTopic[k], e)) = Len(pushTopic[k]) + 1 /\ Len(pushTopic[k]) \in Nat
          /\ Append(pushTopic[k], e)[n] = pushTopic[k][n]
        BY <2>1, AppendProperties, LenProperties
    <3> QED BY <2>3, <3>1
  <2> QED BY <2>2, <2>3
<1>2. ASSUME NEW p \in Partition, NEW n \in 1 .. Len(mongoTopic[p])
      PROVE  n \in 1 .. Len(mongoTopic'[p]) /\ mongoTopic'[p][n] = mongoTopic[p][n]
  <2>1. mongoTopic[p] \in Seq(SUBSET Entry)
      BY DEF TypeOK
  <2>2. \/ mongoTopic'[p] = mongoTopic[p]
        \/ \E es \in SUBSET Entry : mongoTopic'[p] = Append(mongoTopic[p], es)
      BY DEF TypeOK
  <2>3. ASSUME NEW es \in SUBSET Entry, mongoTopic'[p] = Append(mongoTopic[p], es)
        PROVE  n \in 1 .. Len(mongoTopic'[p]) /\ mongoTopic'[p][n] = mongoTopic[p][n]
    <3>1. /\ Len(Append(mongoTopic[p], es)) = Len(mongoTopic[p]) + 1 /\ Len(mongoTopic[p]) \in Nat
          /\ Append(mongoTopic[p], es)[n] = mongoTopic[p][n]
        BY <2>1, AppendProperties, LenProperties
    <3> QED BY <2>3, <3>1
  <2> QED BY <2>2, <2>3
<1>3. PushLog \subseteq PushLog'
    BY <1>1 DEF PushLog
<1>4. MongoLog \subseteq MongoLog'
  <2> SUFFICES ASSUME NEW p \in Partition, NEW n \in 1 .. Len(mongoTopic[p]),
                      NEW e \in mongoTopic[p][n]
               PROVE  \E m \in 1 .. Len(mongoTopic'[p]) : e \in mongoTopic'[p][m]
      BY DEF MongoLog
  <2> QED BY <1>2
<1> QED BY <1>2, <1>3, <1>4 DEF Numbered

\* A worker lets some of its numbered entries leave: they are readable.
LEMMA ReadLeaveStep ==
    ASSUME TInv, SeqInv, ReadInv, NEW w \in Worker, wk[w].pc \in {"toMongo", "toPush"},
           UNCHANGED <<maxSeq, cache, mongo, mpos, mpc>>,
           \/ UNCHANGED pushTopic
           \/ \E k \in Key, e \in Entry : pushTopic' = [pushTopic EXCEPT ![k] = Append(@, e)],
           \/ UNCHANGED mongoTopic
           \/ \E p \in Partition, es \in SUBSET Entry :
                 mongoTopic' = [mongoTopic EXCEPT ![p] = Append(@, es)],
           \A f \in Numbered' : f \in Numbered \/ f \in Entries(wk[w].b, wk[w].ph, wk[w].base),
           \A v \in Worker : v # w => wk'[v] = wk[v],
           \/ Quiet(wk'[w])
           \/ /\ wk'[w].pc = "toPush" /\ wk'[w].b = wk[w].b
              /\ wk'[w].ph = wk[w].ph /\ wk'[w].base = wk[w].base
    PROVE  ReadInv' /\ Stays
<1> DEFINE s == wk[w]
           es == Entries(s.b, s.ph, s.base)
<1>1. \A e : Readable(e)' <=> Readable(e)
    BY ReadableFrame
<1>2. \A e \in es : Readable(e)
    BY DEF ReadInv, ReadOK, Cached, Assigned
<1>3. \A e \in es : e.seq # 0
  <2>1. /\ s.base \in Nat /\ Cardinality(StorageList(s.b, s.ph)) \in Nat
        /\ \A e \in es : e.seq \in s.base + 1 .. s.base + Cardinality(StorageList(s.b, s.ph))
      BY WorkerFacts, EntriesProperties
  <2> QED BY <2>1
<1>4. EvictOK'
    BY NumberedGrows DEF ReadInv, EvictOK, TInv
<1>5. mongo' \subseteq MongoLog'
    BY NumberedGrows DEF ReadInv, TInv
<1>6. ASSUME NEW v \in Worker PROVE ReadOK(wk[v])'
  <2>1. CASE Quiet(wk'[v])
    <3>1. wk'[v].pc \notin {"setMsgs", "setMax", "setRead", "create", "toMongo", "toPush"}
        BY <2>1 DEF Quiet
    <3> QED BY <3>1 DEF ReadOK, Cached, Assigned
  <2>2. CASE v # w
    <3>1. ReadOK(wk[v]) /\ wk'[v] = wk[v]
        BY <2>2 DEF ReadInv
    <3> QED BY <1>1, <3>1 DEF ReadOK, Cached, Assigned
  <2>3. CASE /\ v = w /\ wk'[w].pc = "toPush" /\ wk'[w].b = wk[w].b
             /\ wk'[w].ph = wk[w].ph /\ wk'[w].base = wk[w].base
      BY <1>1, <1>2, <2>3 DEF ReadOK
  <2> QED BY <2>1, <2>2, <2>3
<1>7. Stays
    BY <1>1 DEF Stays
<1>8. \A e \in Numbered' : e \in Numbered \/ (e.seq # 0 /\ Readable(e)')
    BY <1>1, <1>2, <1>3
<1> QED BY <1>4, <1>5, <1>6, <1>7, <1>8, ReadStep

\* A worker writes its batch to redis.
LEMMA ReadCacheStep ==
    ASSUME WholeBatches, TInv, Routing, SeqInv, ReadInv, NEW w \in Worker,
           SetMessageToCache(w)
    PROVE  ReadInv' /\ Stays /\ Numbered' = Numbered
<1> DEFINE s == wk[w]
           t == [s EXCEPT !.pc = "setMax"]
           c == ConvOf(s)
<1>1. /\ s.pc = "setMsgs" /\ Goto(w, t)
      /\ UNCHANGED <<maxSeq, mongo, mongoTopic, mpos, mpc, pushTopic>>
    BY DEF SetMessageToCache, mongoVars
<1>2. s \in WorkerState /\ wk \in [Worker -> WorkerState] /\ c \in Conv
    BY <1>1, WorkerFacts DEF TInv, TypeOK, ConvOf
<1>3. /\ t.pc = "setMax" /\ t.b = s.b /\ t.ph = s.ph /\ t.base = s.base
      /\ \A v \in Worker : wk'[v] = IF v = w THEN t ELSE wk[v]
    BY <1>1, <1>2 DEF Goto, WorkerState
<1>4. s.base = maxSeq[c] /\ ReadOK(s)
    BY <1>1 DEF SeqInv, SeqOK, ReadInv
<1>5. /\ \A e \in Entries(s.b, s.ph, s.base) : Readable(e)'
      /\ \A e \in Entry : (e.conv # c \/ e.seq <= s.base) /\ Readable(e) => Readable(e)'
    BY CacheKeeps
<1> HIDE DEF t, c
<1>6. Stays
    BY <1>4, <1>5 DEF Stays
<1>7. Numbered' = Numbered /\ MongoLog' = MongoLog
    BY <1>1 DEF Numbered, MongoLog, PushLog
<1>8. ReadOK(wk[w])'
    BY <1>1, <1>3, <1>4, <1>5 DEF ReadOK
<1>9. ASSUME NEW v \in Worker, v # w PROVE ReadOK(wk[v])'
  <2>1. ReadOK(wk[v]) /\ wk'[v] = wk[v]
      BY <1>3, <1>9 DEF ReadInv
  <2>2. CASE ~Cached(wk[v])
    <3>1. ~Cached(wk[v])'
        BY <2>1, <2>2 DEF Cached, Assigned
    <3> QED BY <2>1, <3>1 DEF ReadOK
  <2>3. CASE Cached(wk[v])
    <3>1. wk[v].pc # "idle"
        BY <2>3 DEF Cached, Assigned
    <3>2. ConvOf(wk[v]) # c
        BY <1>1, <1>9, <3>1, OwnConversations DEF c
    <3>3. \A e \in Entries(wk[v].b, wk[v].ph, wk[v].base) : e \in Entry /\ e.conv = ConvOf(wk[v])
        BY <3>1, WorkerFacts, EntriesProperties DEF ConvOf
    <3>4. \A e \in Entries(wk[v].b, wk[v].ph, wk[v].base) : Readable(e)'
        BY <1>5, <2>1, <2>3, <3>2, <3>3 DEF ReadOK
    <3> QED BY <2>1, <3>4 DEF ReadOK
  <2> QED BY <2>2, <2>3
<1>10. EvictOK'
    BY <1>1 DEF ReadInv, EvictOK
<1>11. mongo' \subseteq MongoLog'
    BY <1>1, <1>7 DEF ReadInv
<1>12. \A v \in Worker : ReadOK(wk[v])'
    BY <1>8, <1>9
<1> QED BY <1>1, <1>6, <1>7, <1>10, <1>11, <1>12, ReadStep

\* A worker writes MAX_SEQ: its batch becomes the end of the log.
LEMMA ReadMaxStep ==
    ASSUME TInv, SeqInv, ReadInv, NEW w \in Worker, wk[w].pc = "setMax",
           UNCHANGED <<cache, mongo, mongoTopic, mpos, mpc, pushTopic>>,
           maxSeq' = [maxSeq EXCEPT ![ConvOf(wk[w])] = LastOf(wk[w])],
           \A v \in Worker : v # w => wk'[v] = wk[v],
           wk'[w].pc = "setRead" /\ wk'[w].b = wk[w].b,
           wk'[w].ph = wk[w].ph /\ wk'[w].base = wk[w].base
    PROVE  /\ ReadInv' /\ Stays /\ Numbered' = Numbered
           /\ ConvOf(wk[w]) \in Conv /\ maxSeq'[ConvOf(wk[w])] > maxSeq[ConvOf(wk[w])]
           /\ \A d \in Conv : d # ConvOf(wk[w]) => maxSeq'[d] = maxSeq[d]
<1> DEFINE s == wk[w]
           c == ConvOf(s)
           es == Entries(s.b, s.ph, s.base)
           N == Cardinality(StorageList(s.b, s.ph))
<1>1. /\ s.b \in Batch /\ s.ph \in Phase /\ s.base \in Nat /\ CtxMsgList(s.b) # {}
      /\ c \in Conv /\ N \in Nat
    BY WorkerFacts DEF ConvOf
<1>2. IsFiniteSet(StorageList(s.b, s.ph)) /\ StorageList(s.b, s.ph) # {}
    BY <1>1, BatchProperties DEF ReadInv, ReadOK
<1>3. N # 0
    BY <1>2, FS_EmptySet
<1>4. s.base = maxSeq[c] /\ maxSeq \in [Conv -> Nat]
    BY DEF SeqInv, SeqOK, TInv, TypeOK
<1>5. \A e : Readable(e)' <=> Readable(e)
    BY ReadableFrame
<1>6. \A e \in es : Readable(e) /\ e \in Entry /\ e.conv = c
    BY <1>1, EntriesProperties DEF ReadInv, ReadOK, Cached, ConvOf
<1>7. \A n \in s.base + 1 .. s.base + N : \E e \in es : e.seq = n
    BY <1>1, EntriesFill
<1>8. maxSeq'[c] = s.base + N /\ \A d \in Conv : d # c => maxSeq'[d] = maxSeq[d]
    BY <1>1, <1>4 DEF LastOf
<1> HIDE DEF c, es, N
<1>9. Numbered' = Numbered /\ MongoLog' = MongoLog
    BY DEF Numbered, MongoLog, PushLog
<1>10. ASSUME NEW d \in Conv, NEW n \in 1 .. maxSeq'[d]
       PROVE  \E e \in Entry : e.conv = d /\ e.seq = n /\ Readable(e)'
  <2>1. CASE n \in 1 .. maxSeq[d]
      BY <1>5, <2>1 DEF ReadInv, LogOK
  <2>2. CASE n \notin 1 .. maxSeq[d]
    <3>1. d = c
        BY <1>8, <2>2
    <3>2. n \in s.base + 1 .. s.base + N
        BY <1>1, <1>4, <1>8, <2>2, <3>1
    <3> QED BY <1>5, <1>6, <1>7, <3>1, <3>2
  <2> QED BY <2>1, <2>2
<1>11. LogOK'
    BY <1>10 DEF LogOK
<1>12. ASSUME NEW v \in Worker PROVE ReadOK(wk[v])'
  <2>1. CASE v = w
      BY <1>5, <1>6, <2>1 DEF ReadOK, es
  <2>2. CASE v # w
    <3>1. ReadOK(wk[v]) /\ wk'[v] = wk[v]
        BY <2>2 DEF ReadInv
    <3> QED BY <1>5, <3>1 DEF ReadOK, Cached, Assigned
  <2> QED BY <2>1, <2>2
<1>13. EvictOK' /\ mongo' \subseteq MongoLog'
    BY <1>9 DEF ReadInv, EvictOK
<1>14. \A e \in Numbered' : e.seq # 0 /\ Readable(e)'
    BY <1>5, <1>9 DEF ReadInv
<1>15. ReadInv'
    BY <1>11, <1>12, <1>13, <1>14 DEF ReadInv
<1>16. Stays
    BY <1>5 DEF Stays
<1>17. maxSeq'[c] > maxSeq[c]
    BY <1>1, <1>3, <1>4, <1>8
<1> QED BY <1>1, <1>8, <1>9, <1>15, <1>16, <1>17 DEF c

\* A step announces some readable messages and leaves MAX_SEQ alone, or it extends one
\* conversation and announces nothing.
Tells == UNCHANGED maxSeq /\ Numbered \subseteq Numbered'
Grown(c) ==
    /\ maxSeq'[c] > maxSeq[c] /\ \A d \in Conv : d # c => maxSeq'[d] = maxSeq[d]
    /\ Numbered' = Numbered
LogStep == ReadInv' /\ Stays /\ (Tells \/ \E c \in Conv : Grown(c))

\* Run steps are steps of the log.
LEMMA ReadRunStep ==
    ASSUME WholeBatches, TInv, Routing, SeqInv, ReadInv, NEW w \in Worker, RunStep(w),
           ~Run(w), ~ModifyPanic(w)
    PROVE  LogStep
<1> DEFINE s == wk[w]
           c == ConvOf(s)
           es == Entries(s.b, s.ph, s.base)
<1>0. /\ s.pc # "idle" /\ s \in WorkerState /\ WorkerOK(s)
      /\ wk \in [Worker -> WorkerState] /\ ReadOK(s)
      /\ \A v \in Worker : v # w => wk'[v] = wk[v]
    BY RunStepFrame DEF TInv, TypeOK, ReadInv
<1>1. \A t : Goto(w, t) => wk'[w] = t
    BY <1>0 DEF Goto
<1>2. Quiet(EndPhase(s))
    BY <1>0, EndPhaseOK DEF Quiet
<1>3. ASSUME UNCHANGED <<maxSeq, cache, mongo, mongoTopic, mpos, mpc, pushTopic>>,
             ReadOK(wk'[w])
      PROVE  LogStep
  <2>1. EvictOK'
      BY <1>3 DEF ReadInv, EvictOK
  <2>2. \A v \in Worker : wk'[v] = wk[v] \/ ReadOK(wk'[v])
      BY <1>0, <1>3
  <2> QED BY <1>3, <2>1, <2>2, ReadQuietStep DEF LogStep, Tells
<1>4. CASE toPushTopic(w)
  <2> DEFINE j == Min(s.left)
             t == [s EXCEPT !.left = @ \ {j}]
             e == [conv |-> c, seq |-> PushSeq(s, j), msg |-> s.b.msgs[j]]
  <2>1. /\ s.pc \in {"raw", "toPush"} /\ s.left # {}
        /\ UNCHANGED <<maxSeq, cache, mongo, mongoTopic, mpos, mpc>>
      BY <1>4 DEF toPushTopic, redisVars, mongoVars
  <2>2. j \in s.left /\ s.left \subseteq CtxMsgList(s.b)
      BY <1>0, <2>1, MinInSet DEF WorkerState, WorkerOK
  <2>3. Push(w, e)
      BY <1>4 DEF toPushTopic, ConvOf
  <2>4. (s.pc = "toPush" /\ Goto(w, EndPhase(s))) \/ Goto(w, t)
      BY <1>4 DEF toPushTopic
  <2>5. t.pc = s.pc /\ t.b = s.b /\ t.ph = s.ph /\ t.base = s.base
      BY <1>0 DEF WorkerState
  <2>6. s.b \in Batch /\ s.b.key \in Key /\ s.b.msgs[j] \in Message /\ c \in Conv
      BY <1>0, <2>2, WorkerFacts, BatchProperties DEF ConvOf, Batch
  <2>7. CASE s.pc = "raw"
    <3>1. e \in Entry /\ e.seq = 0
        BY <2>6, <2>7 DEF PushSeq, Entry
    <3> HIDE DEF e, t, j
    <3>2. UNCHANGED pushTopic \/ pushTopic' = [pushTopic EXCEPT ![s.b.key] = Append(@, e)]
        BY <2>3 DEF Push
    <3>3. Numbered' \subseteq Numbered
      <4>1. CASE UNCHANGED pushTopic
          BY <2>1, <4>1 DEF Numbered, MongoLog, PushLog
      <4>2. CASE pushTopic' = [pushTopic EXCEPT ![s.b.key] = Append(@, e)]
          BY <2>1, <2>6, <3>1, <4>2, NumberedPush DEF TInv
      <4> QED BY <3>2, <4>1, <4>2
    <3>4. Numbered \subseteq Numbered' /\ MongoLog \subseteq MongoLog'
        BY <2>1, <2>6, <3>1, <3>2, NumberedGrows DEF TInv
    <3>5. wk'[w] = t /\ Quiet(t)
        BY <1>1, <2>4, <2>5, <2>7 DEF Quiet
    <3>6. \A f : Readable(f)' <=> Readable(f)
        BY <2>1, ReadableFrame
    <3>7. ASSUME NEW v \in Worker PROVE ReadOK(wk[v])'
      <4>1. CASE v = w
        <5>1. wk'[v].pc \notin {"setMsgs", "setMax", "setRead", "create", "toMongo", "toPush"}
            BY <3>5, <4>1 DEF Quiet
        <5> QED BY <5>1 DEF ReadOK, Cached, Assigned
      <4>2. CASE v # w
        <5>1. ReadOK(wk[v]) /\ wk'[v] = wk[v]
            BY <1>0, <4>2 DEF ReadInv
        <5> QED BY <3>6, <5>1 DEF ReadOK, Cached, Assigned
      <4> QED BY <4>1, <4>2
    <3>8. EvictOK' /\ mongo' \subseteq MongoLog'
        BY <2>1, <3>4 DEF ReadInv, EvictOK
    <3>9. Stays
        BY <3>6 DEF Stays
    <3>10. ReadInv'
        BY <2>1, <3>3, <3>7, <3>8, <3>9, ReadStep
    <3> QED BY <2>1, <3>4, <3>9, <3>10 DEF LogStep, Tells
  <2>8. CASE s.pc = "toPush"
    <3>1. j \in StorageList(s.b, s.ph)
        BY <1>0, <2>2, <2>8 DEF WorkerOK
    <3>2. e = [conv |-> c, seq |-> s.base + Rank(StorageList(s.b, s.ph), j), msg |-> s.b.msgs[j]]
        BY <2>8 DEF PushSeq
    <3>3. e \in es /\ es \subseteq Entry
        BY <1>0, <3>1, <3>2, WorkerFacts, EntriesProperties DEF ConvOf
    <3> HIDE DEF e, t, j, es
    <3>4. UNCHANGED pushTopic \/ pushTopic' = [pushTopic EXCEPT ![s.b.key] = Append(@, e)]
        BY <2>3 DEF Push
    <3>5. \A f \in Numbered' : f \in Numbered \/ f \in es
      <4>1. CASE UNCHANGED pushTopic
          BY <2>1, <4>1 DEF Numbered, MongoLog, PushLog
      <4>2. CASE pushTopic' = [pushTopic EXCEPT ![s.b.key] = Append(@, e)]
          BY <2>1, <2>6, <3>3, <4>2, NumberedPush DEF TInv
      <4> QED BY <3>4, <4>1, <4>2
    <3>6. \/ UNCHANGED pushTopic
          \/ \E k \in Key, f \in Entry : pushTopic' = [pushTopic EXCEPT ![k] = Append(@, f)]
        BY <2>6, <3>3, <3>4
    <3>7. \/ Quiet(wk'[w])
          \/ /\ wk'[w].pc = "toPush" /\ wk'[w].b = wk[w].b
             /\ wk'[w].ph = wk[w].ph /\ wk'[w].base = wk[w].base
        BY <1>1, <1>2, <2>4, <2>5, <2>8
    <3>8. ReadInv' /\ Stays
        BY <1>0, <2>1, <2>8, <3>5, <3>6, <3>7, ReadLeaveStep DEF es
    <3>9. Numbered \subseteq Numbered'
        BY <2>1, <3>6, NumberedGrows DEF TInv
    <3> QED BY <2>1, <3>8, <3>9 DEF LogStep, Tells
  <2> QED BY <2>1, <2>7, <2>8
<1>5. CASE GetMaxSeq(w)
  <2> DEFINE n == Cardinality(StorageList(s.b, s.ph))
             t == [s EXCEPT !.pc = "setMsgs", !.base = maxSeq[c], !.isNew = (maxSeq[c] = 0)]
  <2>1. /\ (n # 0 /\ Goto(w, t)) \/ Goto(w, EndPhase(s))
        /\ UNCHANGED <<maxSeq, cache, mongo, mongoTopic, mpos, mpc, pushTopic>>
      BY <1>5 DEF GetMaxSeq, ConvOf, redisVars, mongoVars
  <2>2. t.pc = "setMsgs" /\ t.b = s.b /\ t.ph = s.ph
      BY <1>0 DEF WorkerState
  <2>3. n # 0 => StorageList(s.b, s.ph) # {}
      BY FS_EmptySet
  <2>4. n # 0 => ReadOK(t)
    <3> HIDE DEF t, s, n
    <3> QED BY <2>2, <2>3 DEF ReadOK, Cached, Assigned
  <2> HIDE DEF t, n
  <2> QED BY <1>1, <1>2, <1>3, <2>1, <2>4, QuietReadOK
<1>6. CASE SetMessageToCache(w)
    BY <1>6, ReadCacheStep DEF LogStep, Tells, SetMessageToCache
<1>7. CASE SetMaxSeq(w)
  <2> DEFINE t1 == [s EXCEPT !.pc = "setRead"]
             t2 == [s EXCEPT !.pc = "setRead", !.err = TRUE]
  <2>1. s.pc = "setMax" /\ UNCHANGED <<cache, mongo, mongoTopic, mpos, mpc, pushTopic>>
      BY <1>7 DEF SetMaxSeq, mongoVars
  <2>2. \/ Goto(w, t1) /\ maxSeq' = [maxSeq EXCEPT ![c] = LastOf(s)]
        \/ Goto(w, t2) /\ UNCHANGED maxSeq
      BY <1>7 DEF SetMaxSeq, ConvOf, LastOf
  <2>3. /\ t1.pc = "setRead" /\ t1.b = s.b /\ t1.ph = s.ph /\ t1.base = s.base
        /\ t2.pc = "setRead" /\ t2.err
      BY <1>0 DEF WorkerState
  <2> HIDE DEF t1, t2
  <2>4. CASE Goto(w, t1) /\ maxSeq' = [maxSeq EXCEPT ![c] = LastOf(s)]
      BY <1>0, <1>1, <2>1, <2>3, <2>4, ReadMaxStep DEF LogStep, Grown
  <2>5. CASE Goto(w, t2) /\ UNCHANGED maxSeq
    <3>1. ReadOK(t2)
        BY <2>3 DEF ReadOK, Cached, Assigned
    <3> QED BY <1>1, <1>3, <2>1, <2>5, <3>1
  <2> QED BY <2>2, <2>4, <2>5
<1>8. CASE SetHasReadSeqs(w)
  <2> DEFINE t1 == [s EXCEPT !.pc = "create"]
             t2 == [s EXCEPT !.pc = "toMongo"]
  <2>1. /\ s.pc = "setRead"
        /\ UNCHANGED <<maxSeq, cache, mongo, mongoTopic, mpos, mpc, pushTopic>>
      BY <1>8 DEF SetHasReadSeqs, mongoVars
  <2>2. Goto(w, EndPhase(s)) \/ (~s.err /\ (Goto(w, t1) \/ Goto(w, t2)))
      BY <1>8 DEF SetHasReadSeqs
  <2>3. /\ t1.pc = "create" /\ t1.b = s.b /\ t1.ph = s.ph /\ t1.base = s.base
        /\ t2.pc = "toMongo" /\ t2.b = s.b /\ t2.ph = s.ph /\ t2.base = s.base
      BY <1>0 DEF WorkerState
  <2> HIDE DEF t1, t2
  <2>4. ~s.err => ReadOK(t1) /\ ReadOK(t2)
      BY <1>0, <2>1, <2>3 DEF ReadOK, Cached, Assigned
  <2> QED BY <1>1, <1>2, <1>3, <2>1, <2>2, <2>4, QuietReadOK
<1>9. CASE FirstCreateConversation(w)
  <2> DEFINE t == [s EXCEPT !.pc = "toMongo"]
  <2>1. /\ s.pc = "create" /\ Goto(w, t)
        /\ UNCHANGED <<maxSeq, cache, mongo, mongoTopic, mpos, mpc, pushTopic>>
      BY <1>9 DEF FirstCreateConversation, mongoVars
  <2>2. t.pc = "toMongo" /\ t.b = s.b /\ t.ph = s.ph /\ t.base = s.base
      BY <1>0 DEF WorkerState
  <2> HIDE DEF t
  <2>3. ReadOK(t)
      BY <1>0, <2>1, <2>2 DEF ReadOK, Cached, Assigned
  <2> QED BY <1>1, <1>3, <2>1, <2>3
<1>10. CASE MsgToMongoMQ(w)
  <2> DEFINE t == [s EXCEPT !.pc = "toPush", !.left = StorageList(s.b, s.ph)]
             p == PartOf[s.b.key]
  <2>1. s.pc = "toMongo" /\ Goto(w, t) /\ UNCHANGED <<maxSeq, cache, mongo, mpos, mpc, pushTopic>>
      BY <1>10 DEF MsgToMongoMQ, redisVars
  <2>2. t.pc = "toPush" /\ t.b = s.b /\ t.ph = s.ph /\ t.base = s.base
      BY <1>0 DEF WorkerState
  <2>3. p \in Partition /\ es \subseteq Entry
      BY <1>0, WorkerFacts, EntriesProperties
  <2>4. UNCHANGED mongoTopic \/ mongoTopic' = [mongoTopic EXCEPT ![p] = Append(@, es)]
      BY <1>10 DEF MsgToMongoMQ
  <2> HIDE DEF t, p, es
  <2>5. \A f \in Numbered' : f \in Numbered \/ f \in es
    <3>1. CASE UNCHANGED mongoTopic
        BY <2>1, <3>1 DEF Numbered, MongoLog, PushLog
    <3>2. CASE mongoTopic' = [mongoTopic EXCEPT ![p] = Append(@, es)]
        BY <2>1, <2>3, <3>2, NumberedMongo DEF TInv
    <3> QED BY <2>4, <3>1, <3>2
  <2>6. \/ UNCHANGED mongoTopic
        \/ \E q \in Partition, fs \in SUBSET Entry :
              mongoTopic' = [mongoTopic EXCEPT ![q] = Append(@, fs)]
      BY <2>3, <2>4
  <2>7. ReadInv' /\ Stays
      BY <1>0, <1>1, <2>1, <2>2, <2>5, <2>6, ReadLeaveStep DEF es
  <2>8. Numbered \subseteq Numbered'
      BY <2>1, <2>6, NumberedGrows DEF TInv
  <2> QED BY <2>1, <2>7, <2>8 DEF LogStep, Tells
<1> QED BY <1>4, <1>5, <1>6, <1>7, <1>8, <1>9, <1>10 DEF RunStep

\* The steps of the Mongo consumer are invisible to readers.
LEMMA ReadMongo ==
    ASSUME WholeBatches, TInv, SeqInv, ReadInv, NEW p \in Partition,
           MongoInsert(p) \/ MongoEvict(p) \/ MongoAutoCommit(p)
    PROVE  LogStep
<1>1. UNCHANGED <<wk, maxSeq, mongoTopic, pushTopic>>
    BY DEF MongoInsert, MongoEvict, MongoAutoCommit, redisVars
<1>2. Numbered' = Numbered /\ MongoLog' = MongoLog
    BY <1>1 DEF Numbered, MongoLog, PushLog
<1>3. ASSUME \A e : Readable(e) => Readable(e)', mongo' \subseteq MongoLog, EvictOK'
      PROVE  LogStep
  <2>1. Stays
      BY <1>3 DEF Stays
  <2>2. \A v \in Worker : ReadOK(wk[v])'
    <3> TAKE v \in Worker
    <3>1. ReadOK(wk[v]) /\ wk'[v] = wk[v]
        BY <1>1 DEF ReadInv
    <3> QED BY <1>3, <3>1 DEF ReadOK, Cached, Assigned
  <2>3. ReadInv'
      BY <1>1, <1>2, <1>3, <2>1, <2>2, ReadStep
  <2> QED BY <1>1, <1>2, <2>1, <2>3 DEF LogStep, Tells
<1>4. CASE MongoInsert(p)
  <2> DEFINE es == mongoTopic[p][mpos[p] + 1]
  <2>1. /\ mongo' = mongo \cup es /\ es \subseteq MongoLog
        /\ mpos[p] + 1 \in 1 .. Len(mongoTopic[p])
        /\ \A e : Readable(e) => Readable(e)'
      BY <1>4, InsertKeeps
  <2>2. UNCHANGED mpos /\ \A q \in Partition : q # p => mpc'[q] = mpc[q]
      BY <1>4 DEF MongoInsert, TInv, TypeOK
  <2>3. mongo' \subseteq MongoLog
      BY <2>1 DEF ReadInv
  <2>4. EvictOK'
      BY <1>1, <2>1, <2>2 DEF ReadInv, EvictOK
  <2> QED BY <1>3, <2>1, <2>3, <2>4
<1>5. CASE MongoEvict(p)
  <2>1. \A e : Readable(e) => Readable(e)'
      BY <1>5, EvictKeeps
  <2>2. UNCHANGED mongo
      BY <1>5 DEF MongoEvict
  <2>3. \A q \in Partition : IF q = p THEN mpc'[q] = "idle"
                                      ELSE mpc'[q] = mpc[q] /\ mpos'[q] = mpos[q]
      BY <1>5 DEF MongoEvict, TInv, TypeOK
  <2>4. EvictOK'
      BY <1>1, <2>2, <2>3 DEF ReadInv, EvictOK
  <2>5. mongo' \subseteq MongoLog
      BY <2>2 DEF ReadInv
  <2> QED BY <1>3, <2>1, <2>4, <2>5
<1>6. CASE MongoAutoCommit(p)
  <2>1. UNCHANGED <<cache, mongo, mpos, mpc>>
      BY <1>6 DEF MongoAutoCommit, redisVars
  <2>2. EvictOK' /\ mongo' \subseteq MongoLog
      BY <1>1, <2>1 DEF ReadInv, EvictOK
  <2> QED BY <1>3, <2>1, <2>2, ReadableFrame
<1> QED BY <1>4, <1>5, <1>6

\* Every step is a step of the log.
LEMMA ReadNext ==
    ASSUME WholeBatches, TInv, Routing, SeqInv, ReadInv, [Next]_vars
    PROVE  LogStep
<1>1. ASSUME UNCHANGED <<maxSeq, cache, mongo, mongoTopic, pushTopic>>, EvictOK',
             \A v \in Worker : wk'[v] = wk[v] \/ Quiet(wk'[v])
      PROVE  LogStep
  <2>1. \A v \in Worker : wk'[v] = wk[v] \/ ReadOK(wk'[v])
      BY <1>1, QuietReadOK
  <2> QED BY <1>1, <2>1, ReadQuietStep DEF LogStep, Tells
<1>2. UNCHANGED <<mongoTopic, mongo, mpos, mpc>> => EvictOK'
    BY DEF ReadInv, EvictOK
<1>3. CASE UNCHANGED vars
    BY <1>1, <1>2, <1>3 DEF vars, redisVars, mongoVars
<1>4. ASSUME NEW i \in Instance, Crash(i) PROVE LogStep
  <2>1. \A v \in Worker : wk'[v] = Idle \/ wk'[v] = wk[v]
      BY <1>4 DEF Crash, Lost
  <2>2. Quiet(Idle)
      BY DEF Quiet, Idle
  <2>3. \A p \in Partition : mpc'[p] = "idle" \/ (mpc'[p] = mpc[p] /\ mpos'[p] = mpos[p])
      BY <1>4 DEF Crash, Lost
  <2>4. UNCHANGED <<mongoTopic, mongo>>
      BY <1>4 DEF Crash
  <2>5. EvictOK'
      BY <2>3, <2>4 DEF ReadInv, EvictOK
  <2> QED BY <1>1, <1>4, <2>1, <2>2, <2>5 DEF Crash, redisVars
<1>5. ASSUME NEW w \in Worker, RunStep(w) PROVE LogStep
  <2>1. CASE Run(w)
    <3>1. chArrays[w] \in Seq(Batch) /\ chArrays[w] # <<>>
        BY <2>1 DEF Run, TInv, TypeOK
    <3>2. Head(chArrays[w]) = chArrays[w][1] /\ Head(chArrays[w]) \in Batch
          /\ 1 \in 1 .. Len(chArrays[w])
        BY <3>1, HeadTailProperties, EmptySeq, LenProperties
    <3>3. CtxMsgList(Head(chArrays[w])) # {}
        BY <3>2 DEF TInv, BatchOK
    <3>4. Quiet(StartPhase(Head(chArrays[w]), "chat"))
        BY <3>2, <3>3, StartPhaseOK DEF Quiet, Phase
    <3>5. wk' = [wk EXCEPT ![w] = StartPhase(Head(chArrays[w]), "chat")]
        BY <2>1 DEF Run, Goto
    <3>6. \A v \in Worker : wk'[v] = wk[v] \/ Quiet(wk'[v])
        BY <3>4, <3>5 DEF TInv, TypeOK
    <3> QED BY <1>1, <1>2, <2>1, <3>6 DEF Run, redisVars, mongoVars
  <2>2. CASE ModifyPanic(w)
    <3>1. w[1] \in Instance
        BY DEF Worker
    <3> QED BY <1>4, <2>2, <3>1 DEF ModifyPanic
  <2> QED BY <1>5, <2>1, <2>2, ReadRunStep
<1>6. ASSUME \/ \E d \in Payload : MsgToMQ(d)
             \/ \E p \in Partition : ConsumeClaim(p) \/ AutoCommit(p)
             \/ \E x \in Claim : Tick(x) \/ Distribute(x)
             \/ \E i \in Instance, k \in Key : Route(i, k)
      PROVE  LogStep
  <2>1. UNCHANGED <<wk, maxSeq, cache, mongo, mongoTopic, mpos, mpc, pushTopic>>
      BY <1>6 DEF MsgToMQ, ConsumeClaim, AutoCommit, Tick, Distribute, Route, redisVars, mongoVars
  <2> QED BY <1>1, <1>2, <2>1
<1>7. ASSUME NEW p \in Partition, NEW j \in Instance, Rebalance(p, j) PROVE LogStep
  <2>1. UNCHANGED <<wk, maxSeq, cache, mongo, mongoTopic, mpc, pushTopic>>
      BY <1>7 DEF Rebalance, redisVars
  <2>2. \A q \in Partition : mpc'[q] = "idle" \/ (mpc'[q] = mpc[q] /\ mpos'[q] = mpos[q])
      BY <1>7, <2>1 DEF Rebalance, TInv, TypeOK
  <2>3. EvictOK'
      BY <2>1, <2>2 DEF ReadInv, EvictOK
  <2> QED BY <1>1, <2>1, <2>3
<1> QED BY <1>3, <1>4, <1>5, <1>6, <1>7, ReadMongo DEF Next

\* Initially every log is empty.
LEMMA ReadInit == Init => ReadInv
<1> SUFFICES ASSUME Init PROVE ReadInv
    OBVIOUS
<1>1. \A w \in Worker : wk[w].pc = "idle"
    BY DEF Init, Idle
<1>2. \A w \in Worker : ReadOK(wk[w])
    BY <1>1, QuietReadOK DEF Quiet
<1>3. /\ \A p \in Partition : Len(mongoTopic[p]) = 0 /\ mpc[p] = "idle"
      /\ \A k \in Key : Len(pushTopic[k]) = 0
      /\ \A c \in Conv : maxSeq[c] = 0
    BY EmptySeq DEF Init
<1>4. Numbered = {} /\ mongo = {}
    BY <1>3 DEF Numbered, MongoLog, PushLog, Init
<1>5. LogOK
    BY <1>3 DEF LogOK
<1>6. EvictOK
    BY <1>3 DEF EvictOK
<1> QED BY <1>2, <1>4, <1>5, <1>6 DEF ReadInv

LInv == SInv /\ ReadInv

\* The inductive invariant of reading holds of every behaviour.
LEMMA LInvHolds ==
    ASSUME OneHome, WholeBatches
    PROVE  Spec => []LInv
<1>1. Init => LInv
    BY TypeInit, SeqInit, ReadInit DEF LInv, SInv
<1>2. LInv /\ [Next]_vars => LInv'
    BY TypeNext, RoutingNext, SeqNext, ReadNext DEF LInv, SInv, LogStep
<1> QED BY <1>1, <1>2, PTL DEF Spec

\* While partitions do not change hands and redis and Mongo take whole batches, a
\* reader finds under every seq that left msgtransfer the message that left under it,
\* whatever other calls fail and whenever processes crash.
THEOREM ReadersAgreeHolds ==
    ASSUME OneHome, WholeBatches
    PROVE  Spec => []ReadersAgree
<1>1. LInv => ReadersAgree
  <2> SUFFICES ASSUME LInv, NEW e \in Numbered
               PROVE  LET hit == {f \in cache : Same(f, e)}
                      IN  IF hit = {} THEN e \in mongo ELSE hit = {e}
      BY DEF ReadersAgree
  <2> QED BY DEF LInv, ReadInv, Readable
<1> QED BY <1>1, LInvHolds, PTL

\* Under the same assumptions every seq up to MAX_SEQ is readable: no crash and no
\* failed call leaves a hole in a conversation.
THEOREM NoHoleHolds ==
    ASSUME OneHome, WholeBatches
    PROVE  Spec => []NoHole
<1>1. LInv => NoHole
  <2> SUFFICES ASSUME LInv, NEW c \in Conv, NEW n \in 1 .. maxSeq[c]
               PROVE  \E e \in cache \cup mongo : e.conv = c /\ e.seq = n
      BY DEF NoHole
  <2>1. PICK e \in Entry : e.conv = c /\ e.seq = n /\ Readable(e)
      BY DEF LInv, ReadInv, LogOK
  <2>2. e \in cache \/ e \in mongo
      BY <2>1 DEF Readable
  <2> QED BY <2>1, <2>2
<1> QED BY <1>1, LInvHolds, PTL

-----------------------------------------------------------------------------
(* The refinement: what GetMsgBySeqs returns for the seqs up to MAX_SEQ is *)
(* the log, and what has left msgtransfer is what was told.                *)

LogOf(c) == [s \in 1 .. maxSeq[c] |-> ReadSeq(c, s)]

\* Every readable entry is what its seq returns.
ReadsEntries == \A e \in Entry : Readable(e) => ReadSeq(e.conv, e.seq) = {e.msg}

\* The log of a conversation is as long as its MAX_SEQ.
LogShape ==
    \A c \in Conv : /\ LogOf(c) \in Seq(SUBSET Message) /\ Len(LogOf(c)) = maxSeq[c]
                    /\ \A n \in 1 .. maxSeq[c] : LogOf(c)[n] = ReadSeq(c, n)

\* What reading means for the log, in every state of the invariant.
LEMMA LogFacts == LInv => ReadsEntries /\ LogShape /\ Numbered \subseteq Entry
<1> SUFFICES ASSUME LInv PROVE ReadsEntries /\ LogShape /\ Numbered \subseteq Entry
    OBVIOUS
<1>1. ReadsEntries
    BY ReadSeqIs DEF ReadsEntries, LInv, SInv
<1>2. ASSUME NEW c \in Conv
      PROVE  /\ LogOf(c) \in Seq(SUBSET Message) /\ Len(LogOf(c)) = maxSeq[c]
             /\ \A n \in 1 .. maxSeq[c] : LogOf(c)[n] = ReadSeq(c, n)
  <2> DEFINE N == maxSeq[c]
  <2>1. N \in Nat /\ cache \subseteq Entry /\ mongo \subseteq Entry
      BY DEF LInv, SInv, TInv, TypeOK
  <2>2. \A n \in 1 .. N : ReadSeq(c, n) \in SUBSET Message
      BY <2>1 DEF ReadSeq, Entry
  <2>3. LogOf(c) \in [1 .. N -> SUBSET Message]
      BY <2>2 DEF LogOf
  <2>4. LogOf(c) \in Seq(SUBSET Message)
      BY <2>1, <2>3, SeqDef
  <2>5. Len(LogOf(c)) \in Nat /\ DOMAIN LogOf(c) = 1 .. Len(LogOf(c))
      BY <2>4, LenProperties
  <2>6. DOMAIN LogOf(c) = 1 .. N
      BY <2>3
  <2>7. Len(LogOf(c)) = N
    <3>1. ASSUME NEW m \in Nat, NEW n \in Nat, 1 .. m = 1 .. n PROVE m = n
      <4>1. m \in 1 .. m => m \in 1 .. n
          BY <3>1
      <4>2. n \in 1 .. n => n \in 1 .. m
          BY <3>1
      <4> QED BY <4>1, <4>2
    <3> HIDE DEF N, LogOf
    <3> QED BY <2>1, <2>5, <2>6, <3>1
  <2> QED BY <2>4, <2>7 DEF LogOf
<1>3. Numbered \subseteq Entry
    BY NumberedType DEF LInv, SInv, TInv
<1> QED BY <1>1, <1>2, <1>3 DEF LogShape

\* A step never changes what a seq up to MAX_SEQ returns.
LEMMA LogKept ==
    ASSUME LInv, LInv', Stays, NEW c \in Conv, NEW n \in 1 .. maxSeq[c]
    PROVE  ReadSeq(c, n)' = ReadSeq(c, n)
<1>1. ReadsEntries /\ ReadsEntries'
    BY LogFacts, PTL
<1>2. PICK e \in Entry : e.conv = c /\ e.seq = n /\ Readable(e)
    BY DEF LInv, ReadInv, LogOK
<1>3. Readable(e)'
    BY <1>2 DEF Stays, LInv, SInv, TInv, TypeOK
<1>4. ReadSeq(c, n) = {e.msg} /\ ReadSeq(c, n)' = {e.msg}
    BY <1>1, <1>2, <1>3 DEF ReadsEntries
<1> QED BY <1>4

\* While partitions do not change hands and redis and Mongo take whole batches,
\* message transfer implements the conversation log: what a reader finds up to MAX_SEQ
\* only grows at its end and is never replaced, and nothing leaves for clients or
\* Mongo under a seq where readers find something else.
THEOREM ImplementsLogHolds ==
    ASSUME OneHome, WholeBatches
    PROVE  Spec => ImplementsLog
<1>1. Init => TheLog!LogInit
  <2> SUFFICES ASSUME Init PROVE TheLog!LogInit
      OBVIOUS
  <2>1. LInv
      BY TypeInit, SeqInit, ReadInit DEF LInv, SInv
  <2>2. \A c \in Conv : maxSeq[c] = 0
      BY DEF Init
  <2>3. \A c \in Conv : LogOf(c) = <<>>
      BY <2>1, <2>2, LogFacts, EmptySeq DEF LogShape
  <2>4. Numbered = {}
    <3>1. \A p \in Partition : Len(mongoTopic[p]) = 0
        BY EmptySeq DEF Init
    <3>2. \A k \in Key : Len(pushTopic[k]) = 0
        BY EmptySeq DEF Init
    <3> QED BY <3>1, <3>2 DEF Numbered, MongoLog, PushLog
  <2> QED BY <2>3, <2>4 DEF TheLog!LogInit, LogOf
<1>2. LInv /\ LInv' /\ [Next]_vars => [TheLog!LogNext]_(TheLog!logVars)
  <2> SUFFICES ASSUME LInv, LInv', [Next]_vars
               PROVE  [TheLog!LogNext]_(TheLog!logVars)
      OBVIOUS
  <2> DEFINE log == [c \in Conv |-> LogOf(c)]
  <2>1. LogStep
      BY ReadNext DEF LInv, SInv
  <2>2. ReadsEntries /\ LogShape /\ ReadsEntries' /\ LogShape'
      BY LogFacts, PTL
  <2>3. \A c \in Conv : maxSeq[c] \in Nat /\ maxSeq'[c] \in Nat
      BY DEF LInv, SInv, TInv, TypeOK
  <2>4. \A c \in Conv : \A n \in 1 .. maxSeq[c] : ReadSeq(c, n)' = ReadSeq(c, n)
      BY <2>1, LogKept DEF LogStep
  <2>5. ASSUME NEW c \in Conv, maxSeq'[c] = maxSeq[c] PROVE LogOf(c)' = LogOf(c)
      BY <2>4, <2>5 DEF LogOf
  <2>6. CASE Tells
    <3>1. log' = log /\ Numbered \subseteq Numbered'
        BY <2>5, <2>6 DEF Tells
    <3>2. ASSUME NEW e \in Numbered' \ Numbered
          PROVE  e.seq \in 1 .. Len(log[e.conv]) /\ log[e.conv][e.seq] = {e.msg}
      <4>1. (Numbered \subseteq Entry)'
          BY LogFacts, PTL
      <4>2. e \in Entry /\ e.conv \in Conv /\ e.seq \in Nat
          BY <4>1 DEF Entry
      <4>3. e.seq # 0 /\ Readable(e)' /\ e.seq <= maxSeq'[e.conv]
          BY DEF LInv, SInv, ReadInv, SeqInv, WithinMaxSeq
      <4>4. e.seq \in 1 .. maxSeq[e.conv]
          BY <2>3, <2>6, <4>2, <4>3 DEF Tells
      <4>5. ReadSeq(e.conv, e.seq)' = {e.msg}
          BY <2>2, <4>2, <4>3 DEF ReadsEntries
      <4>6. ReadSeq(e.conv, e.seq) = {e.msg}
          BY <2>4, <4>2, <4>4, <4>5
      <4> QED BY <2>2, <4>2, <4>4, <4>6 DEF LogShape
    <3>3. TheLog!Announce
        BY <3>1, <3>2 DEF TheLog!Announce, LogOf
    <3> QED BY <3>3 DEF TheLog!LogNext
  <2>7. ASSUME NEW c \in Conv, Grown(c) PROVE TheLog!Extend(c)
    <3> DEFINE old == LogOf(c)
               new == LogOf(c)'
    <3>1. /\ old \in Seq(SUBSET Message) /\ Len(old) = maxSeq[c]
          /\ new \in Seq(SUBSET Message) /\ Len(new) = maxSeq'[c]
          /\ \A n \in 1 .. maxSeq[c] : old[n] = ReadSeq(c, n)
          /\ \A n \in 1 .. maxSeq'[c] : new[n] = ReadSeq(c, n)'
        BY <2>2 DEF LogShape
    <3>2. maxSeq[c] \in Nat /\ maxSeq'[c] \in Nat /\ maxSeq[c] < maxSeq'[c]
        BY <2>3, <2>7 DEF Grown
    <3>3. \A n \in 1 .. maxSeq'[c] : \E e \in Entry : new[n] = {e.msg}
      <4> TAKE n \in 1 .. maxSeq'[c]
      <4>1. PICK e \in Entry : e.conv = c /\ e.seq = n /\ Readable(e)'
        <5>1. LogOK'
            BY DEF LInv, ReadInv
        <5> QED BY <5>1 DEF LogOK
      <4>2. ReadSeq(c, n)' = {e.msg}
          BY <2>2, <4>1 DEF ReadsEntries
      <4> QED BY <3>1, <4>2
    <3> HIDE DEF old, new
    <3>4. SubSeq(new, 1, Len(old)) = old
      <4>1. 1 \in 1 .. Len(new) + 1 /\ Len(old) \in 0 .. Len(new)
          BY <3>1, <3>2
      <4>2. /\ SubSeq(new, 1, Len(old)) \in Seq(SUBSET Message)
            /\ Len(SubSeq(new, 1, Len(old))) = Len(old)
            /\ \A n \in 1 .. Len(old) : SubSeq(new, 1, Len(old))[n] = new[n]
          BY <3>1, <3>2, <4>1, SubSeqProperties
      <4>3. \A n \in 1 .. Len(old) : n \in 1 .. maxSeq[c] /\ n \in 1 .. maxSeq'[c]
          BY <3>1, <3>2
      <4>4. \A n \in 1 .. Len(old) : SubSeq(new, 1, Len(old))[n] = old[n]
          BY <2>4, <3>1, <4>2, <4>3
      <4> HIDE DEF LogShape
      <4> QED BY <3>1, <4>2, <4>4, SeqEqual
    <3>5. log[c] = old /\ log'[c] = new /\ \A d \in Conv \ {c} : log'[d] = log[d]
      <4>1. \A d \in Conv \ {c} : LogOf(d)' = LogOf(d)
          BY <2>5, <2>7 DEF Grown
      <4> QED BY <4>1 DEF old, new
    <3>6. TheLog!Grows(old, new)
        BY <3>1, <3>2, <3>4 DEF TheLog!Grows
    <3>7. TheLog!Holes(new) = {}
        BY <3>1, <3>3 DEF TheLog!Holes
    <3>8. UNCHANGED Numbered
        BY <2>7 DEF Grown
    <3> QED BY <3>5, <3>6, <3>7, <3>8 DEF TheLog!Extend, LogOf
  <2> QED BY <2>1, <2>6, <2>7 DEF LogStep, TheLog!LogNext
<1> QED BY <1>1, <1>2, LInvHolds, PTL DEF Spec, ImplementsLog, TheLog!LogSpec
=============================================================================
