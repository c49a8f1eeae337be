----------------------- MODULE MsgTransferOrderProofs -----------------------
(***************************************************************************)
(* What clients are told: pushes come in seq order, has-read seqs stay     *)
(* within MAX_SEQ, and a conversation is created before its first message  *)
(* leaves.  Each invariant is inductive together with the numbering of     *)
(* MsgTransferProofs; none needs redis or Mongo to take whole batches.     *)
(***************************************************************************)
EXTENDS MsgTransferLogProofs

-----------------------------------------------------------------------------
(* The shape of the steps of Run, shared by the three invariants.          *)

\* A worker state that went on in the same batch.
Moved(s, t) ==
    /\ t.b = s.b /\ t.ph = s.ph /\ t.base = s.base
    /\ t.isNew = s.isNew /\ t.err = s.err

\* A worker state outside BatchInsertChat2Cache that carries no error into it.
Fresh(t) == Quiet(t) /\ (t.err => t.pc = "modify")

\* A phase that ends leaves a fresh worker, unless the next step is the panic.
LEMMA EndPhaseFresh ==
    ASSUME NEW s \in WorkerState, WorkerOK(s), s.pc # "idle"
    PROVE  Fresh(EndPhase(s)) /\ (EndPhase(s).err => s.err)
<1>1. Quiet(EndPhase(s))
    BY EndPhaseOK DEF Quiet
<1>2. CASE s.ph = "chat"
  <2>1. ~EndPhase(s).err
      BY <1>2 DEF EndPhase, StartPhase, Idle
  <2> QED BY <1>1, <2>1 DEF Fresh
<1>3. CASE s.ph # "chat" /\ ModifyMsgList(s.b) # {}
  <2>1. EndPhase(s) = [s EXCEPT !.pc = "modify"]
      BY <1>3 DEF EndPhase
  <2>2. EndPhase(s).pc = "modify" /\ EndPhase(s).err = s.err
      BY <2>1 DEF WorkerState
  <2> QED BY <1>1, <2>2 DEF Fresh
<1>4. CASE s.ph # "chat" /\ ModifyMsgList(s.b) = {}
  <2>1. EndPhase(s) = Idle
      BY <1>4 DEF EndPhase
  <2>2. ~EndPhase(s).err
      BY <2>1 DEF Idle
  <2> QED BY <1>1, <2>2 DEF Fresh
<1> QED BY <1>2, <1>3, <1>4

\* What each step of Run makes of the state of its worker.
LEMMA RunShape ==
    ASSUME TInv, NEW w \in Worker, RunStep(w), ~Run(w), ~ModifyPanic(w),
           NEW s, s = wk[w], NEW t, t = wk'[w]
    PROVE  /\ toPushTopic(w) =>
                 /\ s.pc \in {"raw", "toPush"} /\ s.left # {}
                 /\ \/ s.pc = "toPush" /\ t = EndPhase(s)
                    \/ Moved(s, t) /\ t.pc = s.pc /\ t.left = s.left \ {Min(s.left)}
           /\ GetMaxSeq(w) =>
                 /\ s.pc = "raw"
                 /\ \/ t = EndPhase(s)
                    \/ /\ t.pc = "setMsgs" /\ t.b = s.b /\ t.ph = s.ph /\ t.err = s.err
                       /\ t.base = maxSeq[ConvOf(s)] /\ t.isNew = (t.base = 0)
           /\ SetMessageToCache(w) => s.pc = "setMsgs" /\ t.pc = "setMax" /\ Moved(s, t)
           /\ SetMaxSeq(w) =>
                 /\ s.pc = "setMax" /\ t.pc = "setRead"
                 /\ \/ Moved(s, t) /\ maxSeq' = [maxSeq EXCEPT ![ConvOf(s)] = LastOf(s)]
                    \/ "maxSeqSet" \in Fails /\ UNCHANGED maxSeq /\ t.err /\ t.b = s.b
                       /\ t.ph = s.ph /\ t.base = s.base /\ t.isNew = s.isNew
           /\ SetHasReadSeqs(w) =>
                 /\ s.pc = "setRead"
                 /\ \/ s.err /\ t = EndPhase(s)
                    \/ /\ ~s.err /\ Moved(s, t)
                       /\ t.pc = IF s.isNew /\ s.ph = "chat" THEN "create" ELSE "toMongo"
           /\ FirstCreateConversation(w) => s.pc = "create" /\ t.pc = "toMongo" /\ Moved(s, t)
           /\ MsgToMongoMQ(w) =>
                 /\ s.pc = "toMongo" /\ t.pc = "toPush" /\ Moved(s, t)
                 /\ t.left = StorageList(s.b, s.ph)
<1>1. s \in WorkerState /\ s.pc # "idle" /\ wk \in [Worker -> WorkerState]
    BY RunStepFrame DEF TInv, TypeOK
<1>2. \A u : Goto(w, u) => t = u
    BY <1>1 DEF Goto
<1>3. ASSUME toPushTopic(w)
      PROVE  /\ s.pc \in {"raw", "toPush"} /\ s.left # {}
             /\ \/ s.pc = "toPush" /\ t = EndPhase(s)
                \/ Moved(s, t) /\ t.pc = s.pc /\ t.left = s.left \ {Min(s.left)}
  <2> DEFINE u == [s EXCEPT !.left = @ \ {Min(s.left)}]
  <2>1. /\ s.pc \in {"raw", "toPush"} /\ s.left # {}
        /\ (s.pc = "toPush" /\ Goto(w, EndPhase(s))) \/ Goto(w, u)
      BY <1>3 DEF toPushTopic
  <2>2. Moved(s, u) /\ u.pc = s.pc /\ u.left = s.left \ {Min(s.left)}
      BY <1>1 DEF WorkerState, Moved
  <2> HIDE DEF u
  <2> QED BY <1>2, <2>1, <2>2
<1>4. ASSUME GetMaxSeq(w)
      PROVE  /\ s.pc = "raw"
             /\ \/ t = EndPhase(s)
                \/ /\ t.pc = "setMsgs" /\ t.b = s.b /\ t.ph = s.ph /\ t.err = s.err
                   /\ t.base = maxSeq[ConvOf(s)] /\ t.isNew = (t.base = 0)
  <2> DEFINE m == maxSeq[ConvOf(s)]
             u == [s EXCEPT !.pc = "setMsgs", !.base = m, !.isNew = (m = 0)]
  <2>1. s.pc = "raw" /\ (Goto(w, EndPhase(s)) \/ Goto(w, u))
      BY <1>4 DEF GetMaxSeq, ConvOf
  <2> HIDE DEF m
  <2>2. /\ u.pc = "setMsgs" /\ u.b = s.b /\ u.ph = s.ph /\ u.err = s.err
        /\ u.base = m /\ u.isNew = (m = 0)
      BY <1>1 DEF WorkerState
  <2> HIDE DEF u
  <2>3. CASE Goto(w, u)
    <3>1. t = u
        BY <1>2, <2>3
    <3> QED BY <2>1, <2>2, <3>1 DEF m
  <2> QED BY <1>2, <2>1, <2>3
<1>5. ASSUME SetMessageToCache(w) PROVE s.pc = "setMsgs" /\ t.pc = "setMax" /\ Moved(s, t)
  <2> DEFINE u == [s EXCEPT !.pc = "setMax"]
  <2>1. s.pc = "setMsgs" /\ Goto(w, u)
      BY <1>5 DEF SetMessageToCache
  <2>2. u.pc = "setMax" /\ Moved(s, u)
      BY <1>1 DEF WorkerState, Moved
  <2> HIDE DEF u
  <2> QED BY <1>2, <2>1, <2>2
<1>6. ASSUME SetMaxSeq(w)
      PROVE  /\ s.pc = "setMax" /\ t.pc = "setRead"
             /\ \/ Moved(s, t) /\ maxSeq' = [maxSeq EXCEPT ![ConvOf(s)] = LastOf(s)]
                \/ "maxSeqSet" \in Fails /\ UNCHANGED maxSeq /\ t.err /\ t.b = s.b
                   /\ t.ph = s.ph /\ t.base = s.base /\ t.isNew = s.isNew
  <2> DEFINE u1 == [s EXCEPT !.pc = "setRead"]
             u2 == [s EXCEPT !.pc = "setRead", !.err = TRUE]
  <2>1. /\ s.pc = "setMax"
        /\ \/ Goto(w, u1) /\ maxSeq' = [maxSeq EXCEPT ![ConvOf(s)] = LastOf(s)]
           \/ "maxSeqSet" \in Fails /\ Goto(w, u2) /\ UNCHANGED maxSeq
      BY <1>6 DEF SetMaxSeq, ConvOf, LastOf
  <2>2. u1.pc = "setRead" /\ Moved(s, u1)
      BY <1>1 DEF WorkerState, Moved
  <2>3. u2.pc = "setRead" /\ u2.err /\ u2.b = s.b /\ u2.ph = s.ph /\ u2.base = s.base
        /\ u2.isNew = s.isNew
      BY <1>1 DEF WorkerState
  <2> HIDE DEF u1, u2
  <2> QED BY <1>2, <2>1, <2>2, <2>3
<1>7. ASSUME SetHasReadSeqs(w)
      PROVE  /\ s.pc = "setRead"
             /\ \/ s.err /\ t = EndPhase(s)
                \/ /\ ~s.err /\ Moved(s, t)
                   /\ t.pc = IF s.isNew /\ s.ph = "chat" THEN "create" ELSE "toMongo"
  <2> DEFINE q == IF s.isNew /\ s.ph = "chat" THEN "create" ELSE "toMongo"
             u == [s EXCEPT !.pc = q]
  <2>1. s.pc = "setRead" /\ ((s.err /\ Goto(w, EndPhase(s))) \/ (~s.err /\ Goto(w, u)))
      BY <1>7 DEF SetHasReadSeqs
  <2> HIDE DEF q
  <2>2. u.pc = q /\ Moved(s, u)
      BY <1>1 DEF WorkerState, Moved
  <2> HIDE DEF u
  <2> QED BY <1>2, <2>1, <2>2 DEF q
<1>8. ASSUME FirstCreateConversation(w)
      PROVE  s.pc = "create" /\ t.pc = "toMongo" /\ Moved(s, t)
  <2> DEFINE u == [s EXCEPT !.pc = "toMongo"]
  <2>1. s.pc = "create" /\ Goto(w, u)
      BY <1>8 DEF FirstCreateConversation
  <2>2. u.pc = "toMongo" /\ Moved(s, u)
      BY <1>1 DEF WorkerState, Moved
  <2> HIDE DEF u
  <2> QED BY <1>2, <2>1, <2>2
<1>9. ASSUME MsgToMongoMQ(w)
      PROVE  /\ s.pc = "toMongo" /\ t.pc = "toPush" /\ Moved(s, t)
             /\ t.left = StorageList(s.b, s.ph)
  <2> DEFINE I == StorageList(s.b, s.ph)
             u == [s EXCEPT !.pc = "toPush", !.left = I]
  <2>1. s.pc = "toMongo" /\ Goto(w, u)
      BY <1>9 DEF MsgToMongoMQ
  <2> HIDE DEF I
  <2>2. u.pc = "toPush" /\ Moved(s, u) /\ u.left = I
      BY <1>1 DEF WorkerState, Moved
  <2> HIDE DEF u
  <2> QED BY <1>2, <2>1, <2>2 DEF I
<1> QED BY <1>3, <1>4, <1>5, <1>6, <1>7, <1>8, <1>9

\* A step in which no Run loop goes on in its batch: workers stay as they are, start
\* their next batch or, when a process stops, become idle.
Calm ==
    /\ UNCHANGED <<maxSeq, hasRead, created, mongoTopic, pushTopic>>
    /\ \A v \in Worker : wk'[v] = wk[v] \/ (Quiet(wk'[v]) /\ ~wk'[v].err)
    /\ MaxCrash = 0 => \A v \in Worker : wk'[v] = wk[v] \/ wk[v].pc = "idle"

\* Every step is calm or the step of one Run loop inside its batch.
LEMMA CalmOrRun ==
    ASSUME TInv, [Next]_vars
    PROVE  Calm \/ \E w \in Worker : RunStep(w) /\ ~Run(w) /\ ~ModifyPanic(w)
<1>1. CASE UNCHANGED vars
    BY <1>1 DEF Calm, vars, redisVars, mongoVars
<1>2. ASSUME NEW i \in Instance, Crash(i) PROVE Calm
  <2>1. \A v \in Worker : wk'[v] = Idle \/ wk'[v] = wk[v]
      BY <1>2 DEF Crash, Lost
  <2>2. Quiet(Idle) /\ ~Idle.err
      BY DEF Quiet, Idle
  <2>3. MaxCrash # 0
      BY <1>2 DEF Crash, TInv, TypeOK
  <2> QED BY <1>2, <2>1, <2>2, <2>3 DEF Crash, redisVars, Calm
<1>3. ASSUME NEW w \in Worker, Run(w) PROVE Calm
  <2> DEFINE b == Head(chArrays[w])
             t == StartPhase(b, "chat")
  <2>1. chArrays[w] \in Seq(Batch) /\ chArrays[w] # <<>>
      BY <1>3 DEF Run, TInv, TypeOK
  <2>2. b = chArrays[w][1] /\ b \in Batch /\ 1 \in 1 .. Len(chArrays[w])
      BY <2>1, HeadTailProperties, EmptySeq, LenProperties
  <2>3. CtxMsgList(b) # {}
      BY <2>2 DEF TInv, BatchOK
  <2>4. Quiet(t) /\ ~t.err
    <3>1. t.pc = "raw"
        BY <2>2, <2>3, StartPhaseOK DEF Phase
    <3>2. ~t.err
        BY DEF StartPhase, Idle
    <3> QED BY <3>1, <3>2 DEF Quiet
  <2>5. wk' = [wk EXCEPT ![w] = t] /\ wk[w].pc = "idle"
      BY <1>3 DEF Run, Goto
  <2> HIDE DEF t
  <2>6. \A v \in Worker : wk'[v] = wk[v] \/ (v = w /\ wk'[v] = t)
      BY <2>5 DEF TInv, TypeOK
  <2>7. UNCHANGED <<maxSeq, hasRead, created, mongoTopic, pushTopic>>
      BY <1>3 DEF Run, redisVars, mongoVars
  <2> QED BY <2>4, <2>5, <2>6, <2>7 DEF Calm
<1>4. ASSUME NEW w \in Worker, ModifyPanic(w) PROVE Calm
  <2>1. w[1] \in Instance
      BY DEF Worker
  <2> QED BY <1>2, <1>4, <2>1 DEF ModifyPanic
<1>5. ASSUME \/ \E d \in Payload : MsgToMQ(d)
             \/ \E p \in Partition : ConsumeClaim(p) \/ AutoCommit(p)
             \/ \E x \in Claim : Tick(x) \/ Distribute(x)
             \/ \E i \in Instance, k \in Key : Route(i, k)
             \/ \E p \in Partition : MongoInsert(p) \/ MongoEvict(p) \/ MongoAutoCommit(p)
             \/ \E p \in Partition, j \in Instance : Rebalance(p, j)
      PROVE  Calm
  <2>1. UNCHANGED <<wk, maxSeq, hasRead, created, mongoTopic, pushTopic>>
      BY <1>5 DEF MsgToMQ, ConsumeClaim, AutoCommit, Tick, Distribute, Route, MongoInsert,
                  MongoEvict, MongoAutoCommit, Rebalance, redisVars, mongoVars
  <2> QED BY <2>1 DEF Calm
<1> QED BY <1>1, <1>2, <1>3, <1>4, <1>5 DEF Next

\* err holds only between a failed SetMaxSeq and the end of its phase.
ErrOK(s) == s.err => s.pc \in {"setRead", "modify"} /\ "maxSeqSet" \in Fails
ErrInv == \A w \in Worker : ErrOK(wk[w])

\* Every step keeps the error of SetMaxSeq where it belongs.
LEMMA ErrNext ==
    ASSUME TInv, ErrInv, [Next]_vars
    PROVE  ErrInv'
<1>1. CASE Calm
    BY <1>1 DEF Calm, ErrInv, ErrOK
<1>2. ASSUME NEW w \in Worker, RunStep(w), ~Run(w), ~ModifyPanic(w) PROVE ErrInv'
  <2> DEFINE s == wk[w]
             t == wk'[w]
  <2>1. s \in WorkerState /\ WorkerOK(s) /\ s.pc # "idle" /\ ErrOK(s)
      BY <1>2, RunStepFrame DEF TInv, TypeOK, BatchOK, ErrInv
  <2>2. \A v \in Worker : v # w => wk'[v] = wk[v]
      BY <1>2, RunStepFrame
  <2>3. ErrOK(EndPhase(s))
      BY <2>1, EndPhaseFresh DEF Fresh, ErrOK
  <2>4. ErrOK(t)
    <3> HIDE DEF s, t
    <3>1. CASE toPushTopic(w)
        BY <1>2, <2>1, <2>3, <3>1, RunShape DEF ErrOK, Moved, s, t
    <3>2. CASE GetMaxSeq(w)
        BY <1>2, <2>1, <2>3, <3>2, RunShape DEF ErrOK, s, t
    <3>3. CASE SetMessageToCache(w)
        BY <1>2, <2>1, <3>3, RunShape DEF ErrOK, Moved, s, t
    <3>4. CASE SetMaxSeq(w)
        BY <1>2, <2>1, <3>4, RunShape DEF ErrOK, Moved, s, t
    <3>5. CASE SetHasReadSeqs(w)
        BY <1>2, <2>1, <2>3, <3>5, RunShape DEF ErrOK, Moved, s, t
    <3>6. CASE FirstCreateConversation(w)
        BY <1>2, <2>1, <3>6, RunShape DEF ErrOK, Moved, s, t
    <3>7. CASE MsgToMongoMQ(w)
        BY <1>2, <2>1, <3>7, RunShape DEF ErrOK, Moved, s, t
    <3> QED BY <1>2, <3>1, <3>2, <3>3, <3>4, <3>5, <3>6, <3>7 DEF RunStep
  <2> QED BY <2>2, <2>4 DEF ErrInv, ErrOK
<1> QED BY <1>1, <1>2, CalmOrRun

-----------------------------------------------------------------------------
(* The order of pushes. What a worker has still to push comes after        *)
(* everything that was ever pushed of its conversation.                    *)

PushSeqOf(s, j) == s.base + Rank(StorageList(s.b, s.ph), j)

PushOK(s) ==
    s.pc = "toPush" =>
        \A e \in PushLog : e.conv = ConvOf(s) /\ e.seq # 0 =>
            \A j \in s.left : e.seq < PushSeqOf(s, j)

PushInv == PushInSeqOrder /\ \A w \in Worker : PushOK(wk[w])

\* The push topic grows by one entry at the end of the log of one key.
LEMMA PushGrows ==
    ASSUME TypeOK, NEW k \in Key, NEW e \in Entry,
           pushTopic' = [pushTopic EXCEPT ![k] = Append(@, e)]
    PROVE  /\ \A f \in PushLog' : f \in PushLog \/ f = e
           /\ PushInSeqOrder /\ (\A f \in PushLog : f.conv = e.conv /\ f.seq # 0 /\ e.seq # 0
                                                      => f.seq < e.seq)
                  => PushInSeqOrder'
<1>1. pushTopic[k] \in Seq(Entry)
    BY DEF TypeOK
<1> DEFINE old == Len(pushTopic[k])
           new == Append(pushTopic[k], e)
<1>2. /\ old \in Nat /\ Len(new) = old + 1
      /\ \A n \in 1 .. old : new[n] = pushTopic[k][n]
      /\ new[old + 1] = e
    BY <1>1, AppendProperties, LenProperties
<1>3. pushTopic'[k] = new /\ \A h \in Key : h # k => pushTopic'[h] = pushTopic[h]
    BY DEF TypeOK
<1> HIDE DEF old, new
<1>4. \A n \in 1 .. Len(new) : n \in 1 .. old \/ n = old + 1
    BY <1>2
<1>5. \A n \in 1 .. old : pushTopic[k][n] \in PushLog
    BY DEF PushLog, old
<1>6. \A f \in PushLog' : f \in PushLog \/ f = e
  <2> SUFFICES ASSUME NEW h \in Key, NEW n \in 1 .. Len(pushTopic'[h])
               PROVE  pushTopic'[h][n] \in PushLog \/ pushTopic'[h][n] = e
      BY DEF PushLog
  <2>1. CASE h # k
      BY <1>3, <2>1 DEF PushLog
  <2>2. CASE h = k
      BY <1>2, <1>3, <1>4, <1>5, <2>2
  <2> QED BY <2>1, <2>2
<1>7. ASSUME PushInSeqOrder,
             \A f \in PushLog : f.conv = e.conv /\ f.seq # 0 /\ e.seq # 0 => f.seq < e.seq
      PROVE  PushInSeqOrder'
  <2> SUFFICES ASSUME NEW h \in Key, NEW m \in 1 .. Len(pushTopic'[h]),
                      NEW n \in 1 .. Len(pushTopic'[h]), m < n,
                      pushTopic'[h][m].conv = pushTopic'[h][n].conv,
                      pushTopic'[h][m].seq # 0, pushTopic'[h][n].seq # 0
               PROVE  pushTopic'[h][m].seq < pushTopic'[h][n].seq
      BY DEF PushInSeqOrder
  <2>1. CASE h # k
      BY <1>3, <1>7, <2>1 DEF PushInSeqOrder
  <2>2. CASE h = k /\ n \in 1 .. old
    <3>1. m \in 1 .. old
        BY <1>2, <2>2
    <3>2. /\ pushTopic'[h][m] = pushTopic[k][m] /\ pushTopic'[h][n] = pushTopic[k][n]
          /\ m \in 1 .. Len(pushTopic[k]) /\ n \in 1 .. Len(pushTopic[k])
        BY <1>2, <1>3, <2>2, <3>1 DEF old
    <3> QED BY <1>7, <3>2 DEF PushInSeqOrder
  <2>3. CASE h = k /\ n = old + 1
    <3>1. m \in 1 .. old
        BY <1>2, <1>3, <1>4, <2>3
    <3>2. pushTopic'[h][m] = pushTopic[k][m] /\ pushTopic'[h][n] = e
        BY <1>2, <1>3, <2>3, <3>1
    <3>3. pushTopic[k][m] \in PushLog
        BY <1>5, <3>1
    <3> QED BY <1>7, <3>2, <3>3
  <2> QED BY <1>3, <1>4, <2>1, <2>2, <2>3
<1> QED BY <1>6, <1>7

\* Every step of Run keeps the pushes in order.
LEMMA PushRunStep ==
    ASSUME SInv, PushInv, NEW w \in Worker, RunStep(w), ~Run(w), ~ModifyPanic(w)
    PROVE  PushInv'
<1> DEFINE s == wk[w]
           t == wk'[w]
           c == ConvOf(s)
           I == StorageList(s.b, s.ph)
<1>1. /\ s.pc # "idle" /\ s \in WorkerState /\ WorkerOK(s) /\ SeqOK(s) /\ PushOK(s)
      /\ \A v \in Worker : v # w => wk'[v] = wk[v]
    BY RunStepFrame DEF SInv, TInv, TypeOK, BatchOK, SeqInv, PushInv
<1>2. TInv /\ TypeOK /\ Routing
    BY DEF SInv, TInv
<1>3. /\ s.b \in Batch /\ s.ph \in Phase /\ s.base \in Nat /\ c \in Conv /\ s.b.key \in Key
      /\ I \subseteq Nat /\ IsFiniteSet(I) /\ s.left \subseteq Nat
      /\ \A j \in CtxMsgList(s.b) : s.b.msgs[j] \in Message
    BY <1>1, <1>2, WorkerFacts, BatchProperties DEF ConvOf, Batch, WorkerState
<1>4. Quiet(EndPhase(s))
    BY <1>1, EndPhaseOK DEF Quiet
<1>5. \A j \in I : Rank(I, j) \in Nat /\ Rank(I, j) >= 1
    BY <1>3, RankProperties
<1>6. ASSUME NEW e \in Entry, e.conv = c, toPushTopic(w), e.seq = PushSeq(s, Min(s.left)),
             pushTopic' = [pushTopic EXCEPT ![s.b.key] = Append(@, e)]
      PROVE  PushInv'
  <2> DEFINE j == Min(s.left)
  <2>1. s.pc \in {"raw", "toPush"} /\ s.left # {} /\ j \in s.left /\ \A k \in s.left : j <= k
      BY <1>2, <1>3, <1>6, RunShape, MinInSet
  <2>2. \A f \in PushLog : f.conv = e.conv /\ f.seq # 0 /\ e.seq # 0 => f.seq < e.seq
    <3>1. CASE s.pc = "raw"
        BY <1>6, <3>1 DEF PushSeq
    <3>2. CASE s.pc = "toPush"
        BY <1>1, <1>6, <2>1, <3>2 DEF PushSeq, PushOK, PushSeqOf
    <3> QED BY <2>1, <3>1, <3>2
  <2>3. PushInSeqOrder' /\ \A f \in PushLog' : f \in PushLog \/ f = e
      BY <1>2, <1>3, <1>6, <2>2, PushGrows DEF PushInv
  <2>4. PushOK(wk[w])'
    <3>1. Quiet(t) \/ (s.pc = "toPush" /\ Moved(s, t) /\ t.pc = "toPush" /\ t.left = s.left \ {j})
        BY <1>2, <1>4, <1>6, RunShape DEF Quiet
    <3>2. CASE Quiet(t)
        BY <3>2 DEF PushOK, Quiet
    <3>3. CASE s.pc = "toPush" /\ Moved(s, t) /\ t.pc = "toPush" /\ t.left = s.left \ {j}
      <4>1. e.seq = s.base + Rank(I, j) /\ s.left \subseteq I
          BY <1>1, <1>6, <3>3 DEF PushSeq, WorkerOK
      <4>2. \A k \in t.left : k \in I /\ j < k
        <5> HIDE DEF j, t, s
        <5> QED BY <1>3, <2>1, <3>3, <4>1
      <4>3. \A k \in t.left : e.seq < s.base + Rank(I, k)
        <5>1. \A k \in t.left : Rank(I, j) < Rank(I, k)
            BY <1>3, <2>1, <4>1, <4>2, RankOrder
        <5>2. j \in I
            BY <2>1, <4>1
        <5>3. ASSUME NEW k \in t.left PROVE e.seq < s.base + Rank(I, k)
          <6>1. Rank(I, j) < Rank(I, k) /\ Rank(I, j) \in Nat /\ Rank(I, k) \in Nat
              BY <1>5, <4>2, <5>1, <5>2
          <6>2. e.seq = s.base + Rank(I, j) /\ s.base \in Nat
              BY <1>3, <4>1
          <6> HIDE DEF j, t, s, I
          <6> QED BY <6>1, <6>2
        <5> QED BY <5>3
      <4>4. \A f \in PushLog : f.conv = c /\ f.seq # 0 =>
               \A k \in t.left : f.seq < s.base + Rank(I, k)
          BY <1>1, <3>3 DEF PushOK, PushSeqOf
      <4>5. ConvOf(t) = c /\ \A k : PushSeqOf(t, k) = s.base + Rank(I, k)
          BY <3>3 DEF Moved, ConvOf, PushSeqOf
      <4>6. \A f \in PushLog' : f.conv = ConvOf(t) /\ f.seq # 0 =>
               \A k \in t.left : f.seq < PushSeqOf(t, k)
        <5> HIDE DEF t, s, c, I, j
        <5> QED BY <2>3, <4>3, <4>4, <4>5
      <4> QED BY <4>6 DEF PushOK, ConvOf, PushSeqOf
    <3> QED BY <3>1, <3>2, <3>3
  <2>5. ASSUME NEW v \in Worker, v # w PROVE PushOK(wk[v])'
    <3>1. PushOK(wk[v]) /\ wk'[v] = wk[v]
        BY <1>1, <2>5 DEF PushInv
    <3>2. CASE wk[v].pc # "toPush"
        BY <3>1, <3>2 DEF PushOK
    <3>3. CASE wk[v].pc = "toPush"
      <4>1. ConvOf(wk[v]) # c
          BY <1>1, <1>2, <2>5, <3>3, OwnConversations
      <4>2. \A f \in PushLog' : f.conv = ConvOf(wk[v]) => f \in PushLog
          BY <1>6, <2>3, <4>1
      <4> QED BY <3>1, <3>3, <4>2 DEF PushOK, ConvOf, PushSeqOf
    <3> QED BY <3>2, <3>3
  <2> QED BY <2>3, <2>4, <2>5 DEF PushInv
<1>7. ASSUME UNCHANGED pushTopic PROVE PushInv'
  <2>1. PushLog' = PushLog /\ (PushInSeqOrder' <=> PushInSeqOrder)
      BY <1>7 DEF PushLog, PushInSeqOrder
  <2>2. PushOK(wk[w])'
    <3>1. CASE MsgToMongoMQ(w)
      <4>1. s.pc = "toMongo" /\ Moved(s, t) /\ t.left = I
          BY <1>2, <3>1, RunShape
      <4>2. \A e \in Numbered : e.conv = c => e.seq <= s.base
          BY <1>1, <4>1 DEF SeqOK, Assigned
      <4>3. \A e \in PushLog : e.seq # 0 => e \in Numbered /\ e.seq \in Nat
          BY <1>2, NumberedType DEF Numbered, Entry
      <4>4. ConvOf(t) = c /\ \A k : PushSeqOf(t, k) = s.base + Rank(I, k)
          BY <4>1 DEF Moved, ConvOf, PushSeqOf
      <4>5. \A e \in PushLog : e.conv = c /\ e.seq # 0 =>
               \A k \in t.left : e.seq < s.base + Rank(I, k)
        <5> SUFFICES ASSUME NEW e \in PushLog, e.conv = c, e.seq # 0, NEW k \in t.left
                     PROVE  e.seq < s.base + Rank(I, k)
            OBVIOUS
        <5>1. e.seq <= s.base /\ e.seq \in Nat
            BY <4>2, <4>3
        <5>2. Rank(I, k) \in Nat /\ Rank(I, k) >= 1 /\ s.base \in Nat
            BY <1>3, <1>5, <4>1
        <5> HIDE DEF s, I
        <5> QED BY <5>1, <5>2
      <4>6. \A e \in PushLog : e.conv = ConvOf(t) /\ e.seq # 0 =>
               \A k \in t.left : e.seq < PushSeqOf(t, k)
          BY <4>4, <4>5
      <4> QED BY <2>1, <4>6 DEF PushOK, ConvOf, PushSeqOf
    <3>2. CASE ~MsgToMongoMQ(w)
      <4>1. t.pc # "toPush" \/ (toPushTopic(w) /\ s.pc = "toPush" /\ Moved(s, t) /\ t.left = s.left \ {Min(s.left)})
        <5> HIDE DEF s, t
        <5> QED BY <1>2, <1>4, <3>2, RunShape DEF RunStep, Quiet, s, t
      <4>2. CASE t.pc # "toPush"
          BY <4>2 DEF PushOK
      <4>3. CASE s.pc = "toPush" /\ Moved(s, t) /\ t.left = s.left \ {Min(s.left)}
        <5>1. ConvOf(t) = c /\ \A k : PushSeqOf(t, k) = PushSeqOf(s, k)
            BY <4>3 DEF Moved, ConvOf, PushSeqOf
        <5>2. \A e \in PushLog : e.conv = ConvOf(t) /\ e.seq # 0 =>
               \A k \in t.left : e.seq < PushSeqOf(t, k)
            BY <1>1, <4>3, <5>1 DEF PushOK
        <5> QED BY <2>1, <5>2 DEF PushOK, ConvOf, PushSeqOf
      <4> QED BY <4>1, <4>2, <4>3
    <3> QED BY <3>1, <3>2
  <2>3. \A v \in Worker : v # w => PushOK(wk[v])'
      BY <1>1, <2>1 DEF PushInv, PushOK, ConvOf, PushSeqOf
  <2> QED BY <2>1, <2>2, <2>3 DEF PushInv
<1>8. CASE toPushTopic(w)
  <2> DEFINE j == Min(s.left)
             e == [conv |-> c, seq |-> PushSeq(s, j), msg |-> s.b.msgs[j]]
  <2>1. UNCHANGED pushTopic \/ pushTopic' = [pushTopic EXCEPT ![s.b.key] = Append(@, e)]
      BY <1>8 DEF toPushTopic, Push, ConvOf
  <2>2. s.pc \in {"raw", "toPush"} /\ s.left # {} /\ j \in s.left
      BY <1>2, <1>3, <1>8, RunShape, MinInSet
  <2>3. s.b.msgs[j] \in Message
      BY <1>1, <1>3, <2>2 DEF WorkerOK
  <2>4. PushSeq(s, j) \in Nat
    <3>1. CASE s.pc = "raw"
        BY <3>1 DEF PushSeq
    <3>2. CASE s.pc = "toPush"
      <4>1. j \in I
          BY <1>1, <2>2, <3>2 DEF WorkerOK
      <4> QED BY <1>3, <1>5, <3>2, <4>1 DEF PushSeq
    <3> QED BY <2>2, <3>1, <3>2
  <2>5. e \in Entry /\ e.conv = c /\ e.seq = PushSeq(s, j)
      BY <1>3, <2>3, <2>4 DEF Entry
  <2> HIDE DEF e
  <2> QED BY <1>6, <1>7, <1>8, <2>1, <2>5
<1>9. CASE ~toPushTopic(w)
    BY <1>7, <1>9 DEF RunStep, GetMaxSeq, SetMessageToCache, SetMaxSeq, SetHasReadSeqs,
                      FirstCreateConversation, MsgToMongoMQ
<1> QED BY <1>8, <1>9

\* While partitions do not change hands, the stored messages of a conversation enter
\* the push topic in seq order, whatever calls fail and whenever processes crash.
THEOREM PushInSeqOrderHolds ==
    ASSUME OneHome
    PROVE  Spec => []PushInSeqOrder
<1>1. Init => PushInv
  <2> SUFFICES ASSUME Init PROVE PushInv
      OBVIOUS
  <2>1. \A w \in Worker : wk[w].pc = "idle"
      BY DEF Init, Idle
  <2>2. \A k \in Key : Len(pushTopic[k]) = 0
      BY EmptySeq DEF Init
  <2> QED BY <2>1, <2>2 DEF PushInv, PushOK, PushInSeqOrder
<1>2. SInv /\ PushInv /\ [Next]_vars => PushInv'
  <2> SUFFICES ASSUME SInv, PushInv, [Next]_vars PROVE PushInv'
      OBVIOUS
  <2>1. CASE Calm
    <3>1. PushLog' = PushLog /\ (PushInSeqOrder' <=> PushInSeqOrder)
        BY <2>1 DEF Calm, PushLog, PushInSeqOrder
    <3>2. \A v \in Worker : wk'[v] = wk[v] \/ wk'[v].pc # "toPush"
        BY <2>1 DEF Calm, Quiet
    <3> QED BY <3>1, <3>2 DEF PushInv, PushOK, ConvOf, PushSeqOf
  <2> QED BY <2>1, CalmOrRun, PushRunStep DEF SInv
<1>3. PushInv => PushInSeqOrder
    BY DEF PushInv
<1> QED BY <1>1, <1>2, <1>3, SInvHolds, PTL DEF Spec

-----------------------------------------------------------------------------
(* Has-read seqs.                                                          *)

\* Senders are marked up to a seq of their batch, which MAX_SEQ covers already.
LEMMA HasReadStep ==
    ASSUME SInv, ErrInv, "maxSeqSet" \notin Fails, HasReadWithinMax,
           NEW w \in Worker, SetHasReadSeqs(w)
    PROVE  HasReadWithinMax'
<1> DEFINE s == wk[w]
           c == ConvOf(s)
           es == Entries(s.b, s.ph, s.base)
           senders == {e.msg.data.from : e \in es}
           seqs(u) == {e.seq : e \in {f \in es : f.msg.data.from = u}}
<1>1. s.pc = "setRead" /\ UNCHANGED maxSeq
    BY DEF SetHasReadSeqs
<1>2. PICK done \in SUBSET senders :
         hasRead' = [x \in Conv \X User |->
             IF x[1] = c /\ x[2] \in done THEN Max(seqs(x[2])) ELSE hasRead[x]]
    BY DEF SetHasReadSeqs, ConvOf
<1>3. TInv /\ SeqOK(s) /\ ~s.err
    BY DEF SInv, SeqInv, ErrInv, ErrOK
<1>4. /\ c \in Conv /\ s.base \in Nat /\ Cardinality(StorageList(s.b, s.ph)) \in Nat
      /\ es \subseteq Entry
      /\ \A e \in es : e.seq \in s.base + 1 .. LastOf(s)
    BY <1>1, <1>3, WorkerFacts, EntriesProperties DEF ConvOf, LastOf
<1>5. LastOf(s) <= maxSeq[c] /\ LastOf(s) \in Nat /\ maxSeq[c] \in Nat
    BY <1>1, <1>3, <1>4 DEF SeqOK, Assigned, LastOf, TInv, TypeOK
<1>6. ASSUME NEW u \in senders PROVE Max(seqs(u)) <= maxSeq[c]
  <2>1. PICK e \in es : e.msg.data.from = u
      OBVIOUS
  <2>2. seqs(u) # {}
      BY <2>1
  <2>3. \A n \in seqs(u) : n \in Nat /\ n <= LastOf(s)
    <3> HIDE DEF es, s
    <3> QED BY <1>4, <1>5
  <2>4. seqs(u) \subseteq Nat
      BY <2>3
  <2> HIDE DEF seqs
  <2>5. Max(seqs(u)) \in seqs(u)
      BY <1>5, <2>2, <2>3, <2>4, MaxInSet
  <2>6. Max(seqs(u)) \in Nat /\ Max(seqs(u)) <= LastOf(s)
      BY <2>3, <2>5
  <2> QED BY <1>5, <2>6
<1>7. ASSUME NEW d \in Conv, NEW u \in User PROVE hasRead'[<<d, u>>] <= maxSeq'[d]
  <2>1. <<d, u>> \in Conv \X User /\ <<d, u>>[1] = d /\ <<d, u>>[2] = u
      OBVIOUS
  <2> HIDE DEF seqs, senders, c
  <2>2. hasRead'[<<d, u>>] = IF d = c /\ u \in done THEN Max(seqs(u)) ELSE hasRead[<<d, u>>]
      BY <1>2, <2>1
  <2>3. CASE d = c /\ u \in done
      BY <1>1, <1>6, <2>2, <2>3
  <2>4. CASE ~(d = c /\ u \in done)
      BY <1>1, <2>2, <2>4 DEF HasReadWithinMax
  <2> QED BY <2>3, <2>4
<1> QED BY <1>7 DEF HasReadWithinMax

\* While partitions do not change hands and SetMaxSeq does not fail, the has-read seq
\* of a sender never runs ahead of MAX_SEQ. After a failed SetMaxSeq it does: the code
\* sets the has-read seqs before it looks at that error.
THEOREM HasReadWithinMaxHolds ==
    ASSUME OneHome, "maxSeqSet" \notin Fails
    PROVE  Spec => []HasReadWithinMax
<1>1. Init => ErrInv /\ HasReadWithinMax
  <2> SUFFICES ASSUME Init PROVE ErrInv /\ HasReadWithinMax
      OBVIOUS
  <2>1. \A w \in Worker : ~wk[w].err
      BY DEF Init, Idle
  <2>2. \A d \in Conv, u \in User : hasRead[<<d, u>>] = 0 /\ maxSeq[d] = 0
      BY DEF Init
  <2> QED BY <2>1, <2>2 DEF ErrInv, ErrOK, HasReadWithinMax
<1>2. SInv /\ ErrInv /\ HasReadWithinMax /\ [Next]_vars => ErrInv' /\ HasReadWithinMax'
  <2> SUFFICES ASSUME SInv, ErrInv, HasReadWithinMax, [Next]_vars
               PROVE  ErrInv' /\ HasReadWithinMax'
      OBVIOUS
  <2>1. ErrInv'
      BY ErrNext DEF SInv
  <2>2. ASSUME UNCHANGED hasRead PROVE HasReadWithinMax'
    <3>1. \A d \in Conv : maxSeq'[d] >= maxSeq[d]
        BY SeqNext DEF SInv
    <3>2. TypeOK /\ TypeOK'
        BY TypeNext DEF SInv, TInv
    <3> SUFFICES ASSUME NEW d \in Conv, NEW u \in User PROVE hasRead'[<<d, u>>] <= maxSeq'[d]
        BY DEF HasReadWithinMax
    <3>3. /\ hasRead[<<d, u>>] \in Nat /\ maxSeq[d] \in Nat /\ maxSeq'[d] \in Nat
          /\ hasRead[<<d, u>>] <= maxSeq[d] /\ hasRead'[<<d, u>>] = hasRead[<<d, u>>]
        BY <2>2, <3>2 DEF TypeOK, HasReadWithinMax
    <3> QED BY <3>1, <3>3
  <2>3. CASE Calm
      BY <2>1, <2>2, <2>3 DEF Calm
  <2>4. ASSUME NEW w \in Worker, RunStep(w), ~Run(w), ~ModifyPanic(w)
        PROVE  HasReadWithinMax'
    <3>1. CASE SetHasReadSeqs(w)
        BY <3>1, HasReadStep
    <3>2. CASE ~SetHasReadSeqs(w)
      <4>1. UNCHANGED hasRead
          BY <2>4, <3>2 DEF RunStep, toPushTopic, GetMaxSeq, SetMessageToCache, SetMaxSeq,
                            FirstCreateConversation, MsgToMongoMQ, redisVars
      <4> QED BY <2>2, <4>1
    <3> QED BY <3>1, <3>2
  <2> QED BY <2>1, <2>3, <2>4, CalmOrRun DEF SInv
<1> QED BY <1>1, <1>2, SInvHolds, PTL DEF Spec

\* A step of Run sends away at most entries of its own numbered batch.
LEMMA NumberedRun ==
    ASSUME TInv, NEW w \in Worker, RunStep(w), ~Run(w), ~ModifyPanic(w), NEW f \in Numbered'
    PROVE  \/ f \in Numbered
           \/ /\ wk[w].pc \in {"toMongo", "toPush"} /\ f.conv = ConvOf(wk[w])
              /\ f \in Entries(wk[w].b, wk[w].ph, wk[w].base)
<1> DEFINE s == wk[w]
           es == Entries(s.b, s.ph, s.base)
<1>1. s.pc # "idle" /\ s \in WorkerState /\ WorkerOK(s) /\ TypeOK
    BY RunStepFrame DEF TInv, BatchOK
<1>2. /\ s.b \in Batch /\ s.ph \in Phase /\ s.base \in Nat /\ s.b.key \in Key
      /\ PartOf[s.b.key] \in Partition /\ ConvOf(s) \in Conv
      /\ es \subseteq Entry /\ \A e \in es : e.conv = ConvOf(s)
      /\ \A j \in CtxMsgList(s.b) : s.b.msgs[j] \in Message
      /\ StorageList(s.b, s.ph) \subseteq Nat /\ IsFiniteSet(StorageList(s.b, s.ph))
    BY <1>1, WorkerFacts, EntriesProperties, BatchProperties DEF ConvOf, Batch
<1>3. CASE toPushTopic(w)
  <2> DEFINE j == Min(s.left)
             e == [conv |-> ConvOf(s), seq |-> PushSeq(s, j), msg |-> s.b.msgs[j]]
  <2>1. s.pc \in {"raw", "toPush"} /\ s.left # {} /\ s.left \subseteq Nat
      BY <1>1, <1>3, RunShape DEF WorkerState
  <2>2. j \in s.left
      BY <2>1, MinInSet
  <2>3. UNCHANGED mongoTopic
        /\ (UNCHANGED pushTopic \/ pushTopic' = [pushTopic EXCEPT ![s.b.key] = Append(@, e)])
      BY <1>3 DEF toPushTopic, Push, ConvOf, mongoVars
  <2>4. e \in Entry /\ e.conv = ConvOf(s) /\ (s.pc = "raw" => e.seq = 0)
        /\ (s.pc = "toPush" => e \in es)
    <3>1. PushSeq(s, j) \in Nat /\ (s.pc = "raw" => PushSeq(s, j) = 0)
      <4>1. CASE s.pc = "raw"
          BY <4>1 DEF PushSeq
      <4>2. CASE s.pc = "toPush"
        <5>1. j \in StorageList(s.b, s.ph)
            BY <1>1, <2>2, <4>2 DEF WorkerOK
        <5>2. Rank(StorageList(s.b, s.ph), j) \in Nat
            BY <1>2, <5>1, RankProperties
        <5> QED BY <1>2, <4>2, <5>2 DEF PushSeq
      <4> QED BY <2>1, <4>1, <4>2
    <3>2. s.b.msgs[j] \in Message
        BY <1>1, <1>2, <2>2 DEF WorkerOK
    <3>3. ASSUME s.pc = "toPush" PROVE e \in es
      <4>1. j \in StorageList(s.b, s.ph)
          BY <1>1, <2>2, <3>3 DEF WorkerOK
      <4>2. e = [conv |-> ConversationOf(s.b, s.ph),
                 seq |-> s.base + Rank(StorageList(s.b, s.ph), j), msg |-> s.b.msgs[j]]
          BY <3>3 DEF PushSeq, ConvOf
      <4> QED BY <4>1, <4>2 DEF Entries
    <3> QED BY <1>2, <3>1, <3>2, <3>3 DEF Entry
  <2> HIDE DEF e
  <2>5. CASE UNCHANGED pushTopic
      BY <2>3, <2>5 DEF Numbered, MongoLog, PushLog
  <2>6. CASE pushTopic' = [pushTopic EXCEPT ![s.b.key] = Append(@, e)]
    <3>1. f \in Numbered \/ (f = e /\ e.seq # 0)
        BY <1>1, <1>2, <2>3, <2>4, <2>6, NumberedPush
    <3> QED BY <2>1, <2>4, <3>1
  <2> QED BY <2>3, <2>5, <2>6
<1>4. CASE MsgToMongoMQ(w)
  <2>1. /\ s.pc = "toMongo" /\ UNCHANGED pushTopic
        /\ \/ UNCHANGED mongoTopic
           \/ mongoTopic' = [mongoTopic EXCEPT ![PartOf[s.b.key]] = Append(@, es)]
      BY <1>4 DEF MsgToMongoMQ
  <2> HIDE DEF es
  <2>2. CASE UNCHANGED mongoTopic
      BY <2>1, <2>2 DEF Numbered, MongoLog, PushLog
  <2>3. CASE mongoTopic' = [mongoTopic EXCEPT ![PartOf[s.b.key]] = Append(@, es)]
    <3>1. f \in Numbered \/ f \in es
        BY <1>1, <1>2, <2>1, <2>3, NumberedMongo
    <3> QED BY <1>2, <2>1, <3>1 DEF es
  <2> QED BY <2>1, <2>2, <2>3
<1>5. CASE ~toPushTopic(w) /\ ~MsgToMongoMQ(w)
  <2>1. UNCHANGED <<mongoTopic, pushTopic>>
      BY <1>5 DEF RunStep, GetMaxSeq, SetMessageToCache, SetMaxSeq, SetHasReadSeqs,
                  FirstCreateConversation, mongoVars
  <2> QED BY <2>1 DEF Numbered, MongoLog, PushLog
<1> QED BY <1>3, <1>4, <1>5

-----------------------------------------------------------------------------
(* The creation of conversations. A chat with a MAX_SEQ is created, or the *)
(* one worker that found it without a MAX_SEQ is about to create it.       *)

Creates(s, c) ==
    /\ s.ph = "chat" /\ ConvOf(s) = c
    /\ (s.pc = "setRead" /\ ~s.err /\ s.isNew) \/ s.pc = "create"

CreatedOK(s) ==
    s.ph = "chat" =>
        /\ s.pc \in {"setMsgs", "setMax", "setRead"} =>
              /\ s.isNew = (s.base = 0)
              /\ s.base # 0 => ConvOf(s) \in created
        /\ s.pc \in {"toMongo", "toPush"} => ConvOf(s) \in created

CreatedInv ==
    /\ CreatedBeforePush
    /\ \A w \in Worker : CreatedOK(wk[w])
    /\ \A c \in Conv : c.type # "n" /\ maxSeq[c] # 0 /\ c \notin created =>
           \E w \in Worker : Creates(wk[w], c)

\* handleNotification numbers conversations of the notification type, handleMsg others.
LEMMA ConversationType ==
    ASSUME NEW b \in Batch, CtxMsgList(b) # {}, NEW ph \in Phase
    PROVE  ConversationOf(b, ph).type = "n" <=> ph = "notif"
<1>1. CtxMsgList(b) \subseteq Nat /\ \A j \in CtxMsgList(b) : b.msgs[j] \in Message
    BY BatchProperties
<1>2. Min(CtxMsgList(b)) \in CtxMsgList(b)
    BY <1>1, MinInSet
<1> DEFINE m == b.msgs[Min(CtxMsgList(b))]
<1>3. m \in Message
    BY <1>1, <1>2
<1>4. m.data \in PayloadType
    BY <1>3, TransferAssumption DEF Message
<1>5. m.data.session \in Session
    BY <1>4 DEF PayloadType
<1>6. m.data.session # "n"
    BY <1>5 DEF Session
<1> HIDE DEF m
<1>7. /\ GetChatConversationIDByMsg(m).type = m.data.session
      /\ GetNotificationConversationIDByMsg(m).type = "n"
    BY DEF GetChatConversationIDByMsg, GetNotificationConversationIDByMsg
<1>8. ConversationOf(b, ph) = IF ph = "chat" THEN GetChatConversationIDByMsg(m)
                                             ELSE GetNotificationConversationIDByMsg(m)
    BY DEF ConversationOf, m
<1>9. ph = "chat" \/ ph = "notif"
    BY DEF Phase
<1> QED BY <1>6, <1>7, <1>8, <1>9

\* A step of Run keeps conversations created before their messages leave.
LEMMA CreatedRunStep ==
    ASSUME SInv, ErrInv, CreatedInv, "create" \notin Fails,
           NEW w \in Worker, RunStep(w), ~Run(w), ~ModifyPanic(w)
    PROVE  CreatedInv'
<1> DEFINE s == wk[w]
           t == wk'[w]
           c == ConvOf(s)
<1>1. /\ s.pc # "idle" /\ s \in WorkerState /\ WorkerOK(s) /\ SeqOK(s) /\ ErrOK(s) /\ CreatedOK(s)
      /\ \A v \in Worker : v # w => wk'[v] = wk[v]
    BY RunStepFrame DEF SInv, TInv, TypeOK, BatchOK, SeqInv, ErrInv, CreatedInv
<1>2. TInv /\ TypeOK /\ Routing
    BY DEF SInv, TInv
<1>3. /\ s.b \in Batch /\ s.ph \in Phase /\ s.base \in Nat /\ c \in Conv
      /\ CtxMsgList(s.b) # {}
    BY <1>1, <1>2, WorkerFacts DEF ConvOf
<1>4. c.type = "n" <=> s.ph = "notif"
    BY <1>3, ConversationType DEF ConvOf
<1>5. s.ph = "chat" \/ s.ph = "notif"
    BY <1>3 DEF Phase
<1>6. Quiet(EndPhase(s))
    BY <1>1, EndPhaseOK DEF Quiet
<1>7. created \subseteq created'
    BY DEF RunStep, toPushTopic, GetMaxSeq, SetMessageToCache, SetMaxSeq, SetHasReadSeqs,
           FirstCreateConversation, MsgToMongoMQ, redisVars
\* who else is creating c cannot be another worker
<1>8. \A v \in Worker : v # w => ~Creates(wk[v], c)
    BY <1>1, <1>2, OwnConversations DEF Creates
<1>9. CreatedBeforePush'
  <2>1. ASSUME NEW f \in Numbered' PROVE f \in Numbered \/ (s.pc \in {"toMongo", "toPush"} /\ f.conv = c)
      BY <1>1, <1>2, <2>1, NumberedRun DEF ConvOf
  <2>2. s.pc \in {"toMongo", "toPush"} /\ c.type # "n" => c \in created
      BY <1>1, <1>4, <1>5 DEF CreatedOK
  <2> QED BY <1>7, <2>1, <2>2 DEF CreatedBeforePush, CreatedInv
<1>10. CreatedOK(wk[w])' /\ (Creates(s, c) => Creates(t, c) \/ c \in created')
       /\ (\/ UNCHANGED maxSeq
           \/ /\ maxSeq' = [maxSeq EXCEPT ![c] = LastOf(s)]
              /\ s.ph = "chat" => c \in created \/ Creates(t, c))
  <2>1. CASE toPushTopic(w)
    <3>1. /\ s.pc \in {"raw", "toPush"}
          /\ Quiet(t) \/ (Moved(s, t) /\ t.pc = s.pc)
        BY <1>2, <1>6, <2>1, RunShape
    <3>2. UNCHANGED <<maxSeq, created>>
        BY <2>1 DEF toPushTopic, redisVars
    <3>3. ~Creates(s, c)
        BY <3>1 DEF Creates
    <3>4. CreatedOK(wk[w])'
        BY <1>1, <3>1, <3>2 DEF CreatedOK, Quiet, Moved, ConvOf
    <3> QED BY <3>2, <3>3, <3>4
  <2>2. CASE GetMaxSeq(w)
    <3>1. /\ s.pc = "raw"
          /\ \/ Quiet(t)
             \/ /\ t.pc = "setMsgs" /\ t.b = s.b /\ t.ph = s.ph
                /\ t.base = maxSeq[c] /\ t.isNew = (t.base = 0)
        BY <1>2, <1>6, <2>2, RunShape
    <3>2. UNCHANGED <<maxSeq, created>>
        BY <2>2 DEF GetMaxSeq, redisVars
    <3>3. ~Creates(s, c)
        BY <3>1 DEF Creates
    <3>4. s.ph = "chat" /\ maxSeq[c] # 0 => c \in created
        BY <1>3, <1>4, <1>8, <3>3 DEF CreatedInv
    <3>5. CreatedOK(wk[w])'
        BY <3>1, <3>2, <3>4 DEF CreatedOK, Quiet, ConvOf
    <3> QED BY <3>2, <3>3, <3>5
  <2>3. CASE SetMessageToCache(w)
    <3>1. s.pc = "setMsgs" /\ t.pc = "setMax" /\ Moved(s, t)
        BY <1>2, <2>3, RunShape
    <3>2. UNCHANGED <<maxSeq, created>>
        BY <2>3 DEF SetMessageToCache
    <3>3. ~Creates(s, c)
        BY <3>1 DEF Creates
    <3>4. CreatedOK(wk[w])'
        BY <1>1, <3>1, <3>2 DEF CreatedOK, Moved, ConvOf
    <3> QED BY <3>2, <3>3, <3>4
  <2>4. CASE SetMaxSeq(w)
    <3>1. /\ s.pc = "setMax" /\ t.pc = "setRead" /\ t.b = s.b /\ t.ph = s.ph
          /\ t.base = s.base /\ t.isNew = s.isNew
          /\ \/ t.err = s.err /\ maxSeq' = [maxSeq EXCEPT ![c] = LastOf(s)]
             \/ UNCHANGED maxSeq
        BY <1>2, <2>4, RunShape DEF Moved
    <3>2. UNCHANGED created
        BY <2>4 DEF SetMaxSeq
    <3>3. ~Creates(s, c) /\ ~s.err
        BY <1>1, <3>1 DEF Creates, ErrOK
    <3>4. CreatedOK(wk[w])'
        BY <1>1, <3>1, <3>2 DEF CreatedOK, ConvOf
    <3>5. ConvOf(t) = c
        BY <3>1 DEF ConvOf
    <3>6. s.ph = "chat" /\ ~t.err => c \in created \/ Creates(t, c)
        BY <1>1, <3>1, <3>5 DEF CreatedOK, Creates
    <3> QED BY <3>1, <3>3, <3>4, <3>6
  <2>5. CASE SetHasReadSeqs(w)
    <3>1. /\ s.pc = "setRead"
          /\ \/ s.err /\ Quiet(t)
             \/ /\ ~s.err /\ Moved(s, t)
                /\ t.pc = IF s.isNew /\ s.ph = "chat" THEN "create" ELSE "toMongo"
        BY <1>2, <1>6, <2>5, RunShape
    <3>2. UNCHANGED <<maxSeq, created>>
        BY <2>5 DEF SetHasReadSeqs
    <3>3. CreatedOK(wk[w])'
        BY <1>1, <3>1, <3>2 DEF CreatedOK, Quiet, Moved, ConvOf
    <3>4. Creates(s, c) => Creates(t, c)
        BY <3>1 DEF Creates, Moved, ConvOf
    <3> QED BY <3>2, <3>3, <3>4
  <2>6. CASE FirstCreateConversation(w)
    <3>1. s.pc = "create" /\ t.pc = "toMongo" /\ Moved(s, t)
        BY <1>2, <2>6, RunShape
    <3>2. UNCHANGED maxSeq /\ c \in created'
        BY <2>6 DEF FirstCreateConversation, ConvOf
    <3>3. CreatedOK(wk[w])'
        BY <3>1, <3>2 DEF CreatedOK, Moved, ConvOf
    <3> QED BY <3>2, <3>3
  <2>7. CASE MsgToMongoMQ(w)
    <3>1. s.pc = "toMongo" /\ t.pc = "toPush" /\ Moved(s, t)
        BY <1>2, <2>7, RunShape
    <3>2. UNCHANGED <<maxSeq, created>>
        BY <2>7 DEF MsgToMongoMQ, redisVars
    <3>3. ~Creates(s, c)
        BY <3>1 DEF Creates
    <3>4. CreatedOK(wk[w])'
        BY <1>1, <3>1, <3>2 DEF CreatedOK, Moved, ConvOf
    <3> QED BY <3>2, <3>3, <3>4
  <2> QED BY <2>1, <2>2, <2>3, <2>4, <2>5, <2>6, <2>7 DEF RunStep
<1>11. \A v \in Worker : CreatedOK(wk[v])'
  <2> SUFFICES ASSUME NEW v \in Worker, v # w PROVE CreatedOK(wk[v])'
      BY <1>10
  <2>1. CreatedOK(wk[v]) /\ wk'[v] = wk[v]
      BY <1>1 DEF CreatedInv
  <2> QED BY <1>7, <2>1 DEF CreatedOK, ConvOf
<1>12. ASSUME NEW d \in Conv, d.type # "n", maxSeq'[d] # 0, d \notin created'
       PROVE  \E v \in Worker : Creates(wk'[v], d)
  <2>1. CASE maxSeq[d] # 0
    <3>1. PICK v \in Worker : Creates(wk[v], d)
        BY <1>7, <1>12, <2>1 DEF CreatedInv
    <3>2. CASE v # w
        BY <1>1, <3>1, <3>2
    <3>3. CASE v = w
      <4>1. d = c
          BY <3>1, <3>3 DEF Creates
      <4> QED BY <1>10, <1>12, <3>1, <3>3, <4>1
    <3> QED BY <3>2, <3>3
  <2>2. CASE maxSeq[d] = 0
    <3>1. d = c /\ (s.ph = "chat" => c \in created \/ Creates(t, c))
        BY <1>2, <1>3, <1>10, <1>12, <2>2 DEF TypeOK
    <3>2. s.ph = "chat"
        BY <1>4, <1>5, <1>12, <3>1
    <3> QED BY <1>7, <1>12, <3>1, <3>2
  <2> QED BY <2>1, <2>2
<1> QED BY <1>9, <1>11, <1>12 DEF CreatedInv, Creates, ConvOf

\* While partitions do not change hands, no process crashes and creating does not fail,
\* no stored message of a chat leaves before its conversation exists for its users.
THEOREM CreatedBeforePushHolds ==
    ASSUME OneHome, MaxCrash = 0, "create" \notin Fails
    PROVE  Spec => []CreatedBeforePush
<1>1. Init => ErrInv /\ CreatedInv
  <2> SUFFICES ASSUME Init PROVE ErrInv /\ CreatedInv
      OBVIOUS
  <2>1. \A w \in Worker : ~wk[w].err /\ wk[w].pc = "idle"
      BY DEF Init, Idle
  <2>2. /\ \A p \in Partition : Len(mongoTopic[p]) = 0
        /\ \A k \in Key : Len(pushTopic[k]) = 0
      BY EmptySeq DEF Init
  <2>3. Numbered = {}
      BY <2>2 DEF Numbered, MongoLog, PushLog
  <2>4. \A d \in Conv : maxSeq[d] = 0
      BY DEF Init
  <2> QED BY <2>1, <2>3, <2>4 DEF ErrInv, ErrOK, CreatedInv, CreatedOK, CreatedBeforePush
<1>2. SInv /\ ErrInv /\ CreatedInv /\ [Next]_vars => ErrInv' /\ CreatedInv'
  <2> SUFFICES ASSUME SInv, ErrInv, CreatedInv, [Next]_vars PROVE ErrInv' /\ CreatedInv'
      OBVIOUS
  <2>1. ErrInv'
      BY ErrNext DEF SInv
  <2>2. CASE Calm
    <3>1. Numbered' = Numbered /\ UNCHANGED <<maxSeq, created>>
        BY <2>2 DEF Calm, Numbered, MongoLog, PushLog
    <3>2. \A v \in Worker : wk'[v] = wk[v] \/ (wk[v].pc = "idle" /\ Quiet(wk'[v]))
        BY <2>2 DEF Calm
    <3>3. \A v \in Worker : CreatedOK(wk[v])'
        BY <3>1, <3>2 DEF CreatedInv, CreatedOK, Quiet, ConvOf
    <3>4. \A v \in Worker : \A d \in Conv : Creates(wk[v], d) => Creates(wk[v], d)'
        BY <3>2 DEF Creates, ConvOf
    <3>5. CreatedBeforePush'
        BY <3>1 DEF CreatedInv, CreatedBeforePush
    <3> QED BY <2>1, <3>1, <3>3, <3>4, <3>5 DEF CreatedInv
  <2> QED BY <2>1, <2>2, CalmOrRun, CreatedRunStep DEF SInv
<1>3. CreatedInv => CreatedBeforePush
    BY DEF CreatedInv
<1> QED BY <1>1, <1>2, <1>3, SInvHolds, PTL DEF Spec
=============================================================================
