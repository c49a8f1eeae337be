------------------------- MODULE MsgTransferProofs -------------------------
(***************************************************************************)
(* Proofs about MsgTransfer, for any number of processes, partitions,      *)
(* keys, channels and messages, any set of calls that may fail and any     *)
(* number of crashes.                                                      *)
(***************************************************************************)
EXTENDS MsgTransfer, NatSets, TLAPS, FiniteSetTheorems, SequenceTheorems, WellFoundedInduction

-----------------------------------------------------------------------------
(* Positions and ranks.                                                    *)

\* The rank of a position in a finite set of positions lies between 1 and the size
\* of the set, and two positions have different ranks.
LEMMA RankProperties ==
    ASSUME NEW I, I \subseteq Nat, IsFiniteSet(I)
    PROVE  /\ Cardinality(I) \in Nat
           /\ \A j \in I : Rank(I, j) \in 1 .. Cardinality(I)
           /\ \A j, k \in I : Rank(I, j) = Rank(I, k) => j = k
BY UptoRanks DEF Rank, Upto

\* In a batch with at least one message of its key, the lists are finite sets of
\* positions, the conversation is one of the key, and numbering is one to one.
LEMMA BatchProperties ==
    ASSUME NEW b \in Batch, CtxMsgList(b) # {}, NEW ph \in Phase
    PROVE  /\ ConversationOf(b, ph) \in Conv
           /\ ConversationOf(b, ph).key = b.key
           /\ CtxMsgList(b) \subseteq Nat
           /\ \A j \in CtxMsgList(b) : b.msgs[j] \in Message
           /\ StorageList(b, ph) \subseteq CtxMsgList(b)
           /\ NotStorageList(b, ph) \subseteq CtxMsgList(b)
           /\ IsFiniteSet(StorageList(b, ph))
           /\ Cardinality(StorageList(b, ph)) \in Nat
<1> DEFINE J == CtxMsgList(b)
<1>1. b.msgs \in Seq(Message) /\ b.key \in Key
    BY DEF Batch
<1>2. DOMAIN b.msgs = 1 .. Len(b.msgs) /\ Len(b.msgs) \in Nat
    BY <1>1, LenProperties
<1>3. J \subseteq 1 .. Len(b.msgs) /\ J \subseteq Nat
    BY <1>2 DEF CtxMsgList
<1>4. \A j \in J : b.msgs[j] \in Message
    BY <1>1, <1>3, ElementOfSeq
<1>5. Min(J) \in J
    BY <1>3, MinInSet
<1>6. b.msgs[Min(J)] \in Message /\ b.msgs[Min(J)].data.key = b.key
    BY <1>4, <1>5 DEF CtxMsgList
<1>7. b.msgs[Min(J)].data.session \in Session
    BY <1>6, TransferAssumption DEF Message, PayloadType
<1>8. ConversationOf(b, ph) \in Conv /\ ConversationOf(b, ph).key = b.key
    BY <1>1, <1>6, <1>7 DEF ConversationOf, GetChatConversationIDByMsg,
                            GetNotificationConversationIDByMsg, Conv, Sorted
<1>9. StorageList(b, ph) \subseteq J /\ NotStorageList(b, ph) \subseteq J
    BY DEF StorageList, NotStorageList
<1>10. IsFiniteSet(1 .. Len(b.msgs))
    BY <1>2, FS_Interval
<1>11. IsFiniteSet(StorageList(b, ph))
    BY <1>3, <1>9, <1>10, FS_Subset
<1> QED BY <1>3, <1>4, <1>8, <1>9, <1>11, FS_CardinalityType

\* The numbered messages of a batch take the seqs base + 1 .. base + n, one each.
LEMMA EntriesProperties ==
    ASSUME NEW b \in Batch, CtxMsgList(b) # {}, NEW ph \in Phase, NEW base \in Nat
    PROVE  /\ Entries(b, ph, base) \subseteq Entry
           /\ \A e \in Entries(b, ph, base) :
                 /\ e.conv = ConversationOf(b, ph)
                 /\ e.seq \in base + 1 .. base + Cardinality(StorageList(b, ph))
           /\ \A e, f \in Entries(b, ph, base) : e.seq = f.seq => e = f
           /\ \A j \in StorageList(b, ph) :
                 /\ base + Rank(StorageList(b, ph), j) \in Nat \ {0}
                 /\ [conv |-> ConversationOf(b, ph),
                     seq |-> base + Rank(StorageList(b, ph), j),
                     msg |-> b.msgs[j]] \in Entries(b, ph, base)
<1> DEFINE I == StorageList(b, ph)
           n == Cardinality(I)
           c == ConversationOf(b, ph)
<1>1. I \subseteq Nat /\ IsFiniteSet(I) /\ \A j \in I : b.msgs[j] \in Message
    BY BatchProperties
<1>2. n \in Nat /\ \A j \in I : Rank(I, j) \in 1 .. n
    BY <1>1, RankProperties
<1>3. \A j, k \in I : Rank(I, j) = Rank(I, k) => j = k
    BY <1>1, RankProperties
<1>4. c \in Conv
    BY BatchProperties
<1>5. \A j \in I : base + Rank(I, j) \in base + 1 .. base + n /\ base + Rank(I, j) \in Nat \ {0}
    BY <1>2
<1>6. \A j, k \in I : base + Rank(I, j) = base + Rank(I, k) => j = k
    BY <1>2, <1>3
<1> HIDE DEF I, n, c
<1>7. Entries(b, ph, base) =
        {[conv |-> c, seq |-> base + Rank(I, j), msg |-> b.msgs[j]] : j \in I}
    BY DEF Entries, I, c
<1>8. Entries(b, ph, base) \subseteq Entry
    BY <1>1, <1>4, <1>5, <1>7 DEF Entry
<1>9. \A e \in Entries(b, ph, base) : e.conv = c /\ e.seq \in base + 1 .. base + n
    BY <1>5, <1>7
<1>10. \A e, f \in Entries(b, ph, base) : e.seq = f.seq => e = f
    BY <1>6, <1>7
<1>11. \A j \in I : [conv |-> c, seq |-> base + Rank(I, j), msg |-> b.msgs[j]]
                      \in Entries(b, ph, base)
    BY <1>7
<1> QED BY <1>5, <1>8, <1>9, <1>10, <1>11 DEF I, n, c

-----------------------------------------------------------------------------
(* Type correctness. Batches must be known to hold a message of their key, *)
(* or the conversation taken from their first message is no conversation.  *)

WorkerOK(s) ==
    /\ s.pc # "idle" => CtxMsgList(s.b) # {}
    /\ s.left \subseteq CtxMsgList(s.b)
    /\ s.pc = "toPush" => s.left \subseteq StorageList(s.b, s.ph)

BatchOK ==
    /\ \A i \in Instance : \A k \in agg[i].keys :
          CtxMsgList([key |-> k, msgs |-> agg[i].msgs]) # {}
    /\ \A w \in Worker : \A n \in 1 .. Len(chArrays[w]) : CtxMsgList(chArrays[w][n]) # {}
    /\ \A w \in Worker : WorkerOK(wk[w])

TInv == TypeOK /\ BatchOK

\* The idle state of a Run loop is a worker state.
LEMMA IdleOK == Idle \in WorkerState /\ WorkerOK(Idle)
<1>1. (CHOOSE k \in Key : TRUE) \in Key
    BY TransferAssumption
<1>2. [key |-> CHOOSE k \in Key : TRUE, msgs |-> <<>>] \in Batch
    BY <1>1, EmptySeq DEF Batch
<1>3. Idle \in WorkerState
    BY <1>2 DEF Idle, WorkerState, Pc, Phase
<1>4. Idle.pc = "idle" /\ Idle.left = {}
    BY DEF Idle
<1> QED BY <1>3, <1>4 DEF WorkerOK

\* Starting to handle one half of a batch gives a worker state.
LEMMA StartPhaseOK ==
    ASSUME NEW b \in Batch, CtxMsgList(b) # {}, NEW ph \in Phase
    PROVE  /\ StartPhase(b, ph) \in WorkerState /\ WorkerOK(StartPhase(b, ph))
           /\ StartPhase(b, ph).pc = "raw" /\ StartPhase(b, ph).b = b
<1>1. StartPhase(b, ph) = [Idle EXCEPT !.pc = "raw", !.b = b, !.ph = ph,
                                       !.left = NotStorageList(b, ph)]
    BY DEF StartPhase
<1>2. NotStorageList(b, ph) \subseteq CtxMsgList(b) /\ CtxMsgList(b) \subseteq Nat
    BY BatchProperties
<1>3. StartPhase(b, ph) = [pc |-> "raw", b |-> b, ph |-> ph, base |-> 0, isNew |-> FALSE,
                           err |-> FALSE, left |-> NotStorageList(b, ph)]
    BY <1>1 DEF Idle
<1>4. StartPhase(b, ph) \in WorkerState
    BY <1>2, <1>3 DEF WorkerState, Pc
<1> QED BY <1>2, <1>3, <1>4 DEF WorkerOK

\* Leaving one half of a batch gives a worker state that is ready for what follows.
LEMMA EndPhaseOK ==
    ASSUME NEW s \in WorkerState, WorkerOK(s), s.pc # "idle"
    PROVE  /\ EndPhase(s) \in WorkerState /\ WorkerOK(EndPhase(s))
           /\ EndPhase(s).pc \in {"idle", "raw", "modify"}
           /\ EndPhase(s).pc # "idle" => EndPhase(s).b = s.b
<1>1. s.b \in Batch /\ CtxMsgList(s.b) # {} /\ "notif" \in Phase
    BY DEF WorkerState, WorkerOK, Phase
<1>2. CASE s.ph = "chat"
    BY <1>1, <1>2, StartPhaseOK DEF EndPhase
<1>3. CASE s.ph # "chat" /\ ModifyMsgList(s.b) # {}
  <2>1. EndPhase(s) = [s EXCEPT !.pc = "modify"]
      BY <1>3 DEF EndPhase
  <2>2. EndPhase(s) \in WorkerState /\ EndPhase(s).pc = "modify" /\ EndPhase(s).b = s.b
        /\ EndPhase(s).left = s.left
      BY <2>1 DEF WorkerState, Pc
  <2> QED BY <1>1, <2>2 DEF WorkerOK
<1>4. CASE s.ph # "chat" /\ ModifyMsgList(s.b) = {}
  <2>1. EndPhase(s) = Idle
      BY <1>4 DEF EndPhase
  <2>2. Idle.pc = "idle"
      BY DEF Idle
  <2> QED BY <2>1, <2>2, IdleOK
<1> QED BY <1>2, <1>3, <1>4

\* A worker that moves to a worker state leaves all workers in worker states.
LEMMA GotoOK ==
    ASSUME wk \in [Worker -> WorkerState], \A v \in Worker : WorkerOK(wk[v]),
           NEW w \in Worker, NEW s \in WorkerState, WorkerOK(s), Goto(w, s)
    PROVE  wk' \in [Worker -> WorkerState] /\ \A v \in Worker : WorkerOK(wk'[v])
<1>1. wk' = [wk EXCEPT ![w] = s]
    BY DEF Goto
<1>2. \A v \in Worker : wk'[v] = IF v = w THEN s ELSE wk[v]
    BY <1>1
<1> QED BY <1>1, <1>2

\* The initial state is well typed.
LEMMA TypeInit == Init => TInv
<1> SUFFICES ASSUME Init PROVE TInv
    OBVIOUS
<1>1. \A w \in Worker : wk[w] = Idle
    BY DEF Init
<1>2. wk \in [Worker -> WorkerState] /\ \A w \in Worker : WorkerOK(wk[w])
    BY <1>1, IdleOK DEF Init
<1>3. TypeOK
  <2>1. \A S : <<>> \in Seq(S)
      BY EmptySeq
  <2>2. 0 \in 0 .. MaxRebalance
      BY TransferAssumption
  <2> QED BY <1>2, <2>1, <2>2 DEF Init, TypeOK
<1>4. BatchOK
  <2>1. \A i \in Instance : agg[i].keys = {}
      BY DEF Init
  <2>2. \A w \in Worker : Len(chArrays[w]) = 0
      BY EmptySeq DEF Init
  <2> QED BY <1>2, <2>1, <2>2 DEF BatchOK
<1> QED BY <1>3, <1>4 DEF TInv

\* What a stopping process leaves behind is well typed.
LEMMA TypeCrash ==
    ASSUME TInv, NEW i \in Instance, Crash(i)
    PROVE  TInv'
<1> USE DEF TInv
<1>1. cMsg' \in [Claim -> Seq(Message)] /\ ccMsg' \in [Claim -> Seq(Message)]
    BY EmptySeq DEF Crash, Lost, TypeOK
<1>2. agg' = [agg EXCEPT ![i] = [msgs |-> <<>>, keys |-> {}]]
    BY DEF Crash, Lost
<1>3. agg' \in [Instance -> [msgs : Seq(Message), keys : SUBSET Key]]
    BY <1>2, EmptySeq DEF TypeOK
<1>4. \A j \in Instance : \A k \in agg'[j].keys : j # i /\ agg'[j] = agg[j]
    BY <1>2 DEF TypeOK
<1>5. \A w \in Worker : chArrays'[w] = <<>> \/ chArrays'[w] = chArrays[w]
    BY DEF Crash, Lost
<1>6. chArrays' \in [Worker -> Seq(Batch)]
    BY EmptySeq DEF Crash, Lost, TypeOK
<1>7. \A w \in Worker : wk'[w] = Idle \/ wk'[w] = wk[w]
    BY DEF Crash, Lost
<1>8. wk' \in [Worker -> WorkerState] /\ \A w \in Worker : WorkerOK(wk'[w])
    BY <1>7, IdleOK DEF Crash, Lost, TypeOK, BatchOK
<1>9. \A p \in Partition : /\ Restart(committed[p], topic[p]) \in Nat
                           /\ Restart(mcommitted[p], mongoTopic[p]) \in Nat
    BY LenProperties DEF Restart, TypeOK
<1>10. pos' \in [Partition -> Nat] /\ mpos' \in [Partition -> Nat]
       /\ marked' \in [Partition -> Nat] /\ mmarked' \in [Partition -> Nat]
       /\ mpc' \in [Partition -> {"idle", "evict"}]
    BY <1>9 DEF Crash, Lost, TypeOK
<1>11. crashes' \in Nat
    BY DEF Crash, TypeOK
<1>12. UNCHANGED <<topic, owner, committed, maxSeq, cache, hasRead, created, mongoTopic,
                   mcommitted, mongo, pushTopic, gen>>
    BY DEF Crash, redisVars
<1>13. TypeOK'
    BY <1>1, <1>3, <1>6, <1>8, <1>10, <1>11, <1>12 DEF TypeOK
<1>14. \A w \in Worker : \A n \in 1 .. Len(chArrays'[w]) : CtxMsgList(chArrays'[w][n]) # {}
    BY <1>5, EmptySeq DEF BatchOK
<1>15. BatchOK'
    BY <1>4, <1>8, <1>14 DEF BatchOK
<1> QED BY <1>13, <1>15

\* The steps before a worker's batch keep the state well typed.
LEMMA TypeQueues ==
    ASSUME TInv
    PROVE  /\ \A d \in Payload : MsgToMQ(d) => TInv'
           /\ \A p \in Partition : ConsumeClaim(p) \/ AutoCommit(p) => TInv'
           /\ \A x \in Claim : Tick(x) \/ Distribute(x) => TInv'
           /\ \A i \in Instance, k \in Key : Route(i, k) => TInv'
           /\ \A p \in Partition, j \in Instance : Rebalance(p, j) => TInv'
<1> USE DEF TInv
<1>1. ASSUME NEW d \in Payload, MsgToMQ(d) PROVE TInv'
  <2> DEFINE p == PartOf[d.key]
             m == [off |-> Len(topic[p]) + 1, data |-> d]
  <2>1. p \in Partition /\ topic[p] \in Seq(Message) /\ Len(topic[p]) \in Nat
      BY TransferAssumption, LenProperties DEF TypeOK, PayloadType
  <2>2. m \in Message
      BY <2>1 DEF Message
  <2>3. topic' \in [Partition -> Seq(Message)]
      BY <1>1, <2>1, <2>2, AppendProperties DEF MsgToMQ, TypeOK
  <2>4. TypeOK'
      BY <1>1, <2>3 DEF MsgToMQ, TypeOK, bufVars, redisVars, mongoVars
  <2>5. BatchOK'
      BY <1>1 DEF MsgToMQ, BatchOK, bufVars
  <2> QED BY <2>4, <2>5
<1>2. ASSUME NEW p \in Partition, ConsumeClaim(p) PROVE TInv'
  <2> DEFINE x == <<owner[p], p, gen[p]>>
  <2>1. x \in Claim /\ cMsg[x] \in Seq(Message) /\ topic[p] \in Seq(Message)
      BY DEF TypeOK, Claim
  <2>2. pos[p] + 1 \in 1 .. Len(topic[p])
      BY <1>2, <2>1, LenProperties DEF ConsumeClaim, TypeOK
  <2>3. topic[p][pos[p] + 1] \in Message
      BY <2>1, <2>2, ElementOfSeq
  <2>4. Append(cMsg[x], topic[p][pos[p] + 1]) \in Seq(Message)
      BY <2>1, <2>3, AppendProperties
  <2>5. cMsg' \in [Claim -> Seq(Message)]
      BY <1>2, <2>1, <2>4 DEF ConsumeClaim, TypeOK
  <2>6. pos' \in [Partition -> Nat] /\ marked' \in [Partition -> Nat]
      BY <1>2 DEF ConsumeClaim, TypeOK
  <2>7. TypeOK'
      BY <1>2, <2>5, <2>6 DEF ConsumeClaim, TypeOK, redisVars, mongoVars
  <2>8. BatchOK'
      BY <1>2 DEF ConsumeClaim, BatchOK
  <2> QED BY <2>7, <2>8
<1>3. ASSUME NEW p \in Partition, AutoCommit(p) PROVE TInv'
  <2>1. committed' \in [Partition -> Nat]
      BY <1>3 DEF AutoCommit, TypeOK
  <2>2. TypeOK'
      BY <1>3, <2>1 DEF AutoCommit, TypeOK, bufVars, redisVars, mongoVars
  <2>3. BatchOK'
      BY <1>3 DEF AutoCommit, BatchOK, bufVars
  <2> QED BY <2>2, <2>3
<1>4. ASSUME NEW x \in Claim, Tick(x) PROVE TInv'
  <2>1. cMsg' \in [Claim -> Seq(Message)] /\ ccMsg' \in [Claim -> Seq(Message)]
      BY <1>4, EmptySeq DEF Tick, TypeOK
  <2>2. TypeOK'
      BY <1>4, <2>1 DEF Tick, TypeOK, kafkaVars, redisVars, mongoVars
  <2>3. BatchOK'
      BY <1>4 DEF Tick, BatchOK
  <2> QED BY <2>2, <2>3
<1>5. ASSUME NEW x \in Claim, Distribute(x) PROVE TInv'
  <2> DEFINE i == x[1]
             q == ccMsg[x]
             n == IF Len(q) < Split THEN Len(q) ELSE Split
             slice == SubSeq(q, 1, n)
             keys == {slice[j].data.key : j \in 1 .. n}
  <2>1. i \in Instance /\ q \in Seq(Message) /\ Len(q) \in Nat
      BY LenProperties DEF TypeOK, Claim
  <2>2. n \in Nat /\ n <= Len(q)
      BY <2>1, TransferAssumption
  <2>3. \A j \in 1 .. Len(q) : q[j] \in Message
      BY <2>1, ElementOfSeq
  <2> HIDE DEF n, q, i
  <2>4. slice \in Seq(Message) /\ Len(slice) = n /\ \A j \in 1 .. n : slice[j] \in Message
    <3>1. \A j \in 1 .. n : q[j] \in Message
        BY <2>1, <2>2, <2>3
    <3>2. slice \in Seq(Message) /\ Len(slice) = IF 1 <= n THEN n - 1 + 1 ELSE 0
        BY <2>2, <3>1, SubSeqProperties
    <3>3. Len(slice) = n
        BY <2>2, <3>2
    <3> QED BY <3>2, <3>3, ElementOfSeq
  <2>5. SubSeq(q, n + 1, Len(q)) \in Seq(Message)
      BY <2>1, <2>2, <2>3, SubSeqProperties
  <2> HIDE DEF slice
  <2>6. keys \subseteq Key
      BY <2>4, TransferAssumption DEF Message, PayloadType
  <2>7. agg' = [agg EXCEPT ![i] = [msgs |-> slice, keys |-> keys]]
        /\ ccMsg' = [ccMsg EXCEPT ![x] = SubSeq(q, n + 1, Len(q))]
      BY <1>5 DEF Distribute, slice, n, q, i
  <2> HIDE DEF keys
  <2>8. agg' \in [Instance -> [msgs : Seq(Message), keys : SUBSET Key]]
        /\ ccMsg' \in [Claim -> Seq(Message)]
      BY <2>1, <2>4, <2>5, <2>6, <2>7 DEF TypeOK
  <2>9. TypeOK'
      BY <1>5, <2>8 DEF Distribute, TypeOK, kafkaVars, redisVars, mongoVars
  <2>10. \A k \in keys : CtxMsgList([key |-> k, msgs |-> slice]) # {}
    <3> TAKE k \in keys
    <3>1. PICK j \in 1 .. n : k = slice[j].data.key
        BY DEF keys
    <3>2. j \in DOMAIN slice
        BY <2>4, LenProperties
    <3> QED BY <3>1, <3>2 DEF CtxMsgList
  <2>11. \A j \in Instance : agg'[j] = IF j = i THEN [msgs |-> slice, keys |-> keys] ELSE agg[j]
      BY <2>7 DEF TypeOK
  <2>12. \A j \in Instance : \A k \in agg'[j].keys :
            CtxMsgList([key |-> k, msgs |-> agg'[j].msgs]) # {}
      BY <2>10, <2>11 DEF BatchOK
  <2>13. BatchOK'
      BY <1>5, <2>12 DEF Distribute, BatchOK
  <2> QED BY <2>9, <2>13
<1>6. ASSUME NEW i \in Instance, NEW k \in Key, Route(i, k) PROVE TInv'
  <2> DEFINE w == <<i, ChanOf[k]>>
             b == [key |-> k, msgs |-> agg[i].msgs]
  <2>1. w \in Worker /\ b \in Batch /\ chArrays[w] \in Seq(Batch) /\ CtxMsgList(b) # {}
      BY <1>6, TransferAssumption DEF Route, TypeOK, BatchOK, Worker, Batch
  <2>2. chArrays' = [chArrays EXCEPT ![w] = Append(chArrays[w], b)]
      BY <1>6 DEF Route
  <2>3. /\ Append(chArrays[w], b) \in Seq(Batch)
        /\ Len(Append(chArrays[w], b)) = Len(chArrays[w]) + 1
        /\ \A n \in 1 .. Len(chArrays[w]) : Append(chArrays[w], b)[n] = chArrays[w][n]
        /\ Append(chArrays[w], b)[Len(chArrays[w]) + 1] = b
        /\ Len(chArrays[w]) \in Nat
      BY <2>1, AppendProperties, LenProperties
  <2> HIDE DEF w, b
  <2>4. chArrays' \in [Worker -> Seq(Batch)]
      BY <2>1, <2>2, <2>3 DEF TypeOK
  <2>5. \A n \in 1 .. Len(Append(chArrays[w], b)) : CtxMsgList(Append(chArrays[w], b)[n]) # {}
    <3> TAKE n \in 1 .. Len(Append(chArrays[w], b))
    <3>1. n \in 1 .. Len(chArrays[w]) \/ n = Len(chArrays[w]) + 1
        BY <2>3
    <3>2. \A m \in 1 .. Len(chArrays[w]) : CtxMsgList(chArrays[w][m]) # {}
        BY <2>1 DEF BatchOK
    <3> QED BY <2>1, <2>3, <3>1, <3>2
  <2>6. \A v \in Worker : \A n \in 1 .. Len(chArrays'[v]) : CtxMsgList(chArrays'[v][n]) # {}
      BY <2>1, <2>2, <2>5 DEF TypeOK, BatchOK
  <2> DEFINE a == IF agg[i].keys = {k} THEN [msgs |-> <<>>, keys |-> {}]
                  ELSE [msgs |-> agg[i].msgs, keys |-> agg[i].keys \ {k}]
  <2>12. agg' = [agg EXCEPT ![i] = a]
      BY <1>6 DEF Route
  <2>13. agg[i] \in [msgs : Seq(Message), keys : SUBSET Key]
      BY DEF TypeOK
  <2>14. a \in [msgs : Seq(Message), keys : SUBSET Key]
      BY <2>13, EmptySeq
  <2>15. a.keys = {} \/ (a.keys \subseteq agg[i].keys /\ a.msgs = agg[i].msgs)
      BY <2>13
  <2> HIDE DEF a
  <2>7. agg' \in [Instance -> [msgs : Seq(Message), keys : SUBSET Key]]
      BY <2>12, <2>14 DEF TypeOK
  <2>8. \A j \in Instance :
           \/ agg'[j].keys = {}
           \/ agg'[j].keys \subseteq agg[j].keys /\ agg'[j].msgs = agg[j].msgs
      BY <2>12, <2>15 DEF TypeOK
  <2>9. TypeOK'
      BY <1>6, <2>4, <2>7 DEF Route, TypeOK, kafkaVars, redisVars, mongoVars
  <2>10. \A j \in Instance : \A kk \in agg'[j].keys :
            CtxMsgList([key |-> kk, msgs |-> agg'[j].msgs]) # {}
      BY <2>8 DEF BatchOK
  <2>11. BatchOK'
      BY <1>6, <2>6, <2>10 DEF Route, BatchOK
  <2> QED BY <2>9, <2>11
<1>7. ASSUME NEW p \in Partition, NEW j \in Instance, Rebalance(p, j) PROVE TInv'
  <2>0. Restart(marked[p], topic[p]) \in Nat /\ Restart(mmarked[p], mongoTopic[p]) \in Nat
      BY LenProperties DEF Restart, TypeOK
  <2>1. /\ owner' \in [Partition -> Instance] /\ committed' \in [Partition -> Nat]
        /\ pos' \in [Partition -> Nat] /\ mpos' \in [Partition -> Nat]
        /\ mcommitted' \in [Partition -> Nat]
      BY <1>7, <2>0 DEF Rebalance, TypeOK
  <2>2. gen[p] + 1 \in 0 .. MaxRebalance
    <3>1. gen[p] \in 0 .. MaxRebalance /\ MaxRebalance \in Nat
        BY TransferAssumption DEF TypeOK
    <3>2. gen[p] < MaxRebalance
        BY <1>7 DEF Rebalance
    <3> QED BY <3>1, <3>2
  <2>3. gen' \in [Partition -> 0 .. MaxRebalance]
      BY <1>7, <2>2 DEF Rebalance, TypeOK
  <2>4. TypeOK'
      BY <1>7, <2>1, <2>3 DEF Rebalance, TypeOK, bufVars, redisVars, mongoVars
  <2>5. BatchOK'
      BY <1>7 DEF Rebalance, BatchOK, bufVars
  <2> QED BY <2>4, <2>5
<1> QED BY <1>1, <1>2, <1>3, <1>4, <1>5, <1>6, <1>7

\* What is known of a worker in the middle of a batch.
LEMMA WorkerFacts ==
    ASSUME TInv, NEW w \in Worker, wk[w].pc # "idle"
    PROVE  /\ wk[w] \in WorkerState /\ WorkerOK(wk[w])
           /\ wk[w].b \in Batch /\ wk[w].ph \in Phase /\ wk[w].base \in Nat
           /\ CtxMsgList(wk[w].b) # {}
           /\ ConversationOf(wk[w].b, wk[w].ph) \in Conv
           /\ Cardinality(StorageList(wk[w].b, wk[w].ph)) \in Nat
           /\ PartOf[wk[w].b.key] \in Partition
<1>1. wk[w] \in WorkerState /\ WorkerOK(wk[w])
    BY DEF TInv, TypeOK, BatchOK
<1>2. wk[w].b \in Batch /\ wk[w].ph \in Phase /\ wk[w].base \in Nat
    BY <1>1 DEF WorkerState
<1>3. CtxMsgList(wk[w].b) # {}
    BY <1>1 DEF WorkerOK
<1>4. wk[w].b.key \in Key
    BY <1>2 DEF Batch
<1> QED BY <1>1, <1>2, <1>3, <1>4, BatchProperties, TransferAssumption

\* Moving on inside a batch, with any base, flags and remaining positions of it.
LEMMA MoveOK ==
    ASSUME NEW s \in WorkerState, WorkerOK(s), s.pc # "idle",
           NEW t \in WorkerState, t.b = s.b, t.ph = s.ph, t.pc # "toPush", t.left \subseteq s.left
    PROVE  WorkerOK(t)
BY DEF WorkerOK

\* Only a worker's own state and the named shared variable change in a Run step.
LEMMA TypeRunStep ==
    ASSUME TInv, NEW w \in Worker, RunStep(w)
    PROVE  TInv'
<1> DEFINE s == wk[w]
           c == ConversationOf(s.b, s.ph)
           es == Entries(s.b, s.ph, s.base)
<1> USE DEF TInv
<1>0. wk \in [Worker -> WorkerState] /\ \A v \in Worker : WorkerOK(wk[v])
    BY DEF TypeOK, BatchOK
<1>1. CASE Run(w)
  <2>1. chArrays[w] \in Seq(Batch) /\ chArrays[w] # <<>>
      BY <1>1 DEF Run, TypeOK
  <2>2. /\ Head(chArrays[w]) \in Batch /\ Tail(chArrays[w]) \in Seq(Batch)
        /\ Len(Tail(chArrays[w])) = Len(chArrays[w]) - 1
        /\ \A n \in 1 .. Len(Tail(chArrays[w])) : Tail(chArrays[w])[n] = chArrays[w][n + 1]
        /\ Head(chArrays[w]) = chArrays[w][1]
        /\ Len(chArrays[w]) \in Nat \ {0}
      BY <2>1, HeadTailProperties, EmptySeq
  <2>3. \A n \in 1 .. Len(chArrays[w]) : CtxMsgList(chArrays[w][n]) # {}
      BY DEF BatchOK
  <2>4. CtxMsgList(Head(chArrays[w])) # {} /\ "chat" \in Phase
      BY <2>2, <2>3 DEF Phase
  <2>5. \A n \in 1 .. Len(Tail(chArrays[w])) : CtxMsgList(Tail(chArrays[w])[n]) # {}
    <3> TAKE n \in 1 .. Len(Tail(chArrays[w]))
    <3>1. n + 1 \in 1 .. Len(chArrays[w])
        BY <2>2
    <3> QED BY <2>2, <2>3, <3>1
  <2>6. wk' \in [Worker -> WorkerState] /\ \A v \in Worker : WorkerOK(wk'[v])
      BY <1>0, <1>1, <2>2, <2>4, StartPhaseOK, GotoOK DEF Run
  <2>7. chArrays' = [chArrays EXCEPT ![w] = Tail(chArrays[w])]
      BY <1>1 DEF Run
  <2>8. chArrays' \in [Worker -> Seq(Batch)]
      BY <2>2, <2>7 DEF TypeOK
  <2>9. \A v \in Worker : \A n \in 1 .. Len(chArrays'[v]) : CtxMsgList(chArrays'[v][n]) # {}
      BY <2>5, <2>7 DEF TypeOK, BatchOK
  <2>10. TypeOK'
      BY <1>1, <2>6, <2>8 DEF Run, TypeOK, kafkaVars, redisVars, mongoVars
  <2>11. BatchOK'
      BY <1>1, <2>6, <2>9 DEF Run, BatchOK
  <2> QED BY <2>10, <2>11
<1>2. CASE toPushTopic(w)
  <2> DEFINE j == Min(s.left)
             rest == [s EXCEPT !.left = s.left \ {j}]
             e == [conv |-> c, seq |-> PushSeq(s, j), msg |-> s.b.msgs[j]]
  <2>1. s.pc \in {"raw", "toPush"} /\ s.left # {} /\ s.pc # "idle"
      BY <1>2 DEF toPushTopic
  <2>2. /\ s \in WorkerState /\ WorkerOK(s) /\ s.b \in Batch /\ s.ph \in Phase
        /\ s.base \in Nat /\ CtxMsgList(s.b) # {} /\ c \in Conv
      BY <2>1, WorkerFacts
  <2>3. s.left \subseteq CtxMsgList(s.b) /\ CtxMsgList(s.b) \subseteq Nat
        /\ (s.pc = "toPush" => s.left \subseteq StorageList(s.b, s.ph))
      BY <2>2, BatchProperties DEF WorkerOK
  <2>4. j \in s.left
      BY <2>1, <2>3, MinInSet
  <2>5. s.b.msgs[j] \in Message
      BY <2>2, <2>3, <2>4, BatchProperties
  <2>6. PushSeq(s, j) \in Nat
    <3>1. \A k \in StorageList(s.b, s.ph) :
             s.base + Rank(StorageList(s.b, s.ph), k) \in Nat \ {0}
        BY <2>2, EntriesProperties
    <3>2. s.pc = "raw" \/ j \in StorageList(s.b, s.ph)
        BY <2>1, <2>3, <2>4
    <3> HIDE DEF s, j
    <3> QED BY <3>1, <3>2 DEF PushSeq
  <2>7. e \in Entry
      BY <2>2, <2>5, <2>6 DEF Entry
  <2>8. rest \in WorkerState /\ WorkerOK(rest)
      BY <2>2, <2>3 DEF WorkerState, WorkerOK
  <2>9. EndPhase(s) \in WorkerState /\ WorkerOK(EndPhase(s))
      BY <2>1, <2>2, EndPhaseOK
  <2>10. wk' \in [Worker -> WorkerState] /\ \A v \in Worker : WorkerOK(wk'[v])
    <3>1. Goto(w, IF s.pc = "toPush" /\ rest.left = {} THEN EndPhase(s) ELSE rest)
        BY <1>2 DEF toPushTopic
    <3> HIDE DEF rest, s
    <3> QED BY <1>0, <2>8, <2>9, <3>1, GotoOK
  <2>11. s.b.key \in Key /\ pushTopic[s.b.key] \in Seq(Entry)
      BY <2>2 DEF Batch, TypeOK
  <2>12. pushTopic' \in [Key -> Seq(Entry)]
    <3>1. Push(w, e)
        BY <1>2 DEF toPushTopic
    <3>2. Append(pushTopic[s.b.key], e) \in Seq(Entry)
        BY <2>7, <2>11, AppendProperties
    <3> HIDE DEF e
    <3> QED BY <2>11, <3>1, <3>2 DEF Push, TypeOK
  <2>13. TypeOK'
      BY <1>2, <2>10, <2>12 DEF toPushTopic, TypeOK, kafkaVars, bufVars, redisVars, mongoVars
  <2>14. BatchOK'
      BY <1>2, <2>10 DEF toPushTopic, BatchOK, bufVars
  <2> QED BY <2>13, <2>14
<1>3. CASE GetMaxSeq(w)
  <2> DEFINE n == Cardinality(StorageList(s.b, s.ph))
             t == [s EXCEPT !.pc = "setMsgs", !.base = maxSeq[c], !.isNew = (maxSeq[c] = 0)]
  <2>1. s.pc = "raw"
      BY <1>3 DEF GetMaxSeq
  <2>2. s \in WorkerState /\ WorkerOK(s) /\ c \in Conv
      BY <2>1, WorkerFacts
  <2>3. maxSeq[c] \in Nat
      BY <2>2 DEF TypeOK
  <2>4. t \in WorkerState /\ t.b = s.b /\ t.ph = s.ph /\ t.pc = "setMsgs" /\ t.left = s.left
      BY <2>2, <2>3 DEF WorkerState, Pc
  <2>5. WorkerOK(t)
      BY <2>1, <2>2, <2>4, MoveOK
  <2>6. Goto(w, t) \/ Goto(w, EndPhase(s))
      BY <1>3 DEF GetMaxSeq
  <2>7. wk' \in [Worker -> WorkerState] /\ \A v \in Worker : WorkerOK(wk'[v])
    <3> HIDE DEF t, s, n
    <3> QED BY <1>0, <2>1, <2>2, <2>4, <2>5, <2>6, EndPhaseOK, GotoOK
  <2>8. TypeOK'
      BY <1>3, <2>7 DEF GetMaxSeq, TypeOK, kafkaVars, bufVars, redisVars, mongoVars
  <2>9. BatchOK'
      BY <1>3, <2>7 DEF GetMaxSeq, BatchOK, bufVars
  <2> QED BY <2>8, <2>9
<1>4. CASE SetMessageToCache(w)
  <2>1. s.pc = "setMsgs"
      BY <1>4 DEF SetMessageToCache
  <2>2. s \in WorkerState /\ WorkerOK(s) /\ es \subseteq Entry
      BY <2>1, WorkerFacts, EntriesProperties
  <2>3. cache' \subseteq Entry
      BY <1>4, <2>2 DEF SetMessageToCache, Overwrite, TypeOK
  <2>4. [s EXCEPT !.pc = "setMax"] \in WorkerState /\ WorkerOK([s EXCEPT !.pc = "setMax"])
      BY <2>1, <2>2 DEF WorkerState, WorkerOK, Pc
  <2>5. wk' \in [Worker -> WorkerState] /\ \A v \in Worker : WorkerOK(wk'[v])
    <3>1. Goto(w, [s EXCEPT !.pc = "setMax"])
        BY <1>4 DEF SetMessageToCache
    <3> QED BY <1>0, <2>4, <3>1, GotoOK
  <2>6. TypeOK'
      BY <1>4, <2>3, <2>5 DEF SetMessageToCache, TypeOK, kafkaVars, bufVars, mongoVars
  <2>7. BatchOK'
      BY <1>4, <2>5 DEF SetMessageToCache, BatchOK, bufVars
  <2> QED BY <2>6, <2>7
<1>5. CASE SetMaxSeq(w)
  <2> DEFINE n == Cardinality(StorageList(s.b, s.ph))
             t == [s EXCEPT !.pc = "setRead"]
             u == [s EXCEPT !.pc = "setRead", !.err = TRUE]
  <2>1. s.pc = "setMax"
      BY <1>5 DEF SetMaxSeq
  <2>2. s \in WorkerState /\ WorkerOK(s) /\ c \in Conv /\ s.base \in Nat /\ n \in Nat
      BY <2>1, WorkerFacts
  <2>3. s.base + n \in Nat
      BY <2>2
  <2>4. maxSeq' \in [Conv -> Nat]
      BY <1>5, <2>2, <2>3 DEF SetMaxSeq, TypeOK
  <2>5. t \in WorkerState /\ WorkerOK(t) /\ u \in WorkerState /\ WorkerOK(u)
      BY <2>1, <2>2 DEF WorkerState, WorkerOK, Pc
  <2>6. Goto(w, t) \/ Goto(w, u)
      BY <1>5 DEF SetMaxSeq
  <2>7. wk' \in [Worker -> WorkerState] /\ \A v \in Worker : WorkerOK(wk'[v])
      BY <1>0, <2>5, <2>6, GotoOK
  <2>8. TypeOK'
      BY <1>5, <2>4, <2>7 DEF SetMaxSeq, TypeOK, kafkaVars, bufVars, mongoVars
  <2>9. BatchOK'
      BY <1>5, <2>7 DEF SetMaxSeq, BatchOK, bufVars
  <2> QED BY <2>8, <2>9
<1>6. CASE SetHasReadSeqs(w)
  <2> DEFINE t == [s EXCEPT !.pc = IF s.isNew /\ s.ph = "chat" THEN "create" ELSE "toMongo"]
             senders == {e.msg.data.from : e \in es}
             seqs(u) == {e.seq : e \in {f \in es : f.msg.data.from = u}}
  <2>1. s.pc = "setRead"
      BY <1>6 DEF SetHasReadSeqs
  <2>2. /\ s \in WorkerState /\ WorkerOK(s) /\ s.b \in Batch /\ s.ph \in Phase
        /\ s.base \in Nat /\ CtxMsgList(s.b) # {}
        /\ Cardinality(StorageList(s.b, s.ph)) \in Nat
      BY <2>1, WorkerFacts
  <2>3. /\ es \subseteq Entry
        /\ \A e \in es : e.seq <= s.base + Cardinality(StorageList(s.b, s.ph))
      BY <2>2, EntriesProperties
  <2>4. ASSUME NEW u \in senders PROVE Max(seqs(u)) \in Nat
    <3>1. seqs(u) \subseteq Nat /\ seqs(u) # {}
        BY <2>3 DEF Entry
    <3>2. \A y \in seqs(u) : y <= s.base + Cardinality(StorageList(s.b, s.ph))
        BY <2>3
    <3>3. s.base + Cardinality(StorageList(s.b, s.ph)) \in Nat
        BY <2>2
    <3>4. Max(seqs(u)) \in seqs(u)
      <4> HIDE DEF seqs
      <4> QED BY <3>1, <3>2, <3>3, MaxInSet
    <3> QED BY <3>1, <3>4
  <2>5. PICK done \in SUBSET senders :
            hasRead' = [x \in Conv \X User |->
                          IF x[1] = c /\ x[2] \in done THEN Max(seqs(x[2])) ELSE hasRead[x]]
      BY <1>6 DEF SetHasReadSeqs
  <2>6. hasRead' \in [Conv \X User -> Nat]
    <3>1. hasRead \in [Conv \X User -> Nat]
        BY DEF TypeOK
    <3> HIDE DEF seqs, senders, c
    <3> QED BY <2>4, <2>5, <3>1
  <2>7. t \in WorkerState /\ WorkerOK(t)
      BY <2>1, <2>2 DEF WorkerState, WorkerOK, Pc
  <2>8. Goto(w, IF s.err THEN EndPhase(s) ELSE t)
      BY <1>6 DEF SetHasReadSeqs
  <2>9. wk' \in [Worker -> WorkerState] /\ \A v \in Worker : WorkerOK(wk'[v])
    <3> HIDE DEF t, s
    <3> QED BY <1>0, <2>1, <2>2, <2>7, <2>8, EndPhaseOK, GotoOK
  <2>10. TypeOK'
      BY <1>6, <2>6, <2>9 DEF SetHasReadSeqs, TypeOK, kafkaVars, bufVars, mongoVars
  <2>11. BatchOK'
      BY <1>6, <2>9 DEF SetHasReadSeqs, BatchOK, bufVars
  <2> QED BY <2>10, <2>11
<1>7. CASE FirstCreateConversation(w)
  <2>1. s.pc = "create"
      BY <1>7 DEF FirstCreateConversation
  <2>2. s \in WorkerState /\ WorkerOK(s) /\ c \in Conv
      BY <2>1, WorkerFacts
  <2>3. created' \subseteq Conv
      BY <1>7, <2>2 DEF FirstCreateConversation, TypeOK
  <2>4. [s EXCEPT !.pc = "toMongo"] \in WorkerState /\ WorkerOK([s EXCEPT !.pc = "toMongo"])
      BY <2>1, <2>2 DEF WorkerState, WorkerOK, Pc
  <2>5. wk' \in [Worker -> WorkerState] /\ \A v \in Worker : WorkerOK(wk'[v])
    <3>1. Goto(w, [s EXCEPT !.pc = "toMongo"])
        BY <1>7 DEF FirstCreateConversation
    <3> QED BY <1>0, <2>4, <3>1, GotoOK
  <2>6. TypeOK'
      BY <1>7, <2>3, <2>5 DEF FirstCreateConversation, TypeOK, kafkaVars, bufVars, mongoVars
  <2>7. BatchOK'
      BY <1>7, <2>5 DEF FirstCreateConversation, BatchOK, bufVars
  <2> QED BY <2>6, <2>7
<1>8. CASE MsgToMongoMQ(w)
  <2> DEFINE p == PartOf[s.b.key]
             t == [s EXCEPT !.pc = "toPush", !.left = StorageList(s.b, s.ph)]
  <2>1. s.pc = "toMongo"
      BY <1>8 DEF MsgToMongoMQ
  <2>2. /\ s \in WorkerState /\ WorkerOK(s) /\ s.b \in Batch /\ s.ph \in Phase
        /\ CtxMsgList(s.b) # {} /\ es \subseteq Entry /\ p \in Partition
      BY <2>1, WorkerFacts, EntriesProperties
  <2>3. StorageList(s.b, s.ph) \subseteq CtxMsgList(s.b) /\ CtxMsgList(s.b) \subseteq Nat
      BY <2>2, BatchProperties
  <2>4. t \in WorkerState /\ WorkerOK(t)
      BY <2>2, <2>3 DEF WorkerState, WorkerOK, Pc
  <2>5. wk' \in [Worker -> WorkerState] /\ \A v \in Worker : WorkerOK(wk'[v])
    <3>1. Goto(w, t)
        BY <1>8 DEF MsgToMongoMQ
    <3> QED BY <1>0, <2>4, <3>1, GotoOK
  <2>6. Append(mongoTopic[p], es) \in Seq(SUBSET Entry)
      BY <2>2, AppendProperties DEF TypeOK
  <2>7. mongoTopic' \in [Partition -> Seq(SUBSET Entry)]
      BY <1>8, <2>2, <2>6 DEF MsgToMongoMQ, TypeOK
  <2>8. TypeOK'
      BY <1>8, <2>5, <2>7 DEF MsgToMongoMQ, TypeOK, kafkaVars, bufVars, redisVars
  <2>9. BatchOK'
      BY <1>8, <2>5 DEF MsgToMongoMQ, BatchOK, bufVars
  <2> QED BY <2>8, <2>9
<1>9. CASE ModifyPanic(w)
  <2>1. w[1] \in Instance
      BY DEF Worker
  <2> QED BY <1>9, <2>1, TypeCrash DEF ModifyPanic
<1> QED BY <1>1, <1>2, <1>3, <1>4, <1>5, <1>6, <1>7, <1>8, <1>9 DEF RunStep

\* The Mongo consumer keeps the state well typed.
LEMMA TypeMongo ==
    ASSUME TInv, NEW p \in Partition, MongoInsert(p) \/ MongoEvict(p) \/ MongoAutoCommit(p)
    PROVE  TInv'
<1> USE DEF TInv
<1>1. CASE MongoInsert(p)
  <2> DEFINE es == mongoTopic[p][mpos[p] + 1]
  <2>1. mongoTopic[p] \in Seq(SUBSET Entry) /\ mpos[p] + 1 \in 1 .. Len(mongoTopic[p])
      BY <1>1, LenProperties DEF MongoInsert, TypeOK
  <2>2. es \subseteq Entry
      BY <2>1, ElementOfSeq
  <2>3. mongo' \subseteq Entry
      BY <1>1, <2>2 DEF MongoInsert, Overwrite, TypeOK
  <2>4. mpc' \in [Partition -> {"idle", "evict"}]
      BY <1>1 DEF MongoInsert, TypeOK
  <2>5. TypeOK'
      BY <1>1, <2>3, <2>4 DEF MongoInsert, TypeOK, kafkaVars, bufVars, redisVars
  <2>6. BatchOK'
      BY <1>1 DEF MongoInsert, BatchOK, bufVars
  <2> QED BY <2>5, <2>6
<1>2. CASE MongoEvict(p)
  <2>1. /\ cache' \subseteq Entry /\ mpos' \in [Partition -> Nat]
        /\ mmarked' \in [Partition -> Nat]
        /\ mpc' \in [Partition -> {"idle", "evict"}]
      BY <1>2 DEF MongoEvict, TypeOK
  <2>2. TypeOK'
      BY <1>2, <2>1 DEF MongoEvict, TypeOK, kafkaVars, bufVars
  <2>3. BatchOK'
      BY <1>2 DEF MongoEvict, BatchOK, bufVars
  <2> QED BY <2>2, <2>3
<1>3. CASE MongoAutoCommit(p)
  <2>1. mcommitted' \in [Partition -> Nat]
      BY <1>3 DEF MongoAutoCommit, TypeOK
  <2>2. TypeOK'
      BY <1>3, <2>1 DEF MongoAutoCommit, TypeOK, kafkaVars, bufVars, redisVars
  <2>3. BatchOK'
      BY <1>3 DEF MongoAutoCommit, BatchOK, bufVars
  <2> QED BY <2>2, <2>3
<1> QED BY <1>1, <1>2, <1>3

\* Every step keeps the state well typed.
LEMMA TypeNext == TInv /\ [Next]_vars => TInv'
<1> SUFFICES ASSUME TInv, [Next]_vars PROVE TInv'
    OBVIOUS
<1>1. CASE UNCHANGED vars
    BY <1>1 DEF TInv, TypeOK, BatchOK, vars, kafkaVars, bufVars, redisVars, mongoVars
<1>2. CASE Next
    BY <1>2, TypeQueues, TypeRunStep, TypeMongo, TypeCrash DEF Next
<1> QED BY <1>1, <1>2

\* The state of msgtransfer, its queues, redis and Mongo is well typed in every
\* reachable state, rebalances included: each batch a worker handles holds a message
\* of its key, so the conversation that Run takes from ctxMsgList[0] exists.
THEOREM TypeCorrect == Spec => []TypeOK
<1>1. TInv => TypeOK
    BY DEF TInv
<1> QED BY <1>1, TypeInit, TypeNext, PTL DEF Spec

-----------------------------------------------------------------------------
(* One worker per key. While no partition moves, everything of a key stays *)
(* in the process that owns its partition and ends in one Run loop.        *)

Home(k) == <<owner[PartOf[k]], ChanOf[k]>>

InClaim(x, q) == \A n \in 1 .. Len(q) : x[1] = owner[x[2]] /\ PartOf[q[n].data.key] = x[2]

Routing ==
    /\ \A p \in Partition : \A n \in 1 .. Len(topic[p]) : PartOf[topic[p][n].data.key] = p
    /\ \A x \in Claim : InClaim(x, cMsg[x]) /\ InClaim(x, ccMsg[x])
    /\ \A i \in Instance : \A k \in agg[i].keys : i = owner[PartOf[k]]
    /\ \A w \in Worker : \A n \in 1 .. Len(chArrays[w]) : w = Home(chArrays[w][n].key)
    /\ \A w \in Worker : wk[w].pc # "idle" => w = Home(wk[w].b.key)

\* Routing is about the queues, the owners and the workers alone.
LEMMA RoutingFrame ==
    ASSUME Routing, UNCHANGED <<topic, owner, cMsg, ccMsg, agg, chArrays, wk>>
    PROVE  Routing'
BY DEF Routing, Home, InClaim

\* A Run step of a worker in a batch leaves it idle or in the same batch, and leaves
\* the queues and the other workers alone.
LEMMA RunStepFrame ==
    ASSUME TInv, NEW w \in Worker, RunStep(w), ~Run(w), ~ModifyPanic(w)
    PROVE  /\ wk[w].pc # "idle" /\ wk[w] \in WorkerState /\ WorkerOK(wk[w])
           /\ wk'[w].pc # "idle" => wk'[w].b = wk[w].b
           /\ \A v \in Worker : v # w => wk'[v] = wk[v]
           /\ UNCHANGED <<kafkaVars, bufVars>>
<1> DEFINE s == wk[w]
           Moved == wk'[w] = s \/ wk'[w] = EndPhase(s) \/ wk'[w].b = s.b
<1>1. s.pc # "idle" /\ s \in WorkerState /\ WorkerOK(s)
    BY DEF RunStep, toPushTopic, GetMaxSeq, SetMessageToCache, SetMaxSeq, SetHasReadSeqs,
           FirstCreateConversation, MsgToMongoMQ, TInv, TypeOK, BatchOK
<1>2. EndPhase(s).pc # "idle" => EndPhase(s).b = s.b
    BY <1>1, EndPhaseOK
<1>3. wk \in [Worker -> WorkerState]
    BY DEF TInv, TypeOK
<1>4. \A t : Goto(w, t) => wk'[w] = t /\ \A v \in Worker : v # w => wk'[v] = wk[v]
    BY <1>3 DEF Goto
<1>5. Moved /\ \A v \in Worker : v # w => wk'[v] = wk[v]
  <2>1. CASE toPushTopic(w)
    <3> DEFINE t == [s EXCEPT !.left = @ \ {Min(s.left)}]
    <3>1. Goto(w, t) \/ Goto(w, EndPhase(s))
        BY <2>1 DEF toPushTopic
    <3>2. t.b = s.b
        BY <1>1 DEF WorkerState
    <3> HIDE DEF t, s
    <3> QED BY <1>4, <3>1, <3>2
  <2>2. CASE GetMaxSeq(w)
    <3> DEFINE m == maxSeq[ConversationOf(s.b, s.ph)]
               t == [s EXCEPT !.pc = "setMsgs", !.base = m, !.isNew = (m = 0)]
    <3>1. Goto(w, t) \/ Goto(w, EndPhase(s))
        BY <2>2 DEF GetMaxSeq
    <3>2. t.b = s.b
        BY <1>1 DEF WorkerState
    <3> HIDE DEF t, s
    <3> QED BY <1>4, <3>1, <3>2
  <2>3. CASE SetMessageToCache(w)
    <3>1. Goto(w, [s EXCEPT !.pc = "setMax"]) /\ [s EXCEPT !.pc = "setMax"].b = s.b
        BY <1>1, <2>3 DEF SetMessageToCache, WorkerState
    <3> HIDE DEF s
    <3> QED BY <1>4, <3>1
  <2>4. CASE SetMaxSeq(w)
    <3> DEFINE t1 == [s EXCEPT !.pc = "setRead"]
               t2 == [s EXCEPT !.pc = "setRead", !.err = TRUE]
    <3>1. Goto(w, t1) \/ Goto(w, t2)
        BY <2>4 DEF SetMaxSeq
    <3>2. t1.b = s.b /\ t2.b = s.b
        BY <1>1 DEF WorkerState
    <3> HIDE DEF t1, t2, s
    <3> QED BY <1>4, <3>1, <3>2
  <2>5. CASE SetHasReadSeqs(w)
    <3> DEFINE t1 == [s EXCEPT !.pc = "create"]
               t2 == [s EXCEPT !.pc = "toMongo"]
    <3>1. Goto(w, t1) \/ Goto(w, t2) \/ Goto(w, EndPhase(s))
        BY <2>5 DEF SetHasReadSeqs
    <3>2. t1.b = s.b /\ t2.b = s.b
        BY <1>1 DEF WorkerState
    <3> HIDE DEF t1, t2, s
    <3> QED BY <1>4, <3>1, <3>2
  <2>6. CASE FirstCreateConversation(w)
    <3>1. Goto(w, [s EXCEPT !.pc = "toMongo"]) /\ [s EXCEPT !.pc = "toMongo"].b = s.b
        BY <1>1, <2>6 DEF FirstCreateConversation, WorkerState
    <3> HIDE DEF s
    <3> QED BY <1>4, <3>1
  <2>7. CASE MsgToMongoMQ(w)
    <3> DEFINE t == [s EXCEPT !.pc = "toPush", !.left = StorageList(s.b, s.ph)]
    <3>1. Goto(w, t)
        BY <2>7 DEF MsgToMongoMQ
    <3>2. t.b = s.b
        BY <1>1 DEF WorkerState
    <3> HIDE DEF t, s
    <3> QED BY <1>4, <3>1, <3>2
  <2> QED BY <2>1, <2>2, <2>3, <2>4, <2>5, <2>6, <2>7 DEF RunStep
<1>6. UNCHANGED <<kafkaVars, bufVars>>
    BY DEF RunStep, toPushTopic, GetMaxSeq, SetMessageToCache, SetMaxSeq, SetHasReadSeqs,
           FirstCreateConversation, MsgToMongoMQ
<1> HIDE DEF s
<1>7. wk'[w].pc # "idle" => wk'[w].b = s.b
    BY <1>2, <1>5
<1> QED BY <1>1, <1>5, <1>6, <1>7 DEF s

\* Run steps keep every worker on the keys it is the home of.
LEMMA RoutingRunStep ==
    ASSUME TInv, Routing, NEW w \in Worker, RunStep(w), ~Run(w), ~ModifyPanic(w)
    PROVE  Routing'
<1>1. UNCHANGED <<topic, owner, cMsg, ccMsg, agg, chArrays>>
    BY RunStepFrame DEF kafkaVars, bufVars
<1>2. \A v \in Worker : wk'[v].pc # "idle" => v = Home(wk'[v].b.key)
    BY RunStepFrame DEF Routing
<1> QED BY <1>1, <1>2 DEF Routing, Home, InClaim

\* What a stopping process drops takes nothing away from the others.
LEMMA RoutingCrash ==
    ASSUME TInv, Routing, NEW i \in Instance, Crash(i)
    PROVE  Routing'
<1>1. UNCHANGED <<topic, owner>>
    BY DEF Crash
<1>2. \A x \in Claim : /\ cMsg'[x] = <<>> \/ cMsg'[x] = cMsg[x]
                       /\ ccMsg'[x] = <<>> \/ ccMsg'[x] = ccMsg[x]
    BY DEF Crash, Lost
<1>3. \A x \in Claim : InClaim(x, cMsg[x])' /\ InClaim(x, ccMsg[x])'
    BY <1>1, <1>2, EmptySeq DEF Routing, InClaim
<1>4. \A j \in Instance : agg'[j] = agg[j] \/ agg'[j].keys = {}
    BY DEF Crash, Lost, TInv, TypeOK
<1>5. \A w \in Worker : chArrays'[w] = <<>> \/ chArrays'[w] = chArrays[w]
    BY DEF Crash, Lost
<1>6. \A w \in Worker : wk'[w] = Idle \/ wk'[w] = wk[w]
    BY DEF Crash, Lost
<1>7. Idle.pc = "idle"
    BY DEF Idle
<1>8. \A w \in Worker : \A n \in 1 .. Len(chArrays'[w]) : w = Home(chArrays'[w][n].key)
    BY <1>5, EmptySeq DEF Routing
<1>9. \A w \in Worker : wk'[w].pc # "idle" => w = Home(wk'[w].b.key)
    BY <1>6, <1>7 DEF Routing
<1>10. \A j \in Instance : \A k \in agg'[j].keys : j = owner[PartOf[k]]
    BY <1>4 DEF Routing
<1>11. \A k : Home(k)' = Home(k)
    BY <1>1 DEF Home
<1> QED BY <1>1, <1>3, <1>8, <1>9, <1>10, <1>11 DEF Routing

\* The queues pass a key's messages on inside its process.
LEMMA RoutingQueues ==
    ASSUME TInv, Routing
    PROVE  /\ \A d \in Payload : MsgToMQ(d) => Routing'
           /\ \A p \in Partition : ConsumeClaim(p) \/ AutoCommit(p) => Routing'
           /\ \A x \in Claim : Tick(x) \/ Distribute(x) => Routing'
           /\ \A i \in Instance, k \in Key : Route(i, k) => Routing'
           /\ \A w \in Worker : Run(w) => Routing'
<1> USE DEF TInv
<1>1. ASSUME NEW d \in Payload, MsgToMQ(d) PROVE Routing'
  <2> DEFINE p == PartOf[d.key]
             m == [off |-> Len(topic[p]) + 1, data |-> d]
  <2>1. p \in Partition /\ topic[p] \in Seq(Message) /\ Len(topic[p]) \in Nat
      BY TransferAssumption, LenProperties DEF TypeOK, PayloadType
  <2>2. m \in Message /\ m.data = d
      BY <2>1 DEF Message
  <2>3. topic' = [topic EXCEPT ![p] = Append(topic[p], m)]
      BY <1>1 DEF MsgToMQ
  <2>4. /\ Len(Append(topic[p], m)) = Len(topic[p]) + 1
        /\ \A n \in 1 .. Len(topic[p]) : Append(topic[p], m)[n] = topic[p][n]
        /\ Append(topic[p], m)[Len(topic[p]) + 1] = m
      BY <2>1, <2>2, AppendProperties
  <2>5. \A n \in 1 .. Len(Append(topic[p], m)) : n \in 1 .. Len(topic[p]) \/ n = Len(topic[p]) + 1
      BY <2>1, <2>4
  <2>6. \A n \in 1 .. Len(Append(topic[p], m)) : PartOf[Append(topic[p], m)[n].data.key] = p
    <3> HIDE DEF m
    <3> QED BY <2>1, <2>2, <2>4, <2>5 DEF Routing
  <2>7. \A q \in Partition : \A n \in 1 .. Len(topic'[q]) : PartOf[topic'[q][n].data.key] = q
    <3> HIDE DEF m, p
    <3> QED BY <2>1, <2>3, <2>6 DEF Routing, TypeOK
  <2>8. UNCHANGED <<owner, cMsg, ccMsg, agg, chArrays, wk>>
      BY <1>1 DEF MsgToMQ, bufVars
  <2> QED BY <2>7, <2>8 DEF Routing, Home, InClaim
<1>2. ASSUME NEW p \in Partition, ConsumeClaim(p) PROVE Routing'
  <2> DEFINE x == <<owner[p], p, gen[p]>>
             m == topic[p][pos[p] + 1]
  <2>1. x \in Claim /\ cMsg[x] \in Seq(Message) /\ topic[p] \in Seq(Message)
      BY DEF TypeOK, Claim
  <2>2. pos[p] + 1 \in 1 .. Len(topic[p])
      BY <1>2, <2>1, LenProperties DEF ConsumeClaim, TypeOK
  <2>3. m \in Message /\ PartOf[m.data.key] = p
      BY <2>1, <2>2, ElementOfSeq DEF Routing
  <2>4. /\ Len(Append(cMsg[x], m)) = Len(cMsg[x]) + 1 /\ Len(cMsg[x]) \in Nat
        /\ \A n \in 1 .. Len(cMsg[x]) : Append(cMsg[x], m)[n] = cMsg[x][n]
        /\ Append(cMsg[x], m)[Len(cMsg[x]) + 1] = m
      BY <2>1, <2>3, AppendProperties, LenProperties
  <2>5. \A n \in 1 .. Len(Append(cMsg[x], m)) : n \in 1 .. Len(cMsg[x]) \/ n = Len(cMsg[x]) + 1
      BY <2>4
  <2>6. cMsg' = [cMsg EXCEPT ![x] = Append(cMsg[x], m)]
      BY <1>2 DEF ConsumeClaim
  <2>7. UNCHANGED <<topic, owner, ccMsg, agg, chArrays, wk>>
      BY <1>2 DEF ConsumeClaim
  <2>8. x[1] = owner[x[2]] /\ x[2] = p
      OBVIOUS
  <2> HIDE DEF x, m
  <2>9. InClaim(x, Append(cMsg[x], m))
      BY <2>1, <2>3, <2>4, <2>5, <2>8 DEF Routing, InClaim
  <2>10. \A y \in Claim : InClaim(y, cMsg'[y])
      BY <2>1, <2>6, <2>9 DEF Routing, TypeOK
  <2>11. \A y \in Claim : InClaim(y, cMsg[y])'
      BY <2>7, <2>10 DEF InClaim
  <2> QED BY <2>7, <2>11 DEF Routing, Home, InClaim
<1>3. ASSUME NEW p \in Partition, AutoCommit(p) PROVE Routing'
    BY <1>3, RoutingFrame DEF AutoCommit, bufVars
<1>4. ASSUME NEW x \in Claim, Tick(x) PROVE Routing'
  <2>1. UNCHANGED <<topic, owner, agg, chArrays, wk>>
      BY <1>4 DEF Tick, kafkaVars
  <2>2. \A y \in Claim : /\ cMsg'[y] = <<>> \/ cMsg'[y] = cMsg[y]
                         /\ ccMsg'[y] = cMsg[y] \/ ccMsg'[y] = ccMsg[y]
      BY <1>4 DEF Tick, TypeOK
  <2>3. \A y \in Claim : InClaim(y, cMsg'[y]) /\ InClaim(y, ccMsg'[y])
      BY <2>2, EmptySeq DEF Routing, InClaim
  <2>4. \A y \in Claim : InClaim(y, cMsg[y])' /\ InClaim(y, ccMsg[y])'
      BY <2>1, <2>3 DEF InClaim
  <2> QED BY <2>1, <2>4 DEF Routing, Home
<1>5. ASSUME NEW x \in Claim, Distribute(x) PROVE Routing'
  <2> DEFINE i == x[1]
             q == ccMsg[x]
             n == IF Len(q) < Split THEN Len(q) ELSE Split
             slice == SubSeq(q, 1, n)
             rest == SubSeq(q, n + 1, Len(q))
             keys == {slice[j].data.key : j \in 1 .. n}
  <2>1. i \in Instance /\ q \in Seq(Message) /\ Len(q) \in Nat
      BY LenProperties DEF TypeOK, Claim
  <2>2. n \in Nat /\ n <= Len(q)
      BY <2>1, TransferAssumption
  <2> HIDE DEF n, i, q
  <2>3. \A j \in 1 .. n : slice[j] = q[j]
      BY <2>1, <2>2, SubSeqProperties
  <2>4. /\ Len(rest) \in Nat /\ Len(rest) = Len(q) - n
        /\ \A j \in 1 .. Len(rest) : rest[j] = q[n + j]
    <3>1. n + 1 \in 1 .. Len(q) + 1 /\ Len(q) \in 0 .. Len(q)
        BY <2>1, <2>2
    <3>2. \A j \in 1 .. Len(q) - n : n + 1 + j - 1 = n + j
        BY <2>1, <2>2
    <3> QED BY <2>1, <2>2, <3>1, <3>2, SubSeqProperties
  <2>5. InClaim(x, q)
      BY DEF Routing, q
  <2>6. \A j \in 1 .. Len(rest) : n + j \in 1 .. Len(q)
      BY <2>1, <2>2, <2>4
  <2>7. InClaim(x, rest)
    <3> HIDE DEF rest
    <3> QED BY <2>4, <2>5, <2>6 DEF InClaim
  <2>8. \A j \in 1 .. n : j \in 1 .. Len(q)
      BY <2>1, <2>2
  <2>9. \A k \in keys : x[1] = owner[PartOf[k]]
    <3> HIDE DEF slice
    <3> QED BY <2>3, <2>5, <2>8 DEF InClaim
  <2>10. /\ agg' = [agg EXCEPT ![i] = [msgs |-> slice, keys |-> keys]]
         /\ ccMsg' = [ccMsg EXCEPT ![x] = rest]
      BY <1>5 DEF Distribute, i, n, q
  <2>11. UNCHANGED <<topic, owner, cMsg, chArrays, wk>>
      BY <1>5 DEF Distribute, kafkaVars
  <2> HIDE DEF rest, slice, keys
  <2>12. \A h \in Instance : \A k \in agg'[h].keys : h = owner[PartOf[k]]
      BY <2>1, <2>9, <2>10 DEF Routing, TypeOK, i
  <2>13. \A y \in Claim : InClaim(y, cMsg'[y]) /\ InClaim(y, ccMsg'[y])
      BY <2>7, <2>10, <2>11 DEF Routing, TypeOK
  <2>14. \A y \in Claim : InClaim(y, cMsg[y])' /\ InClaim(y, ccMsg[y])'
      BY <2>11, <2>13 DEF InClaim
  <2> QED BY <2>11, <2>12, <2>14 DEF Routing, Home
<1>6. ASSUME NEW i \in Instance, NEW k \in Key, Route(i, k) PROVE Routing'
  <2> DEFINE w == <<i, ChanOf[k]>>
             b == [key |-> k, msgs |-> agg[i].msgs]
  <2>1. w \in Worker /\ chArrays[w] \in Seq(Batch) /\ k \in agg[i].keys
      BY <1>6, TransferAssumption DEF Route, TypeOK, Worker
  <2>2. w = Home(k)
      BY <2>1 DEF Routing, Home
  <2>3. b \in Batch /\ b.key = k
      BY DEF Batch, TypeOK
  <2>4. chArrays' = [chArrays EXCEPT ![w] = Append(chArrays[w], b)]
      BY <1>6 DEF Route
  <2>5. agg'[i].keys \subseteq agg[i].keys /\ \A h \in Instance : h # i => agg'[h] = agg[h]
      BY <1>6 DEF Route, TypeOK
  <2>6. UNCHANGED <<topic, owner, cMsg, ccMsg, wk>>
      BY <1>6 DEF Route, kafkaVars
  <2> HIDE DEF w, b
  <2>7. /\ Len(Append(chArrays[w], b)) = Len(chArrays[w]) + 1 /\ Len(chArrays[w]) \in Nat
        /\ \A n \in 1 .. Len(chArrays[w]) : Append(chArrays[w], b)[n] = chArrays[w][n]
        /\ Append(chArrays[w], b)[Len(chArrays[w]) + 1] = b
      BY <2>1, <2>3, AppendProperties, LenProperties
  <2>8. \A n \in 1 .. Len(Append(chArrays[w], b)) :
           n \in 1 .. Len(chArrays[w]) \/ n = Len(chArrays[w]) + 1
      BY <2>7
  <2>9. \A n \in 1 .. Len(Append(chArrays[w], b)) : w = Home(Append(chArrays[w], b)[n].key)
      BY <2>1, <2>2, <2>3, <2>7, <2>8 DEF Routing
  <2>10. \A v \in Worker : \A n \in 1 .. Len(chArrays'[v]) : v = Home(chArrays'[v][n].key)
      BY <2>1, <2>4, <2>9 DEF Routing, TypeOK
  <2>11. \A h \in Instance : \A j \in agg'[h].keys : h = owner[PartOf[j]]
      BY <2>5 DEF Routing
  <2> QED BY <2>6, <2>10, <2>11 DEF Routing, Home, InClaim
<1>7. ASSUME NEW w \in Worker, Run(w) PROVE Routing'
  <2> DEFINE b == Head(chArrays[w])
  <2>1. chArrays[w] \in Seq(Batch) /\ chArrays[w] # <<>>
      BY <1>7 DEF Run, TypeOK
  <2>2. /\ Len(chArrays[w]) \in Nat /\ Len(chArrays[w]) >= 1
        /\ b = chArrays[w][1] /\ b \in Batch
        /\ Len(Tail(chArrays[w])) = Len(chArrays[w]) - 1
        /\ \A n \in 1 .. Len(Tail(chArrays[w])) : Tail(chArrays[w])[n] = chArrays[w][n + 1]
      BY <2>1, HeadTailProperties, EmptySeq, LenProperties
  <2>3. 1 \in 1 .. Len(chArrays[w])
      BY <2>2
  <2>4. w = Home(b.key) /\ CtxMsgList(b) # {}
      BY <2>2, <2>3 DEF Routing, BatchOK
  <2>5. StartPhase(b, "chat").b = b
      BY <2>2, <2>4, StartPhaseOK DEF Phase
  <2>6. /\ wk' = [wk EXCEPT ![w] = StartPhase(b, "chat")]
        /\ chArrays' = [chArrays EXCEPT ![w] = Tail(chArrays[w])]
      BY <1>7 DEF Run, Goto
  <2>7. UNCHANGED <<topic, owner, cMsg, ccMsg, agg>>
      BY <1>7 DEF Run, kafkaVars
  <2> HIDE DEF b
  <2>8. \A v \in Worker : wk'[v].pc # "idle" => v = Home(wk'[v].b.key)
      BY <2>4, <2>5, <2>6 DEF Routing, TypeOK
  <2>9. \A n \in 1 .. Len(Tail(chArrays[w])) : n + 1 \in 1 .. Len(chArrays[w])
      BY <2>2
  <2>10. \A n \in 1 .. Len(Tail(chArrays[w])) : w = Home(Tail(chArrays[w])[n].key)
      BY <2>2, <2>9 DEF Routing
  <2>11. \A v \in Worker : \A n \in 1 .. Len(chArrays'[v]) : v = Home(chArrays'[v][n].key)
      BY <2>6, <2>10 DEF Routing, TypeOK
  <2> QED BY <2>7, <2>8, <2>11 DEF Routing, Home, InClaim
<1> QED
    BY <1>1, <1>2, <1>3, <1>4, <1>5, <1>6, <1>7

\* Partitions never change hands: either no rebalance happens or there is one process.
OneHome == MaxRebalance = 0 \/ \A i, j \in Instance : i = j

\* Every step keeps each key in one process and one Run loop.
LEMMA RoutingNext ==
    ASSUME OneHome, TInv, Routing, [Next]_vars
    PROVE  Routing'
<1>1. CASE UNCHANGED vars
    BY <1>1, RoutingFrame DEF vars, kafkaVars, bufVars
<1>2. ASSUME NEW w \in Worker, RunStep(w) PROVE Routing'
  <2>1. CASE Run(w)
      BY <2>1, RoutingQueues
  <2>2. CASE ModifyPanic(w)
    <3>1. w[1] \in Instance
        BY DEF Worker
    <3> QED BY <2>2, <3>1, RoutingCrash DEF ModifyPanic
  <2> QED BY <1>2, <2>1, <2>2, RoutingRunStep
<1>3. ASSUME NEW p \in Partition, MongoInsert(p) \/ MongoEvict(p) \/ MongoAutoCommit(p)
      PROVE  Routing'
  <2>1. UNCHANGED <<topic, owner, cMsg, ccMsg, agg, chArrays, wk>>
      BY <1>3 DEF MongoInsert, MongoEvict, MongoAutoCommit, kafkaVars, bufVars
  <2> QED BY <2>1, RoutingFrame
<1>4. ASSUME NEW p \in Partition, NEW j \in Instance, Rebalance(p, j) PROVE Routing'
  <2>1. gen[p] \in 0 .. MaxRebalance /\ gen[p] < MaxRebalance /\ MaxRebalance \in Nat
      BY <1>4, TransferAssumption DEF Rebalance, TInv, TypeOK
  <2>2. \A i, h \in Instance : i = h
      BY <2>1 DEF OneHome
  <2>3. owner[p] = j
      BY <2>2 DEF TInv, TypeOK
  <2>4. owner' = owner
      BY <1>4, <2>3 DEF Rebalance, TInv, TypeOK
  <2>5. UNCHANGED <<topic, owner, cMsg, ccMsg, agg, chArrays, wk>>
      BY <1>4, <2>4 DEF Rebalance, bufVars
  <2> QED BY <2>5, RoutingFrame
<1>5. CASE Next
    BY <1>2, <1>3, <1>4, <1>5, RoutingQueues, RoutingCrash DEF Next
<1> QED BY <1>1, <1>5

-----------------------------------------------------------------------------
(* Sequence numbers. Between GetMaxSeq and the last push a worker is alone *)
(* with its conversation: MAX_SEQ is what it read until it writes it, and  *)
(* nobody else numbers a message of that conversation.                     *)

ConvOf(s) == ConversationOf(s.b, s.ph)
LastOf(s) == s.base + Cardinality(StorageList(s.b, s.ph))
Quiet(s) == s.pc \in {"idle", "raw", "modify"}
Assigned(s) == s.pc \in {"create", "toMongo"} \/ (s.pc = "setRead" /\ ~s.err)

SeqOK(s) ==
    /\ s.pc \in {"setMsgs", "setMax"} => s.base = maxSeq[ConvOf(s)]
    /\ Assigned(s) \/ s.pc = "toPush" => LastOf(s) <= maxSeq[ConvOf(s)]
    /\ Assigned(s) => \A e \in Numbered : e.conv = ConvOf(s) => e.seq <= s.base
    /\ s.pc = "toPush" =>
          \A e \in Numbered : e.conv = ConvOf(s) =>
              e.seq <= s.base \/ e \in Entries(s.b, s.ph, s.base)

SeqInv == SeqUnique /\ WithinMaxSeq /\ \A w \in Worker : SeqOK(wk[w])

\* A worker outside BatchInsertChat2Cache and what follows it owes nothing.
LEMMA QuietOK == \A s : Quiet(s) => SeqOK(s) /\ SeqOK(s)'
BY DEF Quiet, SeqOK, Assigned

\* Two workers in the middle of a batch are in different conversations.
LEMMA OwnConversations ==
    ASSUME TInv, Routing, NEW w \in Worker, NEW v \in Worker, v # w,
           wk[w].pc # "idle", wk[v].pc # "idle"
    PROVE  ConvOf(wk[v]) # ConvOf(wk[w])
<1>1. w = Home(wk[w].b.key) /\ v = Home(wk[v].b.key)
    BY DEF Routing
<1>2. wk[w].b.key # wk[v].b.key
    BY <1>1
<1>3. ConvOf(wk[w]).key = wk[w].b.key /\ ConvOf(wk[v]).key = wk[v].b.key
    BY WorkerFacts, BatchProperties DEF ConvOf
<1> QED BY <1>2, <1>3

\* What has left msgtransfer is a set of entries.
LEMMA NumberedType ==
    ASSUME TypeOK
    PROVE  Numbered \subseteq Entry
<1>1. MongoLog \subseteq Entry
  <2> SUFFICES ASSUME NEW p \in Partition, NEW n \in 1 .. Len(mongoTopic[p])
               PROVE  mongoTopic[p][n] \subseteq Entry
      BY DEF MongoLog
  <2>1. mongoTopic[p] \in Seq(SUBSET Entry)
      BY DEF TypeOK
  <2>2. mongoTopic[p][n] \in SUBSET Entry
      BY <2>1, ElementOfSeq
  <2> QED BY <2>2
<1>2. PushLog \subseteq Entry
  <2> SUFFICES ASSUME NEW k \in Key, NEW n \in 1 .. Len(pushTopic[k])
               PROVE  pushTopic[k][n] \in Entry
      BY DEF PushLog
  <2>1. pushTopic[k] \in Seq(Entry)
      BY DEF TypeOK
  <2> QED BY <2>1, ElementOfSeq
<1> QED BY <1>1, <1>2 DEF Numbered

\* One push adds at most the pushed entry, and nothing when its seq is 0.
LEMMA NumberedPush ==
    ASSUME TypeOK, NEW k \in Key, NEW e \in Entry, UNCHANGED mongoTopic,
           pushTopic' = [pushTopic EXCEPT ![k] = Append(@, e)]
    PROVE  \A f \in Numbered' : f \in Numbered \/ (f = e /\ e.seq # 0)
<1>1. MongoLog' = MongoLog
    BY DEF MongoLog
<1>2. pushTopic[k] \in Seq(Entry)
    BY DEF TypeOK
<1>3. /\ Len(pushTopic[k]) \in Nat /\ Len(Append(pushTopic[k], e)) = Len(pushTopic[k]) + 1
      /\ \A n \in 1 .. Len(pushTopic[k]) : Append(pushTopic[k], e)[n] = pushTopic[k][n]
      /\ Append(pushTopic[k], e)[Len(pushTopic[k]) + 1] = e
    BY <1>2, AppendProperties, LenProperties
<1>4. \A f \in PushLog' : f \in PushLog \/ f = e
  <2> SUFFICES ASSUME NEW h \in Key, NEW n \in 1 .. Len(pushTopic'[h])
               PROVE  pushTopic'[h][n] \in PushLog \/ pushTopic'[h][n] = e
      BY DEF PushLog
  <2>1. CASE h # k
    <3>1. pushTopic'[h] = pushTopic[h]
        BY <2>1 DEF TypeOK
    <3> QED BY <3>1 DEF PushLog
  <2>2. CASE h = k
    <3>1. pushTopic'[h] = Append(pushTopic[k], e)
        BY <2>2 DEF TypeOK
    <3>2. n \in 1 .. Len(pushTopic[k]) \/ n = Len(pushTopic[k]) + 1
        BY <1>3, <3>1
    <3>3. CASE n \in 1 .. Len(pushTopic[k])
      <4>1. pushTopic'[h][n] = pushTopic[k][n]
          BY <1>3, <3>1, <3>3
      <4> QED BY <3>3, <4>1 DEF PushLog
    <3> QED BY <1>3, <3>1, <3>2, <3>3
  <2> QED BY <2>1, <2>2
<1> QED BY <1>1, <1>4 DEF Numbered

\* One batch for Mongo adds at most its own entries.
LEMMA NumberedMongo ==
    ASSUME TypeOK, NEW p \in Partition, NEW es, es \subseteq Entry, UNCHANGED pushTopic,
           mongoTopic' = [mongoTopic EXCEPT ![p] = Append(@, es)]
    PROVE  \A f \in Numbered' : f \in Numbered \/ f \in es
<1>1. PushLog' = PushLog
    BY DEF PushLog
<1>2. mongoTopic[p] \in Seq(SUBSET Entry)
    BY DEF TypeOK
<1>3. /\ Len(mongoTopic[p]) \in Nat /\ Len(Append(mongoTopic[p], es)) = Len(mongoTopic[p]) + 1
      /\ \A n \in 1 .. Len(mongoTopic[p]) : Append(mongoTopic[p], es)[n] = mongoTopic[p][n]
      /\ Append(mongoTopic[p], es)[Len(mongoTopic[p]) + 1] = es
    BY <1>2, AppendProperties, LenProperties
<1>4. \A f \in MongoLog' : f \in MongoLog \/ f \in es
  <2> SUFFICES ASSUME NEW q \in Partition, NEW n \in 1 .. Len(mongoTopic'[q]),
                      NEW f \in mongoTopic'[q][n]
               PROVE  f \in MongoLog \/ f \in es
      BY DEF MongoLog
  <2>1. CASE q # p
    <3>1. mongoTopic'[q] = mongoTopic[q]
        BY <2>1 DEF TypeOK
    <3> QED BY <3>1 DEF MongoLog
  <2>2. CASE q = p
    <3>1. mongoTopic'[q] = Append(mongoTopic[p], es)
        BY <2>2 DEF TypeOK
    <3>2. n \in 1 .. Len(mongoTopic[p]) \/ n = Len(mongoTopic[p]) + 1
        BY <1>3, <3>1
    <3>3. CASE n \in 1 .. Len(mongoTopic[p])
      <4>1. mongoTopic'[q][n] = mongoTopic[p][n]
          BY <1>3, <3>1, <3>3
      <4> QED BY <3>3, <4>1 DEF MongoLog
    <3> QED BY <1>3, <3>1, <3>2, <3>3
  <2> QED BY <2>1, <2>2
<1> QED BY <1>1, <1>4 DEF Numbered

\* A step that numbers nothing and leaves MAX_SEQ alone leaves every obligation alone.
LEMMA SeqQuietStep ==
    ASSUME SeqInv, UNCHANGED <<maxSeq, mongoTopic, pushTopic>>,
           \A v \in Worker : wk'[v] = wk[v] \/ SeqOK(wk'[v])
    PROVE  SeqInv'
<1>1. Numbered' = Numbered
    BY DEF Numbered, MongoLog, PushLog
<1>2. \A s : SeqOK(s)' <=> SeqOK(s)
    BY <1>1 DEF SeqOK, Assigned
<1>3. \A v \in Worker : SeqOK(wk'[v])
    BY DEF SeqInv
<1>4. \A v \in Worker : SeqOK(wk[v])'
    BY <1>1, <1>3 DEF SeqOK, Assigned
<1> QED BY <1>1, <1>4 DEF SeqInv, SeqUnique, WithinMaxSeq

\* A worker that has its seqs lets some of its entries leave.
LEMMA SeqLeaveStep ==
    ASSUME TInv, Routing, SeqInv, NEW w \in Worker, wk[w].pc \in {"toMongo", "toPush"},
           UNCHANGED maxSeq,
           \A f \in Numbered' : f \in Numbered \/ f \in Entries(wk[w].b, wk[w].ph, wk[w].base),
           \A v \in Worker : v # w => wk'[v] = wk[v],
           \/ Quiet(wk'[w])
           \/ /\ wk'[w].pc = "toPush" /\ wk'[w].b = wk[w].b
              /\ wk'[w].ph = wk[w].ph /\ wk'[w].base = wk[w].base
    PROVE  SeqInv'
<1> DEFINE s == wk[w]
           es == Entries(s.b, s.ph, s.base)
           c == ConvOf(s)
<1>1. /\ s.base \in Nat /\ es \subseteq Entry /\ c \in Conv
      /\ Cardinality(StorageList(s.b, s.ph)) \in Nat
      /\ \A e \in es : e.conv = c /\ e.seq \in s.base + 1 .. LastOf(s)
      /\ \A e, f \in es : e.seq = f.seq => e = f
    BY WorkerFacts, EntriesProperties DEF ConvOf, LastOf
<1>2. LastOf(s) <= maxSeq[c] /\ LastOf(s) \in Nat /\ maxSeq[c] \in Nat
    BY <1>1 DEF SeqInv, SeqOK, Assigned, LastOf, TInv, TypeOK
<1>3. \A e \in Numbered : e.conv = c => e.seq <= s.base \/ e \in es
    BY DEF SeqInv, SeqOK, Assigned
<1>4. Numbered \subseteq Entry /\ \A e \in Entry : e.seq \in Nat
    BY NumberedType DEF TInv, Entry
<1>5. WithinMaxSeq'
  <2> SUFFICES ASSUME NEW e \in Numbered' PROVE e.seq <= maxSeq[e.conv]
      BY DEF WithinMaxSeq
  <2>1. CASE e \in Numbered
      BY <2>1 DEF SeqInv, WithinMaxSeq
  <2>2. CASE e \in es
    <3>1. e.conv = c /\ e.seq \in s.base + 1 .. LastOf(s)
        BY <1>1, <2>2
    <3> QED BY <1>1, <1>2, <3>1
  <2> QED BY <2>1, <2>2
<1>6. ASSUME NEW e \in Numbered, NEW f \in es, Same(e, f) PROVE e = f
  <2>1. e.conv = c /\ e.seq = f.seq /\ f.seq \in s.base + 1 .. LastOf(s)
      BY <1>1, <1>6 DEF Same
  <2>2. ~(e.seq <= s.base)
      BY <1>1, <1>2, <2>1
  <2>3. e \in es
      BY <1>3, <2>1, <2>2
  <2> QED BY <1>1, <2>1, <2>3
<1>7. SeqUnique'
  <2> SUFFICES ASSUME NEW e \in Numbered', NEW f \in Numbered', Same(e, f) PROVE e = f
      BY DEF SeqUnique, Same
  <2>1. CASE e \in Numbered /\ f \in Numbered
      BY <2>1 DEF SeqInv, SeqUnique
  <2>2. CASE e \in Numbered /\ f \in es
      BY <1>6, <2>2
  <2>3. CASE e \in es /\ f \in Numbered
    <3>1. Same(f, e)
        BY DEF Same
    <3> QED BY <1>6, <2>3, <3>1
  <2>4. CASE e \in es /\ f \in es
      BY <1>1, <2>4 DEF Same
  <2> QED BY <2>1, <2>2, <2>3, <2>4
<1>8. SeqOK(wk[w])'
  <2>1. CASE Quiet(wk'[w])
    <3>1. wk'[w].pc \notin {"setMsgs", "setMax", "setRead", "create", "toMongo", "toPush"}
        BY <2>1 DEF Quiet
    <3> QED BY <3>1 DEF SeqOK, Assigned
  <2>2. CASE /\ wk'[w].pc = "toPush" /\ wk'[w].b = wk[w].b
             /\ wk'[w].ph = wk[w].ph /\ wk'[w].base = wk[w].base
    <3>1. \A e \in Numbered' : e.conv = c => e.seq <= s.base \/ e \in es
        BY <1>3
    <3>2. ~Assigned(wk'[w]) /\ ConvOf(wk'[w]) = c /\ LastOf(wk'[w]) = LastOf(s)
        BY <2>2 DEF Assigned, ConvOf, LastOf
    <3>3. ~Assigned(wk[w])' /\ ConvOf(wk[w])' = c /\ LastOf(wk[w])' = LastOf(s)
        BY <3>2 DEF Assigned, ConvOf, LastOf
    <3> QED BY <1>2, <2>2, <3>1, <3>3 DEF SeqOK
  <2> QED BY <2>1, <2>2
<1>9. ASSUME NEW v \in Worker, v # w PROVE SeqOK(wk[v])'
  <2>1. SeqOK(wk[v]) /\ wk'[v] = wk[v]
      BY <1>9 DEF SeqInv
  <2>2. CASE wk[v].pc = "idle"
      BY <2>1, <2>2 DEF SeqOK, Assigned
  <2>3. CASE wk[v].pc # "idle"
    <3>1. ConvOf(wk[v]) # c
        BY <1>9, <2>3, OwnConversations
    <3>2. \A e \in Numbered' : e.conv = ConvOf(wk[v]) => e \in Numbered
        BY <1>1, <3>1
    <3>3. /\ Assigned(wk[v])' <=> Assigned(wk[v])
          /\ ConvOf(wk[v])' = ConvOf(wk[v]) /\ LastOf(wk[v])' = LastOf(wk[v])
        BY <2>1 DEF Assigned, ConvOf, LastOf
    <3> QED BY <2>1, <3>2, <3>3 DEF SeqOK
  <2> QED BY <2>2, <2>3
<1> QED BY <1>5, <1>7, <1>8, <1>9 DEF SeqInv

\* A worker writes the MAX_SEQ of its conversation back.
LEMMA SeqMaxStep ==
    ASSUME TInv, Routing, SeqInv, NEW w \in Worker, wk[w].pc = "setMax",
           UNCHANGED <<mongoTopic, pushTopic>>,
           maxSeq' = [maxSeq EXCEPT ![ConvOf(wk[w])] = LastOf(wk[w])],
           \A v \in Worker : v # w => wk'[v] = wk[v],
           wk'[w].pc = "setRead" /\ wk'[w].b = wk[w].b,
           wk'[w].ph = wk[w].ph /\ wk'[w].base = wk[w].base
    PROVE  SeqInv' /\ \A d \in Conv : maxSeq'[d] >= maxSeq[d]
<1> DEFINE s == wk[w]
           c == ConvOf(s)
<1>1. s.base \in Nat /\ c \in Conv /\ Cardinality(StorageList(s.b, s.ph)) \in Nat
    BY WorkerFacts DEF ConvOf
<1>2. s.base = maxSeq[c]
    BY DEF SeqInv, SeqOK
<1>3. LastOf(s) \in Nat /\ s.base <= LastOf(s)
    BY <1>1 DEF LastOf
<1>4. maxSeq \in [Conv -> Nat]
    BY DEF TInv, TypeOK
<1>5. \A d \in Conv : /\ maxSeq'[d] = IF d = c THEN LastOf(s) ELSE maxSeq[d]
                      /\ maxSeq[d] \in Nat /\ maxSeq'[d] \in Nat /\ maxSeq[d] <= maxSeq'[d]
  <2> HIDE DEF s
  <2> QED BY <1>1, <1>2, <1>3, <1>4 DEF s
<1>6. Numbered' = Numbered
    BY DEF Numbered, MongoLog, PushLog
<1>7. Numbered \subseteq Entry /\ \A e \in Entry : e.seq \in Nat /\ e.conv \in Conv
    BY NumberedType DEF TInv, Entry
<1>8. WithinMaxSeq'
  <2> SUFFICES ASSUME NEW e \in Numbered PROVE e.seq <= maxSeq'[e.conv]
      BY <1>6 DEF WithinMaxSeq
  <2>1. e.seq <= maxSeq[e.conv] /\ e.seq \in Nat /\ e.conv \in Conv
      BY <1>7 DEF SeqInv, WithinMaxSeq
  <2>2. maxSeq[e.conv] <= maxSeq'[e.conv] /\ maxSeq[e.conv] \in Nat /\ maxSeq'[e.conv] \in Nat
      BY <1>5, <2>1
  <2> QED BY <2>1, <2>2
<1>9. SeqUnique'
    BY <1>6 DEF SeqInv, SeqUnique, Same
<1>10. SeqOK(wk[w])'
  <2>1. \A e \in Numbered : e.conv = c => e.seq <= s.base
      BY <1>2 DEF SeqInv, WithinMaxSeq
  <2>2. LastOf(s) <= maxSeq'[c]
      BY <1>1, <1>3, <1>5
  <2>3. ConvOf(wk[w])' = c /\ LastOf(wk[w])' = LastOf(s)
      BY DEF ConvOf, LastOf
  <2> QED BY <1>6, <2>1, <2>2, <2>3 DEF SeqOK
<1>11. ASSUME NEW v \in Worker, v # w PROVE SeqOK(wk[v])'
  <2>1. SeqOK(wk[v]) /\ wk'[v] = wk[v]
      BY <1>11 DEF SeqInv
  <2>2. CASE wk[v].pc = "idle"
      BY <2>1, <2>2 DEF SeqOK, Assigned
  <2>3. CASE wk[v].pc # "idle"
    <3>1. ConvOf(wk[v]) # c
        BY <1>11, <2>3, OwnConversations
    <3>2. ConvOf(wk[v]) \in Conv
        BY <2>3, WorkerFacts DEF ConvOf
    <3>3. maxSeq'[ConvOf(wk[v])] = maxSeq[ConvOf(wk[v])]
        BY <1>5, <3>1, <3>2
    <3>4. /\ Assigned(wk[v])' <=> Assigned(wk[v])
          /\ ConvOf(wk[v])' = ConvOf(wk[v]) /\ LastOf(wk[v])' = LastOf(wk[v])
        BY <2>1 DEF Assigned, ConvOf, LastOf
    <3> QED BY <1>6, <2>1, <3>3, <3>4 DEF SeqOK
  <2> QED BY <2>2, <2>3
<1>12. \A d \in Conv : maxSeq'[d] >= maxSeq[d]
    BY <1>5
<1> QED BY <1>8, <1>9, <1>10, <1>11, <1>12 DEF SeqInv

\* What a Run step does to the numbering, to MAX_SEQ and to its worker.
LEMMA SeqRunStep ==
    ASSUME TInv, Routing, SeqInv, NEW w \in Worker, RunStep(w), ~Run(w), ~ModifyPanic(w)
    PROVE  SeqInv' /\ \A d \in Conv : maxSeq'[d] >= maxSeq[d]
<1> DEFINE s == wk[w]
           c == ConvOf(s)
           es == Entries(s.b, s.ph, s.base)
           Grows == \A d \in Conv : maxSeq'[d] >= maxSeq[d]
<1>0. /\ s.pc # "idle" /\ s \in WorkerState /\ WorkerOK(s)
      /\ wk \in [Worker -> WorkerState] /\ SeqOK(s)
      /\ \A v \in Worker : v # w => wk'[v] = wk[v]
    BY RunStepFrame DEF TInv, TypeOK, SeqInv
<1>1. \A t : Goto(w, t) => wk'[w] = t
    BY <1>0 DEF Goto
<1>2. Quiet(EndPhase(s))
    BY <1>0, EndPhaseOK DEF Quiet
<1>3. UNCHANGED maxSeq => Grows
    BY DEF TInv, TypeOK
<1>4. ASSUME UNCHANGED <<maxSeq, mongoTopic, pushTopic>>, SeqOK(wk'[w])
      PROVE  SeqInv' /\ Grows
  <2>1. \A v \in Worker : wk'[v] = wk[v] \/ SeqOK(wk'[v])
      BY <1>0, <1>4
  <2> QED BY <1>3, <1>4, <2>1, SeqQuietStep
<1>5. CASE toPushTopic(w)
  <2> DEFINE j == Min(s.left)
             t == [s EXCEPT !.left = @ \ {j}]
             e == [conv |-> c, seq |-> PushSeq(s, j), msg |-> s.b.msgs[j]]
  <2>1. s.pc \in {"raw", "toPush"} /\ s.left # {} /\ UNCHANGED <<maxSeq, mongoTopic>>
      BY <1>5 DEF toPushTopic, redisVars, mongoVars
  <2>2. j \in s.left /\ s.left \subseteq CtxMsgList(s.b)
      BY <1>0, <2>1, MinInSet DEF WorkerState, WorkerOK
  <2>3. Push(w, e)
      BY <1>5 DEF toPushTopic, ConvOf
  <2>4. (s.pc = "toPush" /\ Goto(w, EndPhase(s))) \/ Goto(w, t)
      BY <1>5 DEF toPushTopic
  <2>5. t.pc = s.pc /\ t.b = s.b /\ t.ph = s.ph /\ t.base = s.base
      BY <1>0 DEF WorkerState
  <2>6. s.b \in Batch /\ s.b.key \in Key /\ s.b.msgs[j] \in Message /\ c \in Conv
      BY <1>0, <2>2, WorkerFacts, BatchProperties DEF ConvOf, Batch
  <2>7. CASE s.pc = "raw"
    <3>1. e \in Entry /\ e.seq = 0
        BY <2>6, <2>7 DEF PushSeq, Entry
    <3> HIDE DEF e, t, j
    <3>2. Numbered' \subseteq Numbered
      <4>1. CASE UNCHANGED pushTopic
          BY <2>1, <4>1 DEF Numbered, MongoLog, PushLog
      <4>2. CASE pushTopic' = [pushTopic EXCEPT ![s.b.key] = Append(@, e)]
          BY <2>1, <2>6, <3>1, <4>2, NumberedPush DEF TInv
      <4> QED BY <2>3, <4>1, <4>2 DEF Push
    <3>3. wk'[w] = t /\ Quiet(t)
        BY <1>1, <2>4, <2>5, <2>7 DEF Quiet
    <3>4. SeqInv'
      <4>1. \A v \in Worker : SeqOK(wk[v]) /\ (wk'[v] = wk[v] \/ Quiet(wk'[v]))
          BY <1>0, <3>3 DEF SeqInv
      <4>2. ASSUME NEW v \in Worker PROVE SeqOK(wk[v])'
        <5>1. CASE wk'[v] = wk[v]
          <6>1. /\ Assigned(wk[v])' <=> Assigned(wk[v])
                /\ ConvOf(wk[v])' = ConvOf(wk[v]) /\ LastOf(wk[v])' = LastOf(wk[v])
              BY <5>1 DEF Assigned, ConvOf, LastOf
          <6> QED BY <2>1, <3>2, <4>1, <5>1, <6>1 DEF SeqOK
        <5>2. CASE Quiet(wk'[v])
          <6>1. wk'[v].pc \notin {"setMsgs", "setMax", "setRead", "create", "toMongo", "toPush"}
              BY <5>2 DEF Quiet
          <6> QED BY <6>1 DEF SeqOK, Assigned
        <5> QED BY <4>1, <5>1, <5>2
      <4> QED BY <2>1, <3>2, <4>2 DEF SeqInv, SeqUnique, WithinMaxSeq, Same
    <3> QED BY <1>3, <2>1, <3>4
  <2>8. CASE s.pc = "toPush"
    <3>1. j \in StorageList(s.b, s.ph)
        BY <1>0, <2>2, <2>8 DEF WorkerOK
    <3>2. e = [conv |-> c, seq |-> s.base + Rank(StorageList(s.b, s.ph), j), msg |-> s.b.msgs[j]]
        BY <2>8 DEF PushSeq
    <3>3. e \in es /\ es \subseteq Entry
        BY <1>0, <3>1, <3>2, WorkerFacts, EntriesProperties DEF ConvOf
    <3> HIDE DEF e, t, j, es
    <3>4. \A f \in Numbered' : f \in Numbered \/ f \in es
      <4>1. CASE UNCHANGED pushTopic
          BY <2>1, <4>1 DEF Numbered, MongoLog, PushLog
      <4>2. CASE pushTopic' = [pushTopic EXCEPT ![s.b.key] = Append(@, e)]
          BY <2>1, <2>6, <3>3, <4>2, NumberedPush DEF TInv
      <4> QED BY <2>3, <4>1, <4>2 DEF Push
    <3>5. \/ Quiet(wk'[w])
          \/ /\ wk'[w].pc = "toPush" /\ wk'[w].b = wk[w].b
             /\ wk'[w].ph = wk[w].ph /\ wk'[w].base = wk[w].base
        BY <1>1, <1>2, <2>4, <2>5, <2>8
    <3>6. SeqInv'
        BY <1>0, <2>1, <2>8, <3>4, <3>5, SeqLeaveStep DEF es
    <3> QED BY <1>3, <2>1, <3>6
  <2> QED BY <2>1, <2>7, <2>8
<1>6. CASE GetMaxSeq(w)
  <2> DEFINE t == [s EXCEPT !.pc = "setMsgs", !.base = maxSeq[c], !.isNew = (maxSeq[c] = 0)]
  <2>1. (Goto(w, t) \/ Goto(w, EndPhase(s))) /\ UNCHANGED <<maxSeq, mongoTopic, pushTopic>>
      BY <1>6 DEF GetMaxSeq, ConvOf, redisVars, mongoVars
  <2>2. t.pc = "setMsgs" /\ t.b = s.b /\ t.ph = s.ph /\ t.base = maxSeq[c]
      BY <1>0 DEF WorkerState
  <2>3. SeqOK(t)
    <3> HIDE DEF t, s
    <3> QED BY <2>2 DEF SeqOK, Assigned, ConvOf
  <2> HIDE DEF t
  <2> QED BY <1>1, <1>2, <1>4, <2>1, <2>3, QuietOK
<1>7. CASE SetMessageToCache(w)
  <2> DEFINE t == [s EXCEPT !.pc = "setMax"]
  <2>1. s.pc = "setMsgs" /\ Goto(w, t) /\ UNCHANGED <<maxSeq, mongoTopic, pushTopic>>
      BY <1>7 DEF SetMessageToCache, mongoVars
  <2>2. t.pc = "setMax" /\ t.b = s.b /\ t.ph = s.ph /\ t.base = s.base
      BY <1>0 DEF WorkerState
  <2> HIDE DEF t
  <2>3. SeqOK(t)
      BY <1>0, <2>1, <2>2 DEF SeqOK, Assigned, ConvOf
  <2> QED BY <1>1, <1>4, <2>1, <2>3
<1>8. CASE SetMaxSeq(w)
  <2> DEFINE t1 == [s EXCEPT !.pc = "setRead"]
             t2 == [s EXCEPT !.pc = "setRead", !.err = TRUE]
  <2>1. s.pc = "setMax" /\ UNCHANGED <<mongoTopic, pushTopic>>
      BY <1>8 DEF SetMaxSeq, mongoVars
  <2>2. \/ Goto(w, t1) /\ maxSeq' = [maxSeq EXCEPT ![c] = LastOf(s)]
        \/ Goto(w, t2) /\ UNCHANGED maxSeq
      BY <1>8 DEF SetMaxSeq, ConvOf, LastOf
  <2>3. /\ t1.pc = "setRead" /\ t1.b = s.b /\ t1.ph = s.ph /\ t1.base = s.base
        /\ t2.pc = "setRead" /\ t2.err
      BY <1>0 DEF WorkerState
  <2> HIDE DEF t1, t2
  <2>4. CASE Goto(w, t1) /\ maxSeq' = [maxSeq EXCEPT ![c] = LastOf(s)]
      BY <1>0, <1>1, <2>1, <2>3, <2>4, SeqMaxStep
  <2>5. CASE Goto(w, t2) /\ UNCHANGED maxSeq
    <3>1. SeqOK(t2)
        BY <2>3 DEF SeqOK, Assigned
    <3> QED BY <1>1, <1>4, <2>1, <2>5, <3>1
  <2> QED BY <2>2, <2>4, <2>5
<1>9. CASE SetHasReadSeqs(w)
  <2> DEFINE t1 == [s EXCEPT !.pc = "create"]
             t2 == [s EXCEPT !.pc = "toMongo"]
  <2>1. s.pc = "setRead" /\ UNCHANGED <<maxSeq, mongoTopic, pushTopic>>
      BY <1>9 DEF SetHasReadSeqs, mongoVars
  <2>2. Goto(w, EndPhase(s)) \/ (~s.err /\ (Goto(w, t1) \/ Goto(w, t2)))
      BY <1>9 DEF SetHasReadSeqs
  <2>3. /\ t1.pc = "create" /\ t1.b = s.b /\ t1.ph = s.ph /\ t1.base = s.base
        /\ t2.pc = "toMongo" /\ t2.b = s.b /\ t2.ph = s.ph /\ t2.base = s.base
      BY <1>0 DEF WorkerState
  <2> HIDE DEF t1, t2
  <2>4. ~s.err => SeqOK(t1) /\ SeqOK(t2)
      BY <1>0, <2>1, <2>3 DEF SeqOK, Assigned, ConvOf, LastOf
  <2> QED BY <1>1, <1>2, <1>4, <2>1, <2>2, <2>4, QuietOK
<1>10. CASE FirstCreateConversation(w)
  <2> DEFINE t == [s EXCEPT !.pc = "toMongo"]
  <2>1. s.pc = "create" /\ Goto(w, t) /\ UNCHANGED <<maxSeq, mongoTopic, pushTopic>>
      BY <1>10 DEF FirstCreateConversation, mongoVars
  <2>2. t.pc = "toMongo" /\ t.b = s.b /\ t.ph = s.ph /\ t.base = s.base
      BY <1>0 DEF WorkerState
  <2> HIDE DEF t
  <2>3. SeqOK(t)
      BY <1>0, <2>1, <2>2 DEF SeqOK, Assigned, ConvOf, LastOf
  <2> QED BY <1>1, <1>4, <2>1, <2>3
<1>11. CASE MsgToMongoMQ(w)
  <2> DEFINE t == [s EXCEPT !.pc = "toPush", !.left = StorageList(s.b, s.ph)]
             p == PartOf[s.b.key]
  <2>1. s.pc = "toMongo" /\ Goto(w, t) /\ UNCHANGED <<maxSeq, pushTopic>>
      BY <1>11 DEF MsgToMongoMQ, redisVars
  <2>2. t.pc = "toPush" /\ t.b = s.b /\ t.ph = s.ph /\ t.base = s.base
      BY <1>0 DEF WorkerState
  <2>3. p \in Partition /\ es \subseteq Entry
      BY <1>0, WorkerFacts, EntriesProperties
  <2>4. UNCHANGED mongoTopic \/ mongoTopic' = [mongoTopic EXCEPT ![p] = Append(@, es)]
      BY <1>11 DEF MsgToMongoMQ
  <2> HIDE DEF t, p, es
  <2>5. \A f \in Numbered' : f \in Numbered \/ f \in es
    <3>1. CASE UNCHANGED mongoTopic
        BY <2>1, <3>1 DEF Numbered, MongoLog, PushLog
    <3>2. CASE mongoTopic' = [mongoTopic EXCEPT ![p] = Append(@, es)]
        BY <2>1, <2>3, <3>2, NumberedMongo DEF TInv
    <3> QED BY <2>4, <3>1, <3>2
  <2>6. SeqInv'
      BY <1>0, <1>1, <2>1, <2>2, <2>5, SeqLeaveStep DEF es
  <2> QED BY <1>3, <2>1, <2>6
<1> QED BY <1>5, <1>6, <1>7, <1>8, <1>9, <1>10, <1>11 DEF RunStep

\* Every step keeps the numbering in order and never lowers a MAX_SEQ.
LEMMA SeqNext ==
    ASSUME TInv, Routing, SeqInv, [Next]_vars
    PROVE  SeqInv' /\ \A d \in Conv : maxSeq'[d] >= maxSeq[d]
<1>1. UNCHANGED maxSeq => \A d \in Conv : maxSeq'[d] >= maxSeq[d]
    BY DEF TInv, TypeOK
<1>2. ASSUME UNCHANGED <<maxSeq, mongoTopic, pushTopic>>,
             \A v \in Worker : wk'[v] = wk[v] \/ Quiet(wk'[v])
      PROVE  SeqInv' /\ \A d \in Conv : maxSeq'[d] >= maxSeq[d]
    BY <1>1, <1>2, QuietOK, SeqQuietStep
<1>3. CASE UNCHANGED vars
    BY <1>2, <1>3 DEF vars, redisVars, mongoVars
<1>4. ASSUME NEW i \in Instance, Crash(i)
      PROVE  SeqInv' /\ \A d \in Conv : maxSeq'[d] >= maxSeq[d]
  <2>1. \A v \in Worker : wk'[v] = Idle \/ wk'[v] = wk[v]
      BY <1>4 DEF Crash, Lost
  <2>2. Quiet(Idle)
      BY DEF Quiet, Idle
  <2> QED BY <1>2, <1>4, <2>1, <2>2 DEF Crash, redisVars
<1>5. ASSUME NEW w \in Worker, RunStep(w)
      PROVE  SeqInv' /\ \A d \in Conv : maxSeq'[d] >= maxSeq[d]
  <2>1. CASE Run(w)
    <3>1. chArrays[w] \in Seq(Batch) /\ chArrays[w] # <<>>
        BY <2>1 DEF Run, TInv, TypeOK
    <3>2. Head(chArrays[w]) = chArrays[w][1] /\ Head(chArrays[w]) \in Batch
          /\ 1 \in 1 .. Len(chArrays[w])
        BY <3>1, HeadTailProperties, EmptySeq, LenProperties
    <3>3. CtxMsgList(Head(chArrays[w])) # {}
        BY <3>2 DEF TInv, BatchOK
    <3>4. Quiet(StartPhase(Head(chArrays[w]), "chat"))
        BY <3>2, <3>3, StartPhaseOK DEF Quiet, Phase
    <3>5. wk' = [wk EXCEPT ![w] = StartPhase(Head(chArrays[w]), "chat")]
        BY <2>1 DEF Run, Goto
    <3>6. \A v \in Worker : wk'[v] = wk[v] \/ Quiet(wk'[v])
        BY <3>4, <3>5 DEF TInv, TypeOK
    <3> QED BY <1>2, <2>1, <3>6 DEF Run, redisVars, mongoVars
  <2>2. CASE ModifyPanic(w)
    <3>1. w[1] \in Instance
        BY DEF Worker
    <3> QED BY <1>4, <2>2, <3>1 DEF ModifyPanic
  <2> QED BY <1>5, <2>1, <2>2, SeqRunStep
<1>6. ASSUME \/ \E d \in Payload : MsgToMQ(d)
             \/ \E p \in Partition : ConsumeClaim(p) \/ AutoCommit(p)
             \/ \E x \in Claim : Tick(x) \/ Distribute(x)
             \/ \E i \in Instance, k \in Key : Route(i, k)
             \/ \E p \in Partition : MongoInsert(p) \/ MongoEvict(p) \/ MongoAutoCommit(p)
             \/ \E p \in Partition, j \in Instance : Rebalance(p, j)
      PROVE  SeqInv' /\ \A d \in Conv : maxSeq'[d] >= maxSeq[d]
  <2>1. UNCHANGED <<wk, maxSeq, mongoTopic, pushTopic>>
      BY <1>6 DEF MsgToMQ, ConsumeClaim, AutoCommit, Tick, Distribute, Route, MongoInsert,
                  MongoEvict, MongoAutoCommit, Rebalance, redisVars, mongoVars
  <2> QED BY <1>2, <2>1
<1> QED BY <1>3, <1>4, <1>5, <1>6 DEF Next

\* Initially nothing is queued, numbered or under way.
LEMMA SeqInit == Init => Routing /\ SeqInv
<1> SUFFICES ASSUME Init PROVE Routing /\ SeqInv
    OBVIOUS
<1>1. \A w \in Worker : wk[w].pc = "idle"
    BY DEF Init, Idle
<1>2. /\ \A p \in Partition : Len(topic[p]) = 0 /\ Len(mongoTopic[p]) = 0
      /\ \A x \in Claim : Len(cMsg[x]) = 0 /\ Len(ccMsg[x]) = 0
      /\ \A w \in Worker : Len(chArrays[w]) = 0
      /\ \A k \in Key : Len(pushTopic[k]) = 0
    BY EmptySeq DEF Init
<1>3. Routing
  <2>1. \A i \in Instance : agg[i].keys = {}
      BY DEF Init
  <2> QED BY <1>1, <1>2, <2>1 DEF Routing, InClaim
<1>4. Numbered = {}
    BY <1>2 DEF Numbered, MongoLog, PushLog
<1>5. \A w \in Worker : SeqOK(wk[w])
    BY <1>1, QuietOK DEF Quiet
<1> QED BY <1>3, <1>4, <1>5 DEF SeqInv, SeqUnique, WithinMaxSeq

SInv == TInv /\ Routing /\ SeqInv

\* The inductive invariant of the numbering holds of every behaviour.
LEMMA SInvHolds ==
    ASSUME OneHome
    PROVE  Spec => []SInv
<1>1. Init => SInv
    BY TypeInit, SeqInit DEF SInv
<1>2. SInv /\ [Next]_vars => SInv'
    BY TypeNext, RoutingNext, SeqNext DEF SInv
<1> QED BY <1>1, <1>2, PTL DEF Spec

\* While partitions do not change hands, no two messages ever leave msgtransfer under
\* one seq of one conversation, whatever calls fail and whenever processes crash or
\* claim their own partitions again.
THEOREM SeqUniqueHolds ==
    ASSUME OneHome
    PROVE  Spec => []SeqUnique
<1>1. SInv => SeqUnique
    BY DEF SInv, SeqInv
<1> QED BY <1>1, SInvHolds, PTL

\* Under the same assumption nothing is pushed or sent to Mongo under a seq beyond
\* the MAX_SEQ of its conversation.
THEOREM WithinMaxSeqHolds ==
    ASSUME OneHome
    PROVE  Spec => []WithinMaxSeq
<1>1. SInv => WithinMaxSeq
    BY DEF SInv, SeqInv
<1> QED BY <1>1, SInvHolds, PTL

\* Under the same assumption MAX_SEQ of a conversation never goes back.
THEOREM MaxSeqMonotoneHolds ==
    ASSUME OneHome
    PROVE  Spec => MaxSeqMonotone
<1>1. SInv /\ [Next]_vars => [\A c \in Conv : maxSeq'[c] >= maxSeq[c]]_vars
    BY SeqNext DEF SInv
<1> QED BY <1>1, SInvHolds, PTL DEF Spec, MaxSeqMonotone
=============================================================================
