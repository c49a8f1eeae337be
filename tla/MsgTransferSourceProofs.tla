----------------------- MODULE MsgTransferSourceProofs -----------------------
(***************************************************************************)
(* Seq order is send order. A message goes through a claim's buffer, its   *)
(* ticker, the distributor and a worker's channel before it is numbered;   *)
(* the invariant says that what is further along a key's way was sent      *)
(* earlier, and the batches keep the order of their messages.              *)
(***************************************************************************)
EXTENDS MsgTransferOrderProofs

\* Each partition is consumed by one call of ConsumeClaim that never stops.
OneClaim == MaxRebalance = 0 /\ MaxCrash = 0

-----------------------------------------------------------------------------
(* Offsets at each stage, and from each stage on back to the topic.        *)

Below(A, B) == \A m \in A : \A n \in B : m < n
InOrder(q) == \A m, n \in 1 .. Len(q) : m < n => q[m].off < q[n].off

Offs(q) == {q[n].off : n \in 1 .. Len(q)}
OffsOf(q, k) == {q[n].off : n \in {m \in 1 .. Len(q) : q[m].data.key = k}}
BatchOffs(b) == OffsOf(b.msgs, b.key)

ClaimOf(k) == <<owner[PartOf[k]], PartOf[k], 0>>
Grouped(k) == LET a == agg[owner[PartOf[k]]]
              IN  IF k \in a.keys THEN OffsOf(a.msgs, k) ELSE {}
Queued(k) == UNION {BatchOffs(chArrays[Home(k)][n]) :
                      n \in {m \in 1 .. Len(chArrays[Home(k)]) : chArrays[Home(k)][m].key = k}}

FromTopic(p)  == {n \in Nat : n > pos[p]}
FromBuffer(x) == Offs(cMsg[x]) \cup FromTopic(x[2])
FromTicker(x) == Offs(ccMsg[x]) \cup FromBuffer(x)
FromGroups(k) == Grouped(k) \cup FromTicker(ClaimOf(k))
FromQueue(k)  == Queued(k) \cup FromGroups(k)

TopicOrder == \A p \in Partition : \A n \in 1 .. Len(topic[p]) : topic[p][n].off = n
BufferOrder == \A x \in Claim : InOrder(cMsg[x]) /\ Below(Offs(cMsg[x]), FromTopic(x[2]))
TickerOrder == \A x \in Claim : InOrder(ccMsg[x]) /\ Below(Offs(ccMsg[x]), FromBuffer(x))
GroupOrder ==
    /\ \A i \in Instance : InOrder(agg[i].msgs)
    /\ \A k \in Key : Below(Grouped(k), FromTicker(ClaimOf(k)))
QueuedOK(w, n, k) ==
    /\ InOrder(chArrays[w][n].msgs)
    /\ Below(BatchOffs(chArrays[w][n]), FromGroups(k))
    /\ \A m \in 1 .. Len(chArrays[w]) : m < n /\ chArrays[w][m].key = k =>
           Below(BatchOffs(chArrays[w][m]), BatchOffs(chArrays[w][n]))
QueueOrder ==
    \A w \in Worker : \A n \in 1 .. Len(chArrays[w]) : \A k \in Key :
        chArrays[w][n].key = k => QueuedOK(w, n, k)
WorkerOrder ==
    \A w \in Worker : \A k \in Key : wk[w].pc # "idle" /\ wk[w].b.key = k =>
        InOrder(wk[w].b.msgs) /\ Below(BatchOffs(wk[w].b), FromQueue(k))

\* No stage ever holds an offset that was not at it or behind it before.
Shrinks ==
    /\ \A p \in Partition : FromTopic(p)' \subseteq FromTopic(p)
    /\ \A x \in Claim : FromBuffer(x)' \subseteq FromBuffer(x) /\ FromTicker(x)' \subseteq FromTicker(x)
    /\ \A k \in Key : FromGroups(k)' \subseteq FromGroups(k) /\ FromQueue(k)' \subseteq FromQueue(k)

-----------------------------------------------------------------------------
(* Lemmas on lists.                                                        *)

\* Something before a set is before its subsets.
LEMMA BelowSubset ==
    ASSUME NEW A, NEW B, NEW C, Below(A, B), C \subseteq B
    PROVE  Below(A, C)
BY DEF Below

\* A message later than all of a list extends it in order.
LEMMA AppendOrder ==
    ASSUME NEW q \in Seq(Message), NEW m \in Message, InOrder(q), \A n \in Offs(q) : n < m.off
    PROVE  InOrder(Append(q, m)) /\ Offs(Append(q, m)) \subseteq Offs(q) \cup {m.off}
<1> DEFINE r == Append(q, m)
           l == Len(q)
<1>1. l \in Nat /\ Len(r) = l + 1 /\ r[l + 1] = m /\ \A n \in 1 .. l : r[n] = q[n]
    BY AppendProperties, LenProperties
<1> HIDE DEF r
<1>2. \A n \in 1 .. Len(r) : n \in 1 .. l \/ n = l + 1
    BY <1>1
<1>3. \A n \in 1 .. l : q[n].off \in Offs(q)
    BY DEF Offs
<1>4. InOrder(r)
  <2> SUFFICES ASSUME NEW a \in 1 .. Len(r), NEW b \in 1 .. Len(r), a < b
               PROVE  r[a].off < r[b].off
      BY DEF InOrder
  <2>1. a \in 1 .. l
      BY <1>1
  <2>2. CASE b \in 1 .. l
      BY <1>1, <2>1, <2>2 DEF InOrder
  <2>3. CASE b = l + 1
      BY <1>1, <1>3, <2>1, <2>3
  <2> QED BY <1>2, <2>2, <2>3
<1>5. Offs(r) \subseteq Offs(q) \cup {m.off}
  <2> SUFFICES ASSUME NEW n \in 1 .. Len(r) PROVE r[n].off \in Offs(q) \/ r[n].off = m.off
      BY DEF Offs
  <2> QED BY <1>1, <1>2, <1>3
<1> QED BY <1>4, <1>5 DEF r

\* s and r are the first n messages of q and the rest, in order.
Cut(q, n, s, r) ==
    /\ s \in Seq(Message) /\ Len(s) = n
    /\ \A j \in 1 .. n : s[j] = q[j] /\ j \in 1 .. Len(q)
    /\ InOrder(s) /\ InOrder(r)
    /\ Offs(s) \subseteq Offs(q) /\ Offs(r) \subseteq Offs(q)
    /\ Below(Offs(s), Offs(r))

\* A list cut in two keeps its order inside and between the parts.
LEMMA CutOrder ==
    ASSUME NEW q \in Seq(Message), InOrder(q), NEW n \in 0 .. Len(q),
           NEW s, s = SubSeq(q, 1, n), NEW r, r = SubSeq(q, n + 1, Len(q))
    PROVE  Cut(q, n, s, r)
<1>1. Len(q) \in Nat /\ n \in Nat /\ n <= Len(q) /\ \A j \in 1 .. Len(q) : q[j] \in Message
    BY LenProperties, ElementOfSeq
<1>2. \A j \in 1 .. n : j \in 1 .. Len(q) /\ 1 + j - 1 = j
    BY <1>1
<1>3. s \in Seq(Message) /\ Len(s) = n /\ \A j \in 1 .. n : s[j] = q[j]
    BY <1>1, <1>2, SubSeqProperties
<1>4. \A j \in n + 1 .. Len(q) : j \in 1 .. Len(q)
    BY <1>1
<1>5. /\ Len(r) = Len(q) - n
      /\ \A j \in 1 .. Len(q) - n : r[j] = q[n + j]
  <2>1. \A j \in 1 .. Len(q) - n : n + 1 + j - 1 = n + j
      BY <1>1
  <2>2. Len(q) - (n + 1) + 1 = Len(q) - n
      BY <1>1
  <2>3. Len(r) = IF n + 1 <= Len(q) THEN Len(q) - n ELSE 0
      BY <1>1, <1>4, <2>2, SubSeqProperties
  <2>4. \A j \in 1 .. Len(q) - n : r[j] = q[n + 1 + j - 1]
      BY <1>1, <1>4, <2>2, SubSeqProperties
  <2> QED BY <1>1, <2>1, <2>3, <2>4
<1>6. \A j \in 1 .. Len(r) : r[j] = q[n + j] /\ n + j \in 1 .. Len(q) /\ j \in Nat
    BY <1>1, <1>5
<1>7. \A j \in 1 .. Len(s) : s[j] = q[j] /\ j \in 1 .. Len(q)
    BY <1>2, <1>3
<1>8. InOrder(s)
    BY <1>7 DEF InOrder
<1>9. InOrder(r)
  <2> SUFFICES ASSUME NEW a \in 1 .. Len(r), NEW b \in 1 .. Len(r), a < b
               PROVE  r[a].off < r[b].off
      BY DEF InOrder
  <2>1. n + a < n + b
      BY <1>1, <1>6
  <2> QED BY <1>6, <2>1 DEF InOrder
<1>10. Offs(s) \subseteq Offs(q)
    BY <1>7 DEF Offs
<1>11. Offs(r) \subseteq Offs(q)
    BY <1>6 DEF Offs
<1>12. Below(Offs(s), Offs(r))
  <2> SUFFICES ASSUME NEW a \in 1 .. Len(s), NEW b \in 1 .. Len(r) PROVE s[a].off < r[b].off
      BY DEF Below, Offs
  <2>1. a < n + b
      BY <1>1, <1>3, <1>6
  <2> QED BY <1>6, <1>7, <2>1 DEF InOrder
<1> QED BY <1>2, <1>3, <1>8, <1>9, <1>10, <1>11, <1>12 DEF Cut

\* The offsets of one key are offsets of the list.
LEMMA OffsOfSubset == \A q, k : OffsOf(q, k) \subseteq Offs(q)
BY DEF OffsOf, Offs

\* In a batch in order, seqs and offsets grow together.
LEMMA EntriesOrder ==
    ASSUME NEW b \in Batch, CtxMsgList(b) # {}, NEW ph \in Phase, NEW base \in Nat, InOrder(b.msgs)
    PROVE  /\ \A e \in Entries(b, ph, base) : e.msg.off \in BatchOffs(b)
           /\ \A e, f \in Entries(b, ph, base) : e.seq < f.seq => e.msg.off < f.msg.off
<1> DEFINE I == StorageList(b, ph)
           c == ConversationOf(b, ph)
           E(j) == [conv |-> c, seq |-> base + Rank(I, j), msg |-> b.msgs[j]]
<1>1. I \subseteq CtxMsgList(b) /\ CtxMsgList(b) \subseteq Nat /\ IsFiniteSet(I)
    BY BatchProperties
<1>2. \A j \in CtxMsgList(b) : j \in 1 .. Len(b.msgs) /\ b.msgs[j].data.key = b.key
  <2>1. DOMAIN b.msgs = 1 .. Len(b.msgs)
      BY LenProperties DEF Batch
  <2> QED BY <2>1 DEF CtxMsgList
<1>3. \A e \in Entries(b, ph, base) : \E j \in I : e = E(j)
    BY DEF Entries
<1>4. \A j \in I : b.msgs[j].off \in BatchOffs(b)
    BY <1>1, <1>2 DEF BatchOffs, OffsOf
<1>5. \A j \in I : E(j).seq = base + Rank(I, j) /\ E(j).msg = b.msgs[j]
    OBVIOUS
<1> HIDE DEF E
<1>6. \A j, k \in I : E(j).seq < E(k).seq => b.msgs[j].off < b.msgs[k].off
  <2> SUFFICES ASSUME NEW j \in I, NEW k \in I, E(j).seq < E(k).seq
               PROVE  b.msgs[j].off < b.msgs[k].off
      OBVIOUS
  <2>1. Rank(I, j) \in Nat /\ Rank(I, k) \in Nat
      BY <1>1, RankProperties
  <2>2. Rank(I, j) < Rank(I, k)
    <3> HIDE DEF I
    <3> QED BY <1>5, <2>1
  <2>3. ~(k < j) /\ j # k
    <3>1. k < j => Rank(I, k) < Rank(I, j)
        BY <1>1, RankOrder
    <3> QED BY <2>1, <2>2, <3>1
  <2>4. j < k /\ j \in 1 .. Len(b.msgs) /\ k \in 1 .. Len(b.msgs)
      BY <1>1, <1>2, <2>3
  <2> QED BY <2>4 DEF InOrder
<1> QED BY <1>3, <1>4, <1>5, <1>6

-----------------------------------------------------------------------------
(* The steps along the way. Each moves offsets one stage on, so that the   *)
(* stages and what is behind them only shrink, and what it adds to a stage *)
(* is before everything behind that stage.                                 *)

\* The home of a key, its claim and its partition.
LEMMA KeyFacts ==
    ASSUME OneClaim, TInv
    PROVE  /\ \A k \in Key : Home(k) \in Worker /\ ClaimOf(k) \in Claim /\ PartOf[k] \in Partition
                             /\ owner[PartOf[k]] \in Instance /\ ClaimOf(k)[2] = PartOf[k]
           /\ \A x \in Claim : x[1] \in Instance /\ x[2] \in Partition /\ x = <<x[1], x[2], 0>>
           /\ \A p \in Partition : gen[p] = 0
<1>1. 0 .. MaxRebalance = {0}
    BY DEF OneClaim
<1>2. \A k \in Key : PartOf[k] \in Partition /\ ChanOf[k] \in Channel
    BY TransferAssumption
<1>3. \A p \in Partition : owner[p] \in Instance /\ gen[p] = 0
    BY <1>1 DEF TInv, TypeOK
<1>4. \A x \in Claim : x[1] \in Instance /\ x[2] \in Partition /\ x = <<x[1], x[2], 0>>
    BY <1>1 DEF Claim
<1>5. \A k \in Key : Home(k) \in Worker /\ ClaimOf(k) \in Claim /\ ClaimOf(k)[2] = PartOf[k]
    BY <1>1, <1>2, <1>3 DEF Home, ClaimOf, Worker, Claim
<1> QED BY <1>2, <1>3, <1>4, <1>5

\* A step that leaves the queues and the offsets read alone shrinks nothing.
LEMMA FlowFrame ==
    ASSUME UNCHANGED <<owner, pos, bufVars>>
    PROVE  /\ Shrinks
           /\ BufferOrder /\ TickerOrder /\ GroupOrder /\ QueueOrder
                  => (BufferOrder /\ TickerOrder /\ GroupOrder /\ QueueOrder)'
           /\ \A k : FromQueue(k)' = FromQueue(k)
<1>1. UNCHANGED <<owner, pos, cMsg, ccMsg, agg, chArrays>>
    BY DEF bufVars
<1>2. \A p : FromTopic(p)' = FromTopic(p)
    BY <1>1 DEF FromTopic
<1>3. \A x : FromBuffer(x)' = FromBuffer(x) /\ FromTicker(x)' = FromTicker(x)
    BY <1>1, <1>2 DEF FromBuffer, FromTicker
<1>4. \A k : ClaimOf(k)' = ClaimOf(k) /\ Grouped(k)' = Grouped(k) /\ Home(k)' = Home(k)
    BY <1>1 DEF ClaimOf, Grouped, Home
<1>5. \A k : FromTicker(ClaimOf(k))' = FromTicker(ClaimOf(k))
    BY <1>1 DEF FromTicker, FromBuffer, FromTopic, ClaimOf
<1>6. \A k : FromGroups(k)' = FromGroups(k)
    BY <1>4, <1>5 DEF FromGroups
<1>7. \A k : Queued(k)' = Queued(k)
    BY <1>1 DEF Queued, Home
<1>8. \A k : FromQueue(k)' = FromQueue(k)
    BY <1>6, <1>7 DEF FromQueue
<1>9. Shrinks
    BY <1>2, <1>3, <1>6, <1>8 DEF Shrinks
<1>10. BufferOrder => BufferOrder'
    BY <1>1, <1>2 DEF BufferOrder
<1>11. TickerOrder => TickerOrder'
    BY <1>1, <1>3 DEF TickerOrder
<1>12. GroupOrder => GroupOrder'
    BY <1>1, <1>4, <1>5 DEF GroupOrder
<1>13. QueueOrder => QueueOrder'
    BY <1>1, <1>6 DEF QueueOrder, QueuedOK
<1> QED BY <1>8, <1>9, <1>10, <1>11, <1>12, <1>13

GroupsShrink == \A k \in Key : FromGroups(k)' \subseteq FromGroups(k)
QueuesShrink == \A k \in Key : FromQueue(k)' \subseteq FromQueue(k)
TickersShrink == \A x \in Claim : FromTicker(x)' \subseteq FromTicker(x)
BuffersShrink == \A x \in Claim : FromBuffer(x)' \subseteq FromBuffer(x)

\* Channels nobody touches stay in order when what is behind them shrinks.
LEMMA AboveGroups ==
    ASSUME TInv, UNCHANGED <<owner, chArrays>>, GroupsShrink
    PROVE  QueuesShrink /\ (QueueOrder => QueueOrder')
<1>1. \A k : Queued(k)' = Queued(k)
    BY DEF Queued, Home
<1>2. QueuesShrink
    BY <1>1 DEF QueuesShrink, FromQueue, GroupsShrink
<1>3. ASSUME NEW w \in Worker, NEW n \in 1 .. Len(chArrays[w]), NEW k \in Key, QueuedOK(w, n, k)
      PROVE  QueuedOK(w, n, k)'
  <2>1. Below(BatchOffs(chArrays[w][n]), FromGroups(k)')
      BY <1>3, BelowSubset DEF QueuedOK, GroupsShrink
  <2> QED BY <1>3, <2>1 DEF QueuedOK
<1> QED BY <1>2, <1>3 DEF QueueOrder

\* The same for the distributor.
LEMMA AboveTicker ==
    ASSUME OneClaim, TInv, UNCHANGED <<owner, agg, chArrays>>, TickersShrink
    PROVE  /\ GroupsShrink /\ QueuesShrink
           /\ GroupOrder => GroupOrder'
           /\ QueueOrder => QueueOrder'
<1>1. \A k : ClaimOf(k)' = ClaimOf(k) /\ Grouped(k)' = Grouped(k)
    BY DEF ClaimOf, Grouped
<1>2. ASSUME NEW k \in Key PROVE FromTicker(ClaimOf(k))' \subseteq FromTicker(ClaimOf(k))
  <2>1. PICK x \in Claim : x = ClaimOf(k)
      BY KeyFacts
  <2>2. x = ClaimOf(k)'
      BY <1>1, <2>1
  <2>3. FromTicker(x)' \subseteq FromTicker(x)
      BY DEF TickersShrink
  <2>4. FromTicker(ClaimOf(k))' = FromTicker(x)'
      BY <2>2 DEF FromTicker, FromBuffer, FromTopic
  <2> QED BY <2>1, <2>3, <2>4
<1>3. GroupsShrink
    BY <1>1, <1>2 DEF GroupsShrink, FromGroups
<1>4. GroupOrder => GroupOrder'
  <2> SUFFICES ASSUME GroupOrder PROVE GroupOrder'
      OBVIOUS
  <2>1. \A k \in Key : Below(Grouped(k), FromTicker(ClaimOf(k))')
      BY <1>2 DEF GroupOrder, Below
  <2> QED BY <1>1, <2>1 DEF GroupOrder
<1> QED BY <1>3, <1>4, AboveGroups

\* The same for the ticker.
LEMMA AboveBuffer ==
    ASSUME OneClaim, TInv, UNCHANGED <<owner, ccMsg, agg, chArrays>>, BuffersShrink
    PROVE  /\ TickersShrink /\ GroupsShrink /\ QueuesShrink
           /\ TickerOrder => TickerOrder'
           /\ GroupOrder => GroupOrder'
           /\ QueueOrder => QueueOrder'
<1>1. TickersShrink
    BY DEF TickersShrink, BuffersShrink, FromTicker
<1>2. TickerOrder => TickerOrder'
  <2> SUFFICES ASSUME TickerOrder PROVE TickerOrder'
      OBVIOUS
  <2>1. \A x \in Claim : Below(Offs(ccMsg[x]), FromBuffer(x)')
      BY DEF TickerOrder, BuffersShrink, Below
  <2> QED BY <2>1 DEF TickerOrder
<1> QED BY <1>1, <1>2, AboveTicker

Stages == TopicOrder /\ BufferOrder /\ TickerOrder /\ GroupOrder /\ QueueOrder

\* SendMsg appends to the topic.
LEMMA FlowSend ==
    ASSUME TInv, Stages, NEW d \in Payload, MsgToMQ(d)
    PROVE  Stages' /\ QueuesShrink
<1> DEFINE p == PartOf[d.key]
           m == [off |-> Len(topic[p]) + 1, data |-> d]
<1>1. p \in Partition /\ topic[p] \in Seq(Message) /\ Len(topic[p]) \in Nat
    BY TransferAssumption, LenProperties DEF TInv, TypeOK, PayloadType
<1>2. m \in Message /\ m.off = Len(topic[p]) + 1
    BY <1>1 DEF Message
<1>3. topic' = [topic EXCEPT ![p] = Append(topic[p], m)]
    BY DEF MsgToMQ
<1> HIDE DEF p, m
<1>4. /\ Len(Append(topic[p], m)) = Len(topic[p]) + 1
      /\ \A n \in 1 .. Len(topic[p]) : Append(topic[p], m)[n] = topic[p][n]
      /\ Append(topic[p], m)[Len(topic[p]) + 1] = m
    BY <1>1, <1>2, AppendProperties
<1>5. \A n \in 1 .. Len(Append(topic[p], m)) : n \in 1 .. Len(topic[p]) \/ n = Len(topic[p]) + 1
    BY <1>1, <1>4
<1>6. \A n \in 1 .. Len(Append(topic[p], m)) : Append(topic[p], m)[n].off = n
    BY <1>1, <1>2, <1>4, <1>5 DEF Stages, TopicOrder
<1>7. TopicOrder'
    BY <1>1, <1>3, <1>6 DEF Stages, TopicOrder, TInv, TypeOK
<1>8. UNCHANGED <<owner, pos, bufVars>>
    BY DEF MsgToMQ
<1> QED BY <1>7, <1>8, FlowFrame DEF Stages, Shrinks, QueuesShrink

\* ConsumeClaim moves the next offset of the topic to the end of its buffer.
LEMMA FlowConsume ==
    ASSUME OneClaim, TInv, Stages, NEW p \in Partition, ConsumeClaim(p)
    PROVE  Stages' /\ QueuesShrink
<1> DEFINE x == <<owner[p], p, gen[p]>>
           m == topic[p][pos[p] + 1]
<1>1. /\ x \in Claim /\ x[2] = p /\ cMsg[x] \in Seq(Message) /\ topic[p] \in Seq(Message)
      /\ pos[p] \in Nat /\ pos \in [Partition -> Nat] /\ cMsg \in [Claim -> Seq(Message)]
    BY DEF TInv, TypeOK, Claim
<1>2. pos[p] + 1 \in 1 .. Len(topic[p])
    BY <1>1, LenProperties DEF ConsumeClaim
<1>3. m \in Message /\ m.off = pos[p] + 1
    BY <1>1, <1>2, ElementOfSeq DEF Stages, TopicOrder
<1>4. /\ cMsg' = [cMsg EXCEPT ![x] = Append(cMsg[x], m)]
      /\ pos' = [pos EXCEPT ![p] = pos[p] + 1]
      /\ UNCHANGED <<topic, owner, ccMsg, agg, chArrays>>
    BY DEF ConsumeClaim
<1> HIDE DEF x, m
<1>5. /\ FromTopic(p)' = {n \in Nat : n > pos[p] + 1}
      /\ \A q \in Partition : q # p => FromTopic(q)' = FromTopic(q)
    BY <1>1, <1>4 DEF FromTopic
<1>6. FromTopic(p)' \subseteq FromTopic(p) /\ m.off \in FromTopic(p)
      /\ \A n \in FromTopic(p)' : m.off < n
    BY <1>1, <1>3, <1>5 DEF FromTopic
<1>7. \A q \in Partition : FromTopic(q)' \subseteq FromTopic(q)
    BY <1>5, <1>6
<1>8. InOrder(cMsg[x]) /\ Below(Offs(cMsg[x]), FromTopic(p))
    BY <1>1 DEF Stages, BufferOrder
<1>9. \A n \in Offs(cMsg[x]) : n < m.off
    BY <1>6, <1>8 DEF Below
<1>10. InOrder(cMsg'[x]) /\ Offs(cMsg'[x]) \subseteq Offs(cMsg[x]) \cup {m.off}
  <2>1. cMsg'[x] = Append(cMsg[x], m)
      BY <1>1, <1>4
  <2> QED BY <1>1, <1>3, <1>8, <1>9, <2>1, AppendOrder
<1>11. \A y \in Claim : y # x => cMsg'[y] = cMsg[y]
    BY <1>1, <1>4
<1>12. \A y \in Claim : y[2] \in Partition
    BY KeyFacts
<1>13. BuffersShrink
  <2> SUFFICES ASSUME NEW y \in Claim PROVE FromBuffer(y)' \subseteq FromBuffer(y)
      BY DEF BuffersShrink
  <2>1. FromTopic(y[2])' \subseteq FromTopic(y[2])
      BY <1>7, <1>12
  <2>2. CASE y = x
      BY <1>1, <1>6, <1>10, <2>1, <2>2 DEF FromBuffer
  <2>3. CASE y # x
      BY <1>11, <2>1, <2>3 DEF FromBuffer
  <2> QED BY <2>2, <2>3
<1>14. BufferOrder'
  <2> SUFFICES ASSUME NEW y \in Claim
               PROVE  InOrder(cMsg'[y]) /\ Below(Offs(cMsg'[y]), FromTopic(y[2])')
      BY DEF BufferOrder
  <2>1. FromTopic(y[2])' \subseteq FromTopic(y[2])
      BY <1>7, <1>12
  <2>2. CASE y = x
    <3>1. Below(Offs(cMsg'[x]), FromTopic(p)')
        BY <1>6, <1>8, <1>10 DEF Below
    <3> QED BY <1>1, <1>10, <2>2, <3>1
  <2>3. CASE y # x
      BY <1>11, <2>1, <2>3 DEF Stages, BufferOrder, Below
  <2> QED BY <2>2, <2>3
<1>15. TopicOrder'
    BY <1>4 DEF Stages, TopicOrder
<1> QED BY <1>4, <1>13, <1>14, <1>15, AboveBuffer DEF Stages

\* The ticker takes over the whole buffer.
LEMMA FlowTick ==
    ASSUME OneClaim, TInv, Stages, NEW x \in Claim, Tick(x)
    PROVE  Stages' /\ QueuesShrink
<1>1. UNCHANGED <<topic, owner, pos, agg, chArrays>>
    BY DEF Tick, kafkaVars
<1>2. /\ cMsg'[x] = <<>> /\ ccMsg'[x] = cMsg[x] /\ ccMsg[x] = <<>>
      /\ \A y \in Claim : y # x => cMsg'[y] = cMsg[y] /\ ccMsg'[y] = ccMsg[y]
    BY DEF Tick, TInv, TypeOK
<1>3. Offs(<<>>) = {} /\ InOrder(<<>>)
    BY EmptySeq DEF Offs, InOrder
<1>4. \A p : FromTopic(p)' = FromTopic(p)
    BY <1>1 DEF FromTopic
<1>5. FromBuffer(x)' = FromTopic(x[2])
    BY <1>2, <1>3, <1>4 DEF FromBuffer
<1>6. \A y \in Claim : y # x => FromBuffer(y)' = FromBuffer(y) /\ FromTicker(y)' = FromTicker(y)
    BY <1>2, <1>4 DEF FromBuffer, FromTicker
<1>7. FromTicker(x)' \subseteq FromTicker(x)
    BY <1>2, <1>5 DEF FromBuffer, FromTicker
<1>8. TickersShrink
    BY <1>6, <1>7 DEF TickersShrink
<1>9. BufferOrder'
  <2> SUFFICES ASSUME NEW y \in Claim
               PROVE  InOrder(cMsg'[y]) /\ Below(Offs(cMsg'[y]), FromTopic(y[2])')
      BY DEF BufferOrder
  <2>1. CASE y = x
      BY <1>2, <1>3, <2>1 DEF Below
  <2>2. CASE y # x
      BY <1>2, <1>4, <2>2 DEF Stages, BufferOrder
  <2> QED BY <2>1, <2>2
<1>10. TickerOrder'
  <2> SUFFICES ASSUME NEW y \in Claim
               PROVE  InOrder(ccMsg'[y]) /\ Below(Offs(ccMsg'[y]), FromBuffer(y)')
      BY DEF TickerOrder
  <2>1. CASE y = x
      BY <1>2, <1>5, <2>1 DEF Stages, BufferOrder
  <2>2. CASE y # x
      BY <1>2, <1>6, <2>2 DEF Stages, TickerOrder
  <2> QED BY <2>1, <2>2
<1>11. TopicOrder'
    BY <1>1 DEF Stages, TopicOrder
<1> QED BY <1>1, <1>8, <1>9, <1>10, <1>11, AboveTicker DEF Stages

\* The distributor takes a slice off the front of what the ticker hands over.
LEMMA FlowDistribute ==
    ASSUME OneClaim, TInv, Routing, Stages, NEW x \in Claim, Distribute(x)
    PROVE  Stages' /\ QueuesShrink
<1> DEFINE q == ccMsg[x]
           n == IF Len(q) < Split THEN Len(q) ELSE Split
           slice == SubSeq(q, 1, n)
           rest == SubSeq(q, n + 1, Len(q))
           keys == {slice[j].data.key : j \in 1 .. n}
<1>1. /\ agg' = [agg EXCEPT ![x[1]] = [msgs |-> slice, keys |-> keys]]
      /\ ccMsg' = [ccMsg EXCEPT ![x] = rest]
      /\ UNCHANGED <<topic, owner, pos, cMsg, chArrays>>
      /\ agg[x[1]].keys = {}
    BY DEF Distribute, kafkaVars
<1>2. /\ q \in Seq(Message) /\ Len(q) \in Nat /\ n \in 0 .. Len(q)
      /\ agg \in [Instance -> [msgs : Seq(Message), keys : SUBSET Key]]
      /\ ccMsg \in [Claim -> Seq(Message)]
    BY LenProperties, TransferAssumption DEF TInv, TypeOK
<1>3. x[1] \in Instance /\ x[2] \in Partition /\ x = <<x[1], x[2], 0>>
    BY KeyFacts
<1>4. InOrder(q) /\ Below(Offs(q), FromBuffer(x)) /\ InClaim(x, q)
    BY DEF Stages, TickerOrder, Routing
<1> HIDE DEF n
<1>5. /\ slice \in Seq(Message) /\ Len(slice) = n
      /\ \A j \in 1 .. n : slice[j] = q[j] /\ j \in 1 .. Len(q)
      /\ InOrder(slice) /\ InOrder(rest)
      /\ Offs(slice) \subseteq Offs(q) /\ Offs(rest) \subseteq Offs(q)
      /\ Below(Offs(slice), Offs(rest))
  <2>1. slice = SubSeq(q, 1, n) /\ rest = SubSeq(q, n + 1, Len(q))
      OBVIOUS
  <2> HIDE DEF q, slice, rest
  <2>2. q \in Seq(Message) /\ n \in 0 .. Len(q) /\ InOrder(q)
      BY <1>2, <1>4
  <2>3. Cut(q, n, slice, rest)
      BY <2>1, <2>2, CutOrder, Zenon
  <2> QED BY <2>3 DEF Cut
<1> HIDE DEF slice, rest
<1>6. \A k \in keys : x[1] = owner[PartOf[k]] /\ PartOf[k] = x[2]
    BY <1>4, <1>5 DEF InClaim
<1>7. \A k \in keys : ClaimOf(k) = x
    BY <1>3, <1>6 DEF ClaimOf
<1> HIDE DEF q, keys
<1>8. /\ agg'[x[1]].msgs = slice /\ agg'[x[1]].keys = keys
      /\ \A i \in Instance : i # x[1] => agg'[i] = agg[i]
    BY <1>1, <1>2, <1>3
<1>9. ccMsg'[x] = rest /\ \A y \in Claim : y # x => ccMsg'[y] = ccMsg[y]
    BY <1>1, <1>2
<1>10. \A y : FromBuffer(y)' = FromBuffer(y)
    BY <1>1 DEF FromBuffer, FromTopic
<1>11. FromTicker(x)' = Offs(rest) \cup FromBuffer(x)
    BY <1>9, <1>10 DEF FromTicker
<1>12. TickersShrink
  <2>1. FromTicker(x)' \subseteq FromTicker(x)
      BY <1>5, <1>11 DEF FromTicker, q
  <2>2. \A y \in Claim : y # x => FromTicker(y)' = FromTicker(y)
      BY <1>9, <1>10 DEF FromTicker
  <2> QED BY <2>1, <2>2 DEF TickersShrink
<1>13. \A k : ClaimOf(k)' = ClaimOf(k)
    BY <1>1 DEF ClaimOf
<1>14. ASSUME NEW k \in Key
       PROVE  /\ FromGroups(k)' \subseteq FromGroups(k)
              /\ Below(Grouped(k)', FromTicker(ClaimOf(k))')
  <2>1. PICK y \in Claim : y = ClaimOf(k)
      BY KeyFacts
  <2>2. FromTicker(ClaimOf(k))' = FromTicker(y)' /\ FromTicker(y)' \subseteq FromTicker(y)
      BY <1>12, <1>13, <2>1 DEF FromTicker, FromBuffer, FromTopic, TickersShrink
  <2>3. CASE owner[PartOf[k]] = x[1] /\ k \in keys
    <3>1. y = x
        BY <1>7, <2>1, <2>3
    <3>2. Grouped(k)' = OffsOf(slice, k)
        BY <1>1, <1>8, <2>3 DEF Grouped
    <3>3. Grouped(k)' \subseteq Offs(slice)
        BY <3>2, OffsOfSubset
    <3>4. Below(Grouped(k)', FromTicker(x)')
        BY <1>4, <1>5, <1>11, <3>3 DEF Below
    <3>5. Grouped(k)' \subseteq FromTicker(x)
        BY <1>5, <3>3 DEF FromTicker, q
    <3>6. FromGroups(k)' = Grouped(k)' \cup FromTicker(ClaimOf(k))'
        BY DEF FromGroups
    <3>7. FromGroups(k) = Grouped(k) \cup FromTicker(y)
        BY <2>1 DEF FromGroups
    <3> QED BY <2>2, <3>1, <3>4, <3>5, <3>6, <3>7
  <2>4. CASE owner[PartOf[k]] # x[1] \/ k \notin keys
    <3>1. Grouped(k)' \subseteq Grouped(k)
      <4>1. CASE owner[PartOf[k]] # x[1]
        <5>1. agg'[owner[PartOf[k]]] = agg[owner[PartOf[k]]]
            BY <1>8, <4>1, KeyFacts
        <5> QED BY <1>1, <5>1 DEF Grouped
      <4>2. CASE owner[PartOf[k]] = x[1] /\ k \notin keys
          BY <1>1, <1>8, <4>2 DEF Grouped
      <4> QED BY <2>4, <4>1, <4>2
    <3>2. Below(Grouped(k), FromTicker(y))
        BY <2>1 DEF Stages, GroupOrder
    <3>3. Below(Grouped(k)', FromTicker(y)')
        BY <2>2, <3>1, <3>2 DEF Below
    <3>4. FromGroups(k)' = Grouped(k)' \cup FromTicker(ClaimOf(k))'
        BY DEF FromGroups
    <3>5. FromGroups(k) = Grouped(k) \cup FromTicker(y)
        BY <2>1 DEF FromGroups
    <3> QED BY <2>2, <3>1, <3>3, <3>4, <3>5
  <2> QED BY <2>3, <2>4
<1>15. GroupOrder'
  <2>1. \A i \in Instance : InOrder(agg'[i].msgs)
      BY <1>5, <1>8 DEF Stages, GroupOrder
  <2> QED BY <1>14, <2>1 DEF GroupOrder
<1>16. GroupsShrink
    BY <1>14 DEF GroupsShrink
<1>17. QueuesShrink /\ QueueOrder'
    BY <1>1, <1>16, AboveGroups DEF Stages
<1>18. TickerOrder'
  <2> SUFFICES ASSUME NEW y \in Claim
               PROVE  InOrder(ccMsg'[y]) /\ Below(Offs(ccMsg'[y]), FromBuffer(y)')
      BY DEF TickerOrder
  <2>1. CASE y = x
      BY <1>4, <1>5, <1>9, <1>10, <2>1 DEF Below
  <2>2. CASE y # x
      BY <1>9, <1>10, <2>2 DEF Stages, TickerOrder
  <2> QED BY <2>1, <2>2
<1>19. BufferOrder' /\ TopicOrder'
    BY <1>1 DEF Stages, BufferOrder, TopicOrder, FromTopic
<1> QED BY <1>15, <1>17, <1>18, <1>19 DEF Stages

\* A batch of one key goes to the end of the channel of the key's worker.
LEMMA FlowRoute ==
    ASSUME OneClaim, TInv, Routing, Stages, NEW i \in Instance, NEW k \in Key, Route(i, k)
    PROVE  Stages' /\ QueuesShrink
<1> DEFINE b == [key |-> k, msgs |-> agg[i].msgs]
           w == Home(k)
           q == chArrays[w]
           r == Append(q, b)
<1>1. k \in agg[i].keys /\ i = owner[PartOf[k]]
    BY DEF Route, Routing
<1>2. w = <<i, ChanOf[k]>>
    BY <1>1 DEF Home
<1>3. /\ agg \in [Instance -> [msgs : Seq(Message), keys : SUBSET Key]]
      /\ chArrays \in [Worker -> Seq(Batch)] /\ w \in Worker /\ q \in Seq(Batch)
    BY KeyFacts DEF TInv, TypeOK
<1>4. b \in Batch /\ b.key = k /\ b.msgs = agg[i].msgs
    BY <1>3 DEF Batch
<1>5. /\ chArrays' = [chArrays EXCEPT ![w] = r]
      /\ UNCHANGED <<topic, owner, pos, cMsg, ccMsg>>
    BY <1>2 DEF Route, kafkaVars
<1>6. /\ \A h \in Instance : h # i => agg'[h] = agg[h]
      /\ agg'[i].keys = agg[i].keys \ {k}
      /\ agg'[i].msgs = agg[i].msgs \/ (agg'[i].msgs = <<>> /\ agg'[i].keys = {})
  <2>1. CASE agg[i].keys = {k}
    <3>1. agg' = [agg EXCEPT ![i] = [msgs |-> <<>>, keys |-> {}]]
        BY <2>1 DEF Route
    <3> QED BY <1>3, <2>1, <3>1
  <2>2. CASE agg[i].keys # {k}
    <3>1. agg' = [agg EXCEPT ![i] = [msgs |-> agg[i].msgs, keys |-> agg[i].keys \ {k}]]
        BY <2>2 DEF Route
    <3> QED BY <1>3, <3>1
  <2> QED BY <2>1, <2>2
<1> HIDE DEF b, w, q, r
<1>7. BatchOffs(b) = Grouped(k)
    BY <1>1, <1>4 DEF BatchOffs, Grouped
<1>8. Grouped(k)' = {}
    BY <1>1, <1>5, <1>6 DEF Grouped
<1>9. \A h \in Key : Grouped(h)' \subseteq Grouped(h)
  <2> SUFFICES ASSUME NEW h \in Key PROVE Grouped(h)' \subseteq Grouped(h)
      OBVIOUS
  <2>1. CASE owner[PartOf[h]] # i
    <3>1. agg'[owner[PartOf[h]]] = agg[owner[PartOf[h]]]
        BY <1>6, <2>1, KeyFacts
    <3> QED BY <1>5, <3>1 DEF Grouped
  <2>2. CASE owner[PartOf[h]] = i
      BY <1>5, <1>6, <2>2 DEF Grouped
  <2> QED BY <2>1, <2>2
<1>10. \A h : FromTicker(ClaimOf(h))' = FromTicker(ClaimOf(h))
    BY <1>5 DEF FromTicker, FromBuffer, FromTopic, ClaimOf
<1>11. GroupsShrink
    BY <1>9, <1>10 DEF GroupsShrink, FromGroups
<1>12. FromGroups(k)' = FromTicker(ClaimOf(k))
    BY <1>8, <1>10 DEF FromGroups
<1>13. /\ Len(q) \in Nat /\ Len(r) = Len(q) + 1 /\ r[Len(q) + 1] = b
       /\ \A n \in 1 .. Len(q) : r[n] = q[n]
    BY <1>3, <1>4, AppendProperties, LenProperties DEF r
<1>14. \A n \in 1 .. Len(r) : n \in 1 .. Len(q) \/ n = Len(q) + 1
    BY <1>13
<1>15. chArrays'[w] = r /\ chArrays[w] = q /\ \A v \in Worker : v # w => chArrays'[v] = chArrays[v]
    BY <1>3, <1>5 DEF q
<1>16. \A h : Home(h)' = Home(h)
    BY <1>5 DEF Home
<1>17. QueuesShrink
  <2> SUFFICES ASSUME NEW h \in Key PROVE FromQueue(h)' \subseteq FromQueue(h)
      BY DEF QueuesShrink
  <2>1. FromGroups(h)' \subseteq FromGroups(h)
      BY <1>11 DEF GroupsShrink
  <2>2. Queued(h)' \subseteq Queued(h) \cup FromGroups(h)
    <3>1. CASE Home(h) # w
      <4>1. chArrays'[Home(h)] = chArrays[Home(h)]
          BY <1>15, <3>1, KeyFacts
      <4> QED BY <1>16, <4>1 DEF Queued
    <3>2. CASE Home(h) = w
      <4> SUFFICES ASSUME NEW n \in 1 .. Len(r), r[n].key = h, NEW o \in BatchOffs(r[n])
                   PROVE  o \in Queued(h) \cup FromGroups(h)
          BY <1>15, <1>16, <3>2 DEF Queued
      <4>1. CASE n \in 1 .. Len(q)
          BY <1>13, <1>15, <3>2, <4>1 DEF Queued
      <4>2. CASE n = Len(q) + 1
          BY <1>4, <1>7, <1>13, <4>2 DEF FromGroups
      <4> QED BY <1>14, <4>1, <4>2
    <3> QED BY <3>1, <3>2
  <2> QED BY <2>1, <2>2 DEF FromQueue
<1>18. QueueOrder'
  <2> SUFFICES ASSUME NEW v \in Worker, NEW n \in 1 .. Len(chArrays'[v]), NEW h \in Key,
                      chArrays'[v][n].key = h
               PROVE  QueuedOK(v, n, h)'
      BY DEF QueueOrder
  <2>1. \A m \in 1 .. Len(chArrays[v]) : chArrays[v][m].key = h =>
           /\ QueuedOK(v, m, h)
           /\ Below(BatchOffs(chArrays[v][m]), FromGroups(h))
           /\ Below(BatchOffs(chArrays[v][m]), FromGroups(h)')
      BY <1>11, BelowSubset DEF Stages, QueueOrder, QueuedOK, GroupsShrink
  <2>2. CASE v # w
      BY <1>15, <2>1, <2>2 DEF QueuedOK
  <2>3. CASE v = w /\ n \in 1 .. Len(q)
    <3>1. chArrays'[v][n] = chArrays[v][n] /\ n \in 1 .. Len(chArrays[v])
        BY <1>13, <1>15, <2>3
    <3>2. ASSUME NEW m \in 1 .. Len(chArrays'[v]), m < n
          PROVE  m \in 1 .. Len(chArrays[v]) /\ chArrays'[v][m] = chArrays[v][m]
      <4>1. m \in 1 .. Len(q)
          BY <1>13, <1>15, <2>3, <3>2
      <4> QED BY <1>13, <1>15, <2>3, <4>1
    <3> QED BY <2>1, <3>1, <3>2 DEF QueuedOK
  <2>4. CASE v = w /\ n = Len(q) + 1
    <3>1. chArrays'[v][n] = b /\ h = k
        BY <1>4, <1>13, <1>15, <2>4
    <3>2. Below(BatchOffs(b), FromGroups(k)') /\ InOrder(b.msgs)
        BY <1>4, <1>7, <1>12 DEF Stages, GroupOrder
    <3>3. ASSUME NEW m \in 1 .. Len(chArrays'[v]), m < n, chArrays'[v][m].key = k
          PROVE  Below(BatchOffs(chArrays'[v][m]), BatchOffs(b))
      <4>1. m \in 1 .. Len(chArrays[v]) /\ chArrays'[v][m] = chArrays[v][m]
        <5>1. m \in 1 .. Len(q)
            BY <1>13, <1>15, <2>4, <3>3
        <5> QED BY <1>13, <1>15, <2>4, <5>1
      <4>2. Below(BatchOffs(chArrays[v][m]), FromGroups(k))
          BY <2>1, <3>1, <3>3, <4>1
      <4>3. BatchOffs(b) \subseteq FromGroups(k)
          BY <1>7 DEF FromGroups
      <4> QED BY <4>1, <4>2, <4>3, BelowSubset
    <3> QED BY <3>1, <3>2, <3>3 DEF QueuedOK
  <2> QED BY <1>14, <1>15, <2>2, <2>3, <2>4
<1>19. GroupOrder'
  <2>1. \A h \in Instance : InOrder(agg'[h].msgs)
    <3>1. InOrder(<<>>)
        BY EmptySeq DEF InOrder
    <3> QED BY <1>6, <3>1 DEF Stages, GroupOrder
  <2>2. \A h \in Key : Below(Grouped(h)', FromTicker(ClaimOf(h))')
      BY <1>9, <1>10 DEF Stages, GroupOrder, Below
  <2> QED BY <2>1, <2>2 DEF GroupOrder
<1>20. TickerOrder' /\ BufferOrder' /\ TopicOrder'
    BY <1>5 DEF Stages, TickerOrder, BufferOrder, TopicOrder, FromBuffer, FromTopic
<1> QED BY <1>17, <1>18, <1>19, <1>20 DEF Stages

\* A worker takes the batch at the front of its channel: what is left of the key on
\* its way was sent later.
LEMMA FlowRun ==
    ASSUME OneClaim, TInv, Routing, Stages, NEW w \in Worker, Run(w), NEW b, b = Head(chArrays[w])
    PROVE  /\ Stages' /\ QueuesShrink
           /\ b \in Batch /\ CtxMsgList(b) # {} /\ InOrder(b.msgs)
           /\ \A k \in Key : b.key = k => /\ Below(BatchOffs(b), FromQueue(k)')
                                          /\ BatchOffs(b) \subseteq FromQueue(k)
<1> DEFINE q == chArrays[w]
           r == Tail(q)
<1>1. q \in Seq(Batch) /\ q # <<>> /\ chArrays \in [Worker -> Seq(Batch)]
    BY DEF Run, TInv, TypeOK
<1>2. /\ Len(q) \in Nat /\ 1 \in 1 .. Len(q) /\ b = q[1] /\ b \in Batch
      /\ Len(r) = Len(q) - 1 /\ \A n \in 1 .. Len(r) : r[n] = q[n + 1]
    BY <1>1, HeadTailProperties, EmptySeq, LenProperties
<1>3. /\ chArrays' = [chArrays EXCEPT ![w] = r]
      /\ UNCHANGED <<topic, owner, pos, cMsg, ccMsg, agg>>
    BY DEF Run, kafkaVars
<1> HIDE DEF q, r
<1>4. chArrays'[w] = r /\ chArrays[w] = q /\ \A v \in Worker : v # w => chArrays'[v] = chArrays[v]
    BY <1>1, <1>3 DEF q
<1>5. \A n \in 1 .. Len(r) : n + 1 \in 1 .. Len(q) /\ n \in Nat
    BY <1>2
<1>6. \A k : FromGroups(k)' = FromGroups(k) /\ Home(k)' = Home(k)
    BY <1>3 DEF FromGroups, Grouped, FromTicker, FromBuffer, FromTopic, ClaimOf, Home
<1>7. \A k \in Key : Queued(k)' \subseteq Queued(k)
  <2> SUFFICES ASSUME NEW k \in Key PROVE Queued(k)' \subseteq Queued(k)
      OBVIOUS
  <2>1. CASE Home(k) # w
    <3>1. chArrays'[Home(k)] = chArrays[Home(k)]
        BY <1>4, <2>1, KeyFacts
    <3> QED BY <1>6, <3>1 DEF Queued
  <2>2. CASE Home(k) = w
    <3> SUFFICES ASSUME NEW n \in 1 .. Len(r), r[n].key = k, NEW o \in BatchOffs(r[n])
                 PROVE  o \in Queued(k)
        BY <1>4, <1>6, <2>2 DEF Queued
    <3>1. r[n] = q[n + 1] /\ n + 1 \in 1 .. Len(q)
        BY <1>2, <1>5
    <3> QED BY <1>4, <2>2, <3>1 DEF Queued
  <2> QED BY <2>1, <2>2
<1>8. QueuesShrink
    BY <1>6, <1>7 DEF QueuesShrink, FromQueue
<1>9. b.key \in Key /\ CtxMsgList(b) # {} /\ w = Home(b.key)
    BY <1>2, <1>4 DEF TInv, BatchOK, Batch, Routing
<1>10. InOrder(b.msgs) /\ \A k \in Key : b.key = k => Below(BatchOffs(b), FromGroups(k))
    BY <1>2, <1>4, <1>9 DEF Stages, QueueOrder, QueuedOK
<1>11. ASSUME NEW k \in Key, b.key = k
       PROVE  Below(BatchOffs(b), FromQueue(k)') /\ BatchOffs(b) \subseteq FromQueue(k)
  <2>1. BatchOffs(b) \subseteq Queued(k)
      BY <1>2, <1>4, <1>9, <1>11 DEF Queued
  <2>2. Below(BatchOffs(b), Queued(k)')
    <3>1. Home(k)' = w /\ chArrays'[w] = r
        BY <1>4, <1>6, <1>9, <1>11
    <3>2. ASSUME NEW n \in 1 .. Len(r), r[n].key = k PROVE Below(BatchOffs(b), BatchOffs(r[n]))
      <4>1. r[n] = q[n + 1] /\ n + 1 \in 1 .. Len(q) /\ 1 < n + 1
          BY <1>2, <1>5
      <4>2. QueuedOK(w, n + 1, k)
          BY <1>4, <3>2, <4>1 DEF Stages, QueueOrder
      <4> QED BY <1>2, <1>4, <1>11, <4>1, <4>2 DEF QueuedOK
    <3>3. \A o \in Queued(k)' : \E n \in 1 .. Len(r) : r[n].key = k /\ o \in BatchOffs(r[n])
        BY <3>1 DEF Queued
    <3> QED BY <3>2, <3>3 DEF Below
  <2>3. Below(BatchOffs(b), FromGroups(k)')
      BY <1>6, <1>10, <1>11
  <2> QED BY <2>1, <2>2, <2>3 DEF FromQueue, Below
<1>12. QueueOrder'
  <2> SUFFICES ASSUME NEW v \in Worker, NEW n \in 1 .. Len(chArrays'[v]), NEW k \in Key,
                      chArrays'[v][n].key = k
               PROVE  QueuedOK(v, n, k)'
      BY DEF QueueOrder
  <2>1. CASE v # w
    <3>1. QueuedOK(v, n, k)
        BY <1>4, <2>1 DEF Stages, QueueOrder
    <3> QED BY <1>4, <1>6, <2>1, <3>1 DEF QueuedOK
  <2>2. CASE v = w
    <3>1. r[n] = q[n + 1] /\ n + 1 \in 1 .. Len(q) /\ r[n].key = k /\ n \in Nat
        BY <1>2, <1>4, <1>5, <2>2
    <3>2. QueuedOK(w, n + 1, k)
        BY <1>4, <3>1 DEF Stages, QueueOrder
    <3>3. ASSUME NEW m \in 1 .. Len(r), m < n, r[m].key = k
          PROVE  Below(BatchOffs(r[m]), BatchOffs(r[n]))
      <4>1. r[m] = q[m + 1] /\ m + 1 \in 1 .. Len(q) /\ m + 1 < n + 1
          BY <1>2, <1>5, <3>1, <3>3
      <4> QED BY <1>4, <3>1, <3>2, <3>3, <4>1 DEF QueuedOK
    <3>4. InOrder(r[n].msgs) /\ Below(BatchOffs(r[n]), FromGroups(k)')
        BY <1>4, <1>6, <3>1, <3>2 DEF QueuedOK
    <3> QED BY <1>4, <2>2, <3>3, <3>4 DEF QueuedOK
  <2> QED BY <2>1, <2>2
<1>13. TopicOrder' /\ BufferOrder' /\ TickerOrder'
    BY <1>3 DEF Stages, TopicOrder, TickerOrder, BufferOrder, FromBuffer, FromTopic
<1>14. GroupOrder'
    BY <1>3 DEF Stages, GroupOrder, Grouped, FromTicker, FromBuffer, FromTopic, ClaimOf
<1> QED BY <1>2, <1>8, <1>9, <1>10, <1>11, <1>12, <1>13, <1>14 DEF Stages

-----------------------------------------------------------------------------
(* Numbered messages and the batch of a worker. Until a batch leaves, what *)
(* left under its kind of conversation and its key was sent before it.     *)

LeftOrder == \A e \in Numbered : \A k \in Key : e.conv.key = k => Below({e.msg.off}, FromQueue(k))

SourceOK(s) ==
    s.pc \notin {"idle", "modify"} =>
        \A e \in Numbered : e.conv.key = s.b.key /\ (s.ph = "chat" \/ e.conv.type = "n") =>
            \/ Below({e.msg.off}, BatchOffs(s.b))
            \/ s.pc = "toPush" /\ e \in Entries(s.b, s.ph, s.base)

SourceInv ==
    /\ Stages /\ WorkerOrder
    /\ SourceOrder /\ LeftOrder
    /\ \A w \in Worker : SourceOK(wk[w])

\* A step of the queues leaves workers and numbered messages in order.
LEMMA SourceQueueStep ==
    ASSUME SourceInv, Stages', QueuesShrink, UNCHANGED <<wk, mongoTopic, pushTopic>>
    PROVE  SourceInv'
<1>1. Numbered' = Numbered
    BY DEF Numbered, MongoLog, PushLog
<1>2. WorkerOrder'
    BY BelowSubset DEF SourceInv, WorkerOrder, QueuesShrink
<1>3. LeftOrder'
    BY <1>1, BelowSubset DEF SourceInv, LeftOrder, QueuesShrink
<1>4. SourceOrder' /\ \A w \in Worker : SourceOK(wk[w])'
    BY <1>1 DEF SourceInv, SourceOrder, SourceOK
<1> QED BY <1>2, <1>3, <1>4 DEF SourceInv

\* Run starts a batch that everything numbered comes before.
LEMMA SourceRun ==
    ASSUME OneClaim, TInv, Routing, SourceInv, NEW w \in Worker, Run(w)
    PROVE  SourceInv'
<1>1. PICK b : b = Head(chArrays[w])
    OBVIOUS
<1>2. /\ Stages' /\ QueuesShrink
      /\ b \in Batch /\ CtxMsgList(b) # {} /\ InOrder(b.msgs)
      /\ \A k \in Key : b.key = k => /\ Below(BatchOffs(b), FromQueue(k)')
                                     /\ BatchOffs(b) \subseteq FromQueue(k)
    BY <1>1, FlowRun DEF SourceInv
<1> DEFINE t == StartPhase(b, "chat")
<1>3. t.b = b /\ t.pc = "raw"
    BY <1>2, StartPhaseOK DEF Phase
<1>4. wk' = [wk EXCEPT ![w] = t] /\ UNCHANGED <<mongoTopic, pushTopic>>
    BY <1>1 DEF Run, Goto, mongoVars
<1> HIDE DEF t
<1>5. wk'[w] = t /\ \A v \in Worker : v # w => wk'[v] = wk[v]
    BY <1>4 DEF TInv, TypeOK
<1>6. Numbered' = Numbered
    BY <1>4 DEF Numbered, MongoLog, PushLog
<1>7. b.key \in Key
    BY <1>2 DEF Batch
<1>8. WorkerOrder'
  <2> SUFFICES ASSUME NEW v \in Worker, NEW k \in Key, wk'[v].pc # "idle", wk'[v].b.key = k
               PROVE  InOrder(wk'[v].b.msgs) /\ Below(BatchOffs(wk'[v].b), FromQueue(k)')
      BY DEF WorkerOrder
  <2>1. CASE v = w
      BY <1>2, <1>3, <1>5, <2>1
  <2>2. CASE v # w
      BY <1>2, <1>5, <2>2, BelowSubset DEF SourceInv, WorkerOrder, QueuesShrink
  <2> QED BY <2>1, <2>2
<1>9. LeftOrder'
    BY <1>2, <1>6, BelowSubset DEF SourceInv, LeftOrder, QueuesShrink
<1>10. ASSUME NEW v \in Worker PROVE SourceOK(wk[v])'
  <2>1. CASE v = w
    <3>1. \A e \in Numbered : e.conv.key = b.key => Below({e.msg.off}, BatchOffs(b))
        BY <1>2, <1>7, BelowSubset DEF SourceInv, LeftOrder
    <3> QED BY <1>3, <1>5, <1>6, <2>1, <3>1 DEF SourceOK
  <2>2. CASE v # w
      BY <1>5, <1>6, <2>2 DEF SourceInv, SourceOK
  <2> QED BY <2>1, <2>2
<1>11. SourceOrder'
    BY <1>6 DEF SourceInv, SourceOrder
<1> QED BY <1>2, <1>8, <1>9, <1>10, <1>11 DEF SourceInv

\* What a step of Run sends away belongs to its own batch.
LEMMA LeavesOwnEntries ==
    ASSUME TInv, NEW w \in Worker, RunStep(w), ~Run(w), ~ModifyPanic(w), NEW f \in Numbered'
    PROVE  \/ f \in Numbered
           \/ /\ wk[w].pc \in {"toMongo", "toPush"}
              /\ f \in Entries(wk[w].b, wk[w].ph, wk[w].base)
BY NumberedRun

\* A step of Run inside its batch keeps seq order in send order.
LEMMA SourceRunStep ==
    ASSUME TInv, Routing, SeqInv, SourceInv,
           NEW w \in Worker, RunStep(w), ~Run(w), ~ModifyPanic(w)
    PROVE  SourceInv'
<1> DEFINE s == wk[w]
           t == wk'[w]
           c == ConvOf(s)
           es == Entries(s.b, s.ph, s.base)
<1>1. /\ s.pc # "idle" /\ s \in WorkerState /\ WorkerOK(s) /\ SeqOK(s) /\ SourceOK(s)
      /\ \A v \in Worker : v # w => wk'[v] = wk[v]
      /\ UNCHANGED <<kafkaVars, bufVars>>
      /\ t.pc # "idle" => t.b = s.b
    BY RunStepFrame DEF SeqInv, SourceInv
<1>2. UNCHANGED <<topic, owner, pos, bufVars>>
    BY <1>1 DEF kafkaVars
<1>3. Stages' /\ \A k : FromQueue(k)' = FromQueue(k)
  <2>1. TopicOrder'
      BY <1>2 DEF SourceInv, Stages, TopicOrder
  <2> QED BY <1>2, <2>1, FlowFrame DEF SourceInv, Stages
<1>4. /\ s.b \in Batch /\ s.b.key \in Key /\ s.ph \in Phase /\ s.base \in Nat /\ CtxMsgList(s.b) # {}
      /\ es \subseteq Entry /\ c.key = s.b.key /\ c \in Conv
      /\ \A e \in es : e.conv = c /\ e.seq \in s.base + 1 .. s.base + Cardinality(StorageList(s.b, s.ph))
      /\ Cardinality(StorageList(s.b, s.ph)) \in Nat
    BY <1>1, WorkerFacts, EntriesProperties, BatchProperties DEF ConvOf, Batch
<1>5. \A k \in Key : s.b.key = k => InOrder(s.b.msgs) /\ Below(BatchOffs(s.b), FromQueue(k))
    BY <1>1 DEF SourceInv, WorkerOrder
<1>6. /\ \A e \in es : e.msg.off \in BatchOffs(s.b)
      /\ \A e, f \in es : e.seq < f.seq => e.msg.off < f.msg.off
    BY <1>4, <1>5, EntriesOrder
<1>7. c.type = "n" <=> s.ph = "notif"
    BY <1>4, ConversationType DEF ConvOf
<1>8. \A f \in Numbered' : f \in Numbered \/ (s.pc \in {"toMongo", "toPush"} /\ f \in es)
    BY LeavesOwnEntries
<1>9. s.ph = "chat" \/ s.ph = "notif"
    BY <1>4 DEF Phase
<1>10. Numbered \subseteq Entry /\ \A e \in Entry : e.seq \in Nat
    BY NumberedType DEF TInv, Entry
\* old entries of the conversation come first in seq and in the order of sending
<1>11. ASSUME s.pc \in {"toMongo", "toPush"}, NEW e \in Numbered, e \notin es, e.conv = c, NEW f \in es
       PROVE  e.seq < f.seq /\ e.msg.off < f.msg.off
  <2>1. e.seq <= s.base
      BY <1>1, <1>11 DEF SeqOK, Assigned
  <2>2. f.seq \in Nat /\ s.base < f.seq /\ e.seq \in Nat
      BY <1>4, <1>10, <1>11
  <2>3. Below({e.msg.off}, BatchOffs(s.b))
      BY <1>1, <1>4, <1>7, <1>9, <1>11 DEF SourceOK
  <2>4. f.msg.off \in BatchOffs(s.b)
      BY <1>6, <1>11
  <2> QED BY <1>4, <2>1, <2>2, <2>3, <2>4 DEF Below
<1>12. SourceOrder'
  <2> SUFFICES ASSUME NEW e \in Numbered', NEW f \in Numbered', e.conv = f.conv, e.seq < f.seq
               PROVE  e.msg.off < f.msg.off
      BY DEF SourceOrder
  <2>1. CASE e \in es /\ f \in es
      BY <1>6, <2>1
  <2>2. CASE e \notin es /\ f \notin es
      BY <1>8, <2>2 DEF SourceInv, SourceOrder
  <2>3. CASE e \in es /\ f \notin es
    <3>1. f \in Numbered /\ f.conv = c
        BY <1>4, <1>8, <2>3
    <3>2. CASE e \in Numbered
        BY <3>1, <3>2 DEF SourceInv, SourceOrder
    <3>3. CASE e \notin Numbered
      <4>1. f.seq < e.seq
          BY <1>8, <1>11, <2>3, <3>1, <3>3
      <4>2. f.seq \in Nat /\ e.seq \in Nat
          BY <1>4, <1>10, <2>3, <3>1
      <4> QED BY <4>1, <4>2
    <3> QED BY <3>2, <3>3
  <2>4. CASE e \notin es /\ f \in es
    <3>1. e \in Numbered /\ e.conv = c
        BY <1>4, <1>8, <2>4
    <3>2. CASE f \in Numbered
        BY <3>1, <3>2 DEF SourceInv, SourceOrder
    <3>3. CASE f \notin Numbered
        BY <1>8, <1>11, <2>4, <3>1, <3>3
    <3> QED BY <3>2, <3>3
  <2> QED BY <2>1, <2>2, <2>3, <2>4
<1>13. LeftOrder'
  <2> SUFFICES ASSUME NEW e \in Numbered', NEW k \in Key, e.conv.key = k
               PROVE  Below({e.msg.off}, FromQueue(k)')
      BY DEF LeftOrder
  <2>1. CASE e \in Numbered
      BY <1>3, <2>1 DEF SourceInv, LeftOrder
  <2>2. CASE e \in es
    <3>1. s.b.key = k /\ e.msg.off \in BatchOffs(s.b)
        BY <1>4, <1>6, <2>2
    <3>2. Below(BatchOffs(s.b), FromQueue(k))
        BY <1>5, <3>1
    <3> QED BY <1>3, <3>1, <3>2 DEF Below
  <2> QED BY <1>8, <2>1, <2>2
<1>14. WorkerOrder'
  <2> SUFFICES ASSUME NEW v \in Worker, NEW k \in Key, wk'[v].pc # "idle", wk'[v].b.key = k
               PROVE  InOrder(wk'[v].b.msgs) /\ Below(BatchOffs(wk'[v].b), FromQueue(k)')
      BY DEF WorkerOrder
  <2>1. CASE v = w
      BY <1>1, <1>3, <1>5, <2>1
  <2>2. CASE v # w
      BY <1>1, <1>3, <2>2 DEF SourceInv, WorkerOrder
  <2> QED BY <2>1, <2>2
<1>15. ASSUME NEW v \in Worker, v # w PROVE SourceOK(wk[v])'
  <2>1. SourceOK(wk[v]) /\ wk'[v] = wk[v]
      BY <1>1, <1>15 DEF SourceInv
  <2>2. CASE wk[v].pc \in {"idle", "modify"}
      BY <2>1, <2>2 DEF SourceOK
  <2>3. CASE wk[v].pc \notin {"idle", "modify"}
    <3>1. wk[v].b.key # s.b.key
        BY <1>1, <1>15, <2>3 DEF Routing
    <3>2. \A e \in Numbered' : e.conv.key = wk[v].b.key => e \in Numbered
        BY <1>4, <1>8, <3>1
    <3> QED BY <2>1, <2>3, <3>2 DEF SourceOK
  <2> QED BY <2>2, <2>3
\* the worker itself: its phase goes on, ends, or hands the batch to the next phase
<1>16. ASSUME t.pc \notin {"idle", "modify"}, NEW e \in Numbered', e.conv.key = t.b.key,
              t.ph = "chat" \/ e.conv.type = "n"
       PROVE  \/ Below({e.msg.off}, BatchOffs(t.b))
              \/ t.pc = "toPush" /\ e \in Entries(t.b, t.ph, t.base)
  <2>1. t.b = s.b
      BY <1>1, <1>16
  <2>2. \/ t.pc = "toPush" /\ t.ph = s.ph /\ t.base = s.base /\ s.pc \in {"toMongo", "toPush"}
        \/ t.ph = s.ph /\ s.pc \notin {"toMongo", "toPush"}
        \/ t = EndPhase(s)
    <3>1. Moved(s, t) => t.ph = s.ph /\ t.base = s.base
        BY DEF Moved
    <3> HIDE DEF s, t
    <3>2. CASE toPushTopic(w) \/ GetMaxSeq(w) \/ SetMessageToCache(w)
        BY <3>1, <3>2, RunShape DEF s, t
    <3>3. CASE SetMaxSeq(w) \/ SetHasReadSeqs(w)
        BY <3>1, <3>3, RunShape DEF s, t
    <3>4. CASE FirstCreateConversation(w) \/ MsgToMongoMQ(w)
        BY <3>1, <3>4, RunShape DEF s, t
    <3> QED BY <3>2, <3>3, <3>4 DEF RunStep
  <2>3. CASE t.pc = "toPush" /\ t.ph = s.ph /\ t.base = s.base /\ s.pc \in {"toMongo", "toPush"}
    <3>1. CASE e \in es
        BY <2>1, <2>3, <3>1
    <3>2. CASE e \notin es
      <4>1. e \in Numbered
          BY <1>8, <3>2
      <4> QED BY <1>1, <1>16, <2>1, <2>3, <3>2, <4>1 DEF SourceOK
    <3> QED BY <3>1, <3>2
  <2>4. CASE t.ph = s.ph /\ s.pc \notin {"toMongo", "toPush"}
    <3>1. e \in Numbered /\ s.pc # "modify"
      <4>1. s.pc # "modify"
          BY DEF RunStep, toPushTopic, GetMaxSeq, SetMessageToCache, SetMaxSeq, SetHasReadSeqs,
                 FirstCreateConversation, MsgToMongoMQ
      <4> QED BY <1>8, <2>4, <4>1
    <3> QED BY <1>1, <1>16, <2>1, <2>4, <3>1 DEF SourceOK
  <2>5. CASE t = EndPhase(s)
    <3>1. s.ph = "chat" /\ t.ph = "notif"
      <4>1. s.ph # "chat" => EndPhase(s) = Idle \/ EndPhase(s) = [s EXCEPT !.pc = "modify"]
          BY DEF EndPhase
      <4>2. [s EXCEPT !.pc = "modify"].pc = "modify" /\ Idle.pc = "idle"
          BY <1>1 DEF WorkerState, Idle
      <4>3. s.ph = "chat"
          BY <1>16, <2>5, <4>1, <4>2
      <4> QED BY <2>5, <4>3 DEF EndPhase, StartPhase, Idle
    <3>2. e.conv.type = "n" /\ e \notin es
        BY <1>4, <1>7, <1>16, <3>1
    <3>3. e \in Numbered /\ s.pc # "modify"
      <4>1. s.pc # "modify"
          BY DEF RunStep, toPushTopic, GetMaxSeq, SetMessageToCache, SetMaxSeq, SetHasReadSeqs,
                 FirstCreateConversation, MsgToMongoMQ
      <4> QED BY <1>8, <3>2, <4>1
    <3> QED BY <1>1, <1>16, <2>1, <3>1, <3>2, <3>3 DEF SourceOK
  <2> QED BY <2>2, <2>3, <2>4, <2>5
<1>17. SourceOK(wk[w])'
    BY <1>16 DEF SourceOK
<1> QED BY <1>3, <1>12, <1>13, <1>14, <1>15, <1>17 DEF SourceInv

\* Every step keeps seq order in send order.
LEMMA SourceNext ==
    ASSUME OneClaim, SInv, SourceInv, [Next]_vars
    PROVE  SourceInv'
<1>1. TInv /\ Routing /\ SeqInv /\ Stages
    BY DEF SInv, SourceInv
<1>2. ASSUME UNCHANGED <<topic, owner, pos, bufVars, wk, mongoTopic, pushTopic>> PROVE SourceInv'
  <2>1. TopicOrder'
      BY <1>2 DEF SourceInv, Stages, TopicOrder
  <2>2. Stages' /\ QueuesShrink
      BY <1>2, <2>1, FlowFrame DEF SourceInv, Stages, Shrinks, QueuesShrink
  <2> QED BY <1>2, <2>2, SourceQueueStep
<1>3. CASE UNCHANGED vars
    BY <1>2, <1>3 DEF vars, kafkaVars, mongoVars
<1>4. ASSUME NEW p \in Partition, AutoCommit(p) \/ MongoInsert(p) \/ MongoEvict(p) \/ MongoAutoCommit(p)
      PROVE  SourceInv'
    BY <1>2, <1>4 DEF AutoCommit, MongoInsert, MongoEvict, MongoAutoCommit, kafkaVars, mongoVars
<1>5. ASSUME NEW d \in Payload, MsgToMQ(d) PROVE SourceInv'
    BY <1>1, <1>5, FlowSend, SourceQueueStep DEF MsgToMQ, mongoVars
<1>6. ASSUME NEW p \in Partition, ConsumeClaim(p) PROVE SourceInv'
    BY <1>1, <1>6, FlowConsume, SourceQueueStep DEF ConsumeClaim, mongoVars
<1>7. ASSUME NEW x \in Claim, Tick(x) PROVE SourceInv'
    BY <1>1, <1>7, FlowTick, SourceQueueStep DEF Tick, mongoVars
<1>8. ASSUME NEW x \in Claim, Distribute(x) PROVE SourceInv'
  <2>1. Stages' /\ QueuesShrink
      BY <1>1, <1>8, FlowDistribute
  <2>2. UNCHANGED <<wk, mongoTopic, pushTopic>>
      BY <1>8 DEF Distribute, mongoVars
  <2> QED BY <2>1, <2>2, SourceQueueStep
<1>9. ASSUME NEW i \in Instance, NEW k \in Key, Route(i, k) PROVE SourceInv'
  <2>1. Stages' /\ QueuesShrink
      BY <1>1, <1>9, FlowRoute
  <2>2. UNCHANGED <<wk, mongoTopic, pushTopic>>
      BY <1>9 DEF Route, mongoVars
  <2> QED BY <2>1, <2>2, SourceQueueStep
<1>10. ASSUME NEW i \in Instance, Crash(i) PROVE FALSE
    BY <1>1, <1>10 DEF Crash, OneClaim, TInv, TypeOK
<1>11. ASSUME NEW p \in Partition, NEW j \in Instance, Rebalance(p, j) PROVE FALSE
    BY <1>1, <1>11, KeyFacts DEF Rebalance, OneClaim
<1>12. ASSUME NEW w \in Worker, RunStep(w) PROVE SourceInv'
  <2>1. CASE Run(w)
      BY <1>1, <2>1, SourceRun
  <2>2. CASE ModifyPanic(w)
    <3>1. w[1] \in Instance
        BY DEF Worker
    <3> QED BY <1>10, <2>2, <3>1 DEF ModifyPanic
  <2> QED BY <1>1, <1>12, <2>1, <2>2, SourceRunStep
<1> QED BY <1>3, <1>4, <1>5, <1>6, <1>7, <1>8, <1>9, <1>10, <1>11, <1>12 DEF Next

\* Initially nothing has been sent.
LEMMA SourceInit == Init => SourceInv
<1> SUFFICES ASSUME Init PROVE SourceInv
    OBVIOUS
<1>1. \A w \in Worker : wk[w].pc = "idle" /\ Len(chArrays[w]) = 0
    BY EmptySeq DEF Init, Idle
<1>2. /\ \A p \in Partition : Len(topic[p]) = 0 /\ Len(mongoTopic[p]) = 0
      /\ \A x \in Claim : Len(cMsg[x]) = 0 /\ Len(ccMsg[x]) = 0
      /\ \A k \in Key : Len(pushTopic[k]) = 0
      /\ \A i \in Instance : Len(agg[i].msgs) = 0 /\ agg[i].keys = {}
    BY EmptySeq DEF Init
<1>3. Numbered = {}
    BY <1>2 DEF Numbered, MongoLog, PushLog
<1>4. \A k \in Key : Grouped(k) = {}
  <2>1. \A k \in Key : owner[PartOf[k]] \in Instance
      BY TransferAssumption DEF Init
  <2> QED BY <1>2, <2>1 DEF Grouped
<1>5. Stages
    BY <1>1, <1>2, <1>4 DEF Stages, TopicOrder, BufferOrder, TickerOrder, GroupOrder, QueueOrder,
                            InOrder, Below, Offs
<1> QED BY <1>1, <1>3, <1>5 DEF SourceInv, WorkerOrder, SourceOrder, LeftOrder, SourceOK

\* While partitions are not reassigned and no process stops, the seqs of a conversation
\* are in the order in which SendMsg put its messages on the topic, whatever calls fail:
\* the buffer, the slices, the routing and the batches keep the order.
THEOREM SourceOrderHolds ==
    ASSUME OneClaim
    PROVE  Spec => []SourceOrder
<1>1. OneHome
    BY DEF OneClaim, OneHome
<1>2. SInv /\ SourceInv /\ [Next]_vars => SourceInv'
    BY SourceNext
<1>3. SourceInv => SourceOrder
    BY DEF SourceInv
<1>4. Spec => []SInv
    BY <1>1, SInvHolds
<1> QED BY <1>2, <1>3, <1>4, SourceInit, PTL DEF Spec
=============================================================================
