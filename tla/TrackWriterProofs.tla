-------------------------- MODULE TrackWriterProofs --------------------------
(***************************************************************************)
(* Theorems about TrackWriter: a recorded track loses, duplicates and       *)
(* reorders nothing as long as its store is reliable, whatever the lengths  *)
(* of its packets, the limits of its segments and the size of a part.       *)
(***************************************************************************)
EXTENDS TrackWriter, RtpFileProofs

-----------------------------------------------------------------------------
(* Items and their bytes                                                    *)

LEMMA Constants ==
  /\ MaxPackets \in Nat /\ MaxSegments \in Nat /\ MaxTime \in Nat /\ PartSize \in Nat
  /\ Indexes = 1..MaxSegments /\ 1 \in Indexes
  /\ Times = 0..MaxTime /\ 0 \in Times /\ NoTime \notin Times
  /\ Header \notin Packets /\ Packets \subseteq Items /\ Header \in Items
  /\ \A n \in Packets : PayloadLength[n] \in Nat
BY BoundsAssumption, FormatAssumption DEF Indexes, Times, NoTime, Header, Packets, Items

LEMMA Regroup ==
  \A s, t, u \in Seq(Items) : (s \o t) \o u = s \o (t \o u)
BY ConcatAssociative

LEMMA ItemBytesType == \A item \in Items : ItemBytes(item) \in Nat
BY Constants DEF ItemBytes, HeaderSize, RecordSize, Items

Sizes(items) == [k \in 1..Len(items) |-> ItemBytes(items[k])]

LEMMA SizesType ==
  ASSUME NEW items \in Seq(Items)
  PROVE  /\ Sizes(items) \in Seq(Int) /\ Sizes(items) \in Seq(Nat)
         /\ Len(Sizes(items)) = Len(items)
         /\ \A k \in 1..Len(items) : Sizes(items)[k] = ItemBytes(items[k])
                                      /\ Sizes(items)[k] \in Nat
<1>1. Len(items) \in Nat /\ \A k \in 1..Len(items) : items[k] \in Items
  BY LenProperties, ElementOfSeq
<1>2. \A k \in 1..Len(items) : Sizes(items)[k] = ItemBytes(items[k]) /\ Sizes(items)[k] \in Nat
  BY <1>1, ItemBytesType DEF Sizes
<1>3. Sizes(items) = [k \in 1..Len(items) |-> Sizes(items)[k]]
  BY DEF Sizes
<1>4. Sizes(items) \in [1..Len(items) -> Nat]
  BY <1>2, <1>3
<1> QED
  BY <1>1, <1>2, <1>4

LEMMA BytesTotals ==
  ASSUME NEW items \in Seq(Items)
  PROVE  \E T : Totals(T, Sizes(items), 0) /\ Bytes(items) = T[Len(items)]
<1>1. Len(items) \in Nat /\ DOMAIN items = 1..Len(items) /\ DOMAIN Sizes(items) = 1..Len(items)
  BY LenProperties DEF Sizes
<1> DEFINE D == 1..Len(items)
           Chosen(g) == g = [s \in SUBSET D |->
                               IF s = {} THEN 0
                               ELSE ItemBytes(items[PickOf(s)]) + g[s \ {PickOf(s)}]]
<1>2. ASSUME NEW g PROVE Chosen(g) <=> IsSum(g, Sizes(items), D, 0)
  <2>1. ASSUME NEW s \in SUBSET D, s # {}
        PROVE  Sizes(items)[PickOf(s)] = ItemBytes(items[PickOf(s)])
    <3>1. PickOf(s) \in D
      BY <2>1, PickIn
    <3> QED
      BY <3>1, SizesType
  <2>2. [s \in SUBSET D |-> IF s = {} THEN 0
                            ELSE ItemBytes(items[PickOf(s)]) + g[s \ {PickOf(s)}]]
        = [s \in SUBSET D |-> IF s = {} THEN 0
                              ELSE Sizes(items)[PickOf(s)] + g[s \ {PickOf(s)}]]
    BY <2>1
  <2> QED
    BY <2>2 DEF IsSum
<1>3. IsFiniteSet(D)
  BY <1>1, FS_Interval
<1>4. \E g : Chosen(g)
  <2>1. \E g : IsSum(g, Sizes(items), D, 0)
    BY <1>3, SumExists
  <2> HIDE DEF Chosen, D
  <2> QED
    BY <1>2, <2>1
<1>5. Bytes(items) = (CHOOSE g : Chosen(g))[D]
  BY <1>1 DEF Bytes, FoldSeq, FoldFunction, FoldFunctionOnSet, MapThenFoldSet, PickOf
<1>6. Chosen(CHOOSE g : Chosen(g))
  <2> HIDE DEF Chosen
  <2> QED
    BY <1>4
<1> HIDE DEF Chosen
<1>7. PICK g : IsSum(g, Sizes(items), D, 0) /\ Bytes(items) = g[D]
  BY <1>2, <1>5, <1>6
<1>8. Totals([k \in 0..Len(Sizes(items)) |-> g[1..k]], Sizes(items), 0)
  <2>1. IsSum(g, Sizes(items), DOMAIN Sizes(items), 0) /\ Sizes(items) \in Seq(Int) /\ 0 \in Int
    BY <1>1, <1>7, SizesType
  <2> QED
    BY ONLY <2>1, SumTotals
<1>9. [k \in 0..Len(Sizes(items)) |-> g[1..k]][Len(items)] = g[D]
  BY <1>1, SizesType
<1> QED
  BY <1>7, <1>8, <1>9

LEMMA BytesEmpty == Bytes(<<>>) = 0
<1>1. <<>> \in Seq(Items) /\ Len(<<>>) = 0
  OBVIOUS
<1>2. PICK T : Totals(T, Sizes(<<>>), 0) /\ Bytes(<<>>) = T[0]
  BY <1>1, BytesTotals
<1> QED
  BY <1>2 DEF Totals

LEMMA BytesAppend ==
  ASSUME NEW items \in Seq(Items), NEW item \in Items
  PROVE  /\ Bytes(Append(items, item)) = Bytes(items) + ItemBytes(item)
         /\ Bytes(items) \in Int
<1> DEFINE more == Append(items, item)
           n == Len(items)
<1>1. /\ more \in Seq(Items) /\ Len(more) = n + 1 /\ n \in Nat
      /\ more[n + 1] = item /\ \A k \in 1..n : more[k] = items[k]
  BY AppendProperties, LenProperties
<1> HIDE DEF more
<1>2. PICK T : Totals(T, Sizes(items), 0) /\ Bytes(items) = T[n]
  BY BytesTotals
<1>3. PICK U : Totals(U, Sizes(more), 0) /\ Bytes(more) = U[n + 1]
  BY <1>1, BytesTotals
<1>4. /\ Sizes(items) \in Seq(Int) /\ Len(Sizes(items)) = n
      /\ \A k \in 1..n : Sizes(items)[k] = ItemBytes(items[k])
  BY SizesType
<1>5. /\ Sizes(more) \in Seq(Int) /\ Len(Sizes(more)) = n + 1
      /\ \A k \in 1..(n + 1) : Sizes(more)[k] = ItemBytes(more[k])
  BY <1>1, SizesType
<1>6. \A k \in 1..n : Sizes(items)[k] = Sizes(more)[k]
  BY <1>1, <1>4, <1>5
<1>7. /\ T[n] \in Int /\ U[n] \in Int
      /\ U[n + 1] = U[n] + ItemBytes(item)
  <2>1. n \in 0..n /\ n \in 0..(n + 1) /\ n + 1 \in 1..(n + 1) /\ (n + 1) - 1 = n
    BY <1>1
  <2>2. T[n] \in Int
    BY <1>2, <1>4, <2>1 DEF Totals
  <2>3. U[n] \in Int
    BY <1>3, <1>5, <2>1 DEF Totals
  <2>4. U[n + 1] = U[n] + Sizes(more)[n + 1]
    BY <1>3, <1>5, <2>1 DEF Totals
  <2> QED
    BY <1>1, <1>5, <2>1, <2>2, <2>3, <2>4
<1>8. T[n] - 0 = U[n] - 0
  <2>1. n <= Len(Sizes(items)) /\ n <= Len(Sizes(more)) /\ 0 \in Int
    BY <1>1, <1>4, <1>5
  <2> HIDE DEF n
  <2> QED
    BY ONLY <1>1, <1>2, <1>3, <1>4, <1>5, <1>6, <2>1, TotalsAgree
<1> QED
  BY <1>2, <1>3, <1>7, <1>8 DEF more

LEMMA BytesType == \A items \in Seq(Items) : Bytes(items) \in Nat
<1> DEFINE S == {items \in Seq(Items) : Bytes(items) \in Nat}
<1>1. S \in SUBSET Seq(Items) /\ <<>> \in S
  BY BytesEmpty
<1>2. ASSUME NEW items \in S, NEW item \in Items PROVE Append(items, item) \in S
  <2>1. items \in Seq(Items) /\ Bytes(items) \in Nat /\ ItemBytes(item) \in Nat
    BY ItemBytesType
  <2>2. Append(items, item) \in Seq(Items)
    BY <2>1, AppendProperties
  <2>3. Bytes(Append(items, item)) = Bytes(items) + ItemBytes(item)
    BY <2>1, BytesAppend
  <2> QED
    BY <2>1, <2>2, <2>3
<1> HIDE DEF S
<1>3. S = Seq(Items)
  BY <1>1, <1>2, SequenceInduction
<1> QED
  BY <1>3 DEF S

LEMMA BytesConcat ==
  ASSUME NEW items \in Seq(Items)
  PROVE  \A more \in Seq(Items) : Bytes(items \o more) = Bytes(items) + Bytes(more)
<1> DEFINE S == {more \in Seq(Items) : Bytes(items \o more) = Bytes(items) + Bytes(more)}
<1>1. S \in SUBSET Seq(Items) /\ <<>> \in S
  <2>1. Bytes(items) \in Nat /\ items \o <<>> = items
    BY BytesType, ConcatEmptySeq
  <2> QED
    BY <2>1, BytesEmpty
<1>2. ASSUME NEW more \in S, NEW item \in Items PROVE Append(more, item) \in S
  <2>1. /\ more \in Seq(Items) /\ Bytes(items \o more) = Bytes(items) + Bytes(more)
        /\ Bytes(items) \in Nat /\ Bytes(more) \in Nat /\ ItemBytes(item) \in Nat
    BY BytesType, ItemBytesType
  <2>2. /\ Append(more, item) \in Seq(Items) /\ items \o more \in Seq(Items)
        /\ items \o Append(more, item) = Append(items \o more, item)
    BY <2>1, AppendProperties, ConcatProperties, AppendIsConcat
  <2>3. /\ Bytes(Append(more, item)) = Bytes(more) + ItemBytes(item)
        /\ Bytes(items \o Append(more, item)) = Bytes(items \o more) + ItemBytes(item)
    BY <2>1, <2>2, BytesAppend
  <2> DEFINE a == Bytes(items)
             b == Bytes(more)
             c == ItemBytes(item)
  <2>4. a + (b + c) = (a + b) + c
    BY <2>1
  <2> HIDE DEF a, b, c
  <2>5. Bytes(items \o Append(more, item)) = Bytes(items) + Bytes(Append(more, item))
    BY <2>1, <2>3, <2>4, Zenon DEF a, b, c
  <2> QED
    BY <2>2, <2>5
<1> HIDE DEF S
<1>3. S = Seq(Items)
  BY <1>1, <1>2, SequenceInduction
<1> QED
  BY <1>3 DEF S

-----------------------------------------------------------------------------
(* The packets among items                                                  *)

Selected(packets, item) == IF item = Header THEN packets ELSE Append(packets, item)

Selects(F, items) ==
  /\ F \in [0..Len(items) -> Seq(Packets)]
  /\ F[0] = <<>>
  /\ \A k \in 1..Len(items) : F[k] = Selected(F[k - 1], items[k])

LEMMA SelectedType ==
  ASSUME NEW packets \in Seq(Packets), NEW item \in Items
  PROVE  Selected(packets, item) \in Seq(Packets)
BY AppendProperties, Constants DEF Selected, Items

LEMMA PacketsSelect ==
  ASSUME NEW items \in Seq(Items)
  PROVE  \E F : Selects(F, items) /\ PacketsOf(items) = F[Len(items)]
<1> DEFINE n == Len(items)
<1>1. n \in Nat /\ \A k \in 1..n : items[k] \in Items
  BY LenProperties, ElementOfSeq
<1> DEFINE step == [k \in 1..n |-> [p \in Seq(Packets) |-> Selected(p, items[k])]]
<1>2. \E F : Steps(F, Seq(Packets), <<>>, n, step)
  <2>1. step \in [1..n -> [Seq(Packets) -> Seq(Packets)]]
    BY <1>1, SelectedType
  <2>2. <<>> \in Seq(Packets)
    OBVIOUS
  <2> DEFINE S == Seq(Packets)
             none == <<>>
  <2>3. n \in Nat /\ none \in S /\ step \in [1..n -> [S -> S]]
    BY <1>1, <2>1, <2>2
  <2> HIDE DEF S, n, step, none
  <2>4. \E F : Steps(F, S, none, n, step)
    BY ONLY <2>3, Recursion
  <2> QED
    BY <2>4 DEF S, none
<1>3. PICK F : Steps(F, Seq(Packets), <<>>, n, step)
  BY <1>2
<1>4. Selects(F, items)
  <2>1. ASSUME NEW k \in 1..n PROVE k - 1 \in 0..n /\ F[k - 1] \in Seq(Packets)
    <3>1. k - 1 \in 0..n
      BY <1>1
    <3> HIDE DEF step, n
    <3> QED
      BY <1>3, <3>1 DEF Steps
  <2>2. \A k \in 1..n, p \in Seq(Packets) : step[k][p] = Selected(p, items[k])
    OBVIOUS
  <2> HIDE DEF step
  <2> QED
    BY <1>3, <2>1, <2>2 DEF Steps, Selects
<1> HIDE DEF step
<1> DEFINE Chosen(f) == f = [k \in 0..n |-> IF k = 0 THEN <<>>
                                            ELSE IF items[k] = Header THEN f[k - 1]
                                            ELSE Append(f[k - 1], items[k])]
<1>5. Chosen(F)
  <2>1. ASSUME NEW k \in 0..n
        PROVE  F[k] = IF k = 0 THEN <<>> ELSE IF items[k] = Header THEN F[k - 1]
                      ELSE Append(F[k - 1], items[k])
    <3>1. k = 0 \/ k \in 1..n
      BY <1>1
    <3> QED
      BY <1>1, <1>4, <3>1 DEF Selects, Selected
  <2>2. F = [k \in 0..n |-> F[k]]
    BY <1>4 DEF Selects
  <2> QED
    BY <2>1, <2>2
<1> DEFINE g == CHOOSE f : Chosen(f)
<1>6. Chosen(g)
  <2> HIDE DEF Chosen
  <2> QED
    BY <1>5
<1>7. PacketsOf(items) = g[n]
  BY DEF PacketsOf
<1> HIDE DEF g
<1> DEFINE N == {k \in Nat : k <= n => g[k] = F[k]}
<1>8. 0 \in N
  BY <1>1, <1>4, <1>6 DEF Selects
<1>9. ASSUME NEW k \in N PROVE k + 1 \in N
  <2>1. k \in Nat /\ k + 1 \in Nat
    OBVIOUS
  <2> SUFFICES ASSUME k + 1 <= n PROVE g[k + 1] = F[k + 1]
    BY <2>1
  <2>2. k + 1 \in 0..n /\ k + 1 \in 1..n /\ k + 1 # 0 /\ (k + 1) - 1 = k /\ g[k] = F[k]
    BY <1>1, <2>1
  <2>3. g[k + 1] = IF items[k + 1] = Header THEN g[k] ELSE Append(g[k], items[k + 1])
    BY <1>6, <2>2
  <2>4. F[k + 1] = Selected(F[k], items[k + 1])
    BY <1>4, <2>2 DEF Selects
  <2> QED
    BY <2>2, <2>3, <2>4 DEF Selected
<1> HIDE DEF N
<1>10. N = Nat
  <2>1. N \in SUBSET Nat
    BY DEF N
  <2> QED
    BY <1>8, <1>9, <2>1, Induction
<1>11. g[n] = F[n]
  <2>1. n \in N /\ n <= n
    BY <1>1, <1>10
  <2> QED
    BY <2>1 DEF N
<1> QED
  BY <1>4, <1>7, <1>11

LEMMA PacketsType ==
  ASSUME NEW items \in Seq(Items)
  PROVE  PacketsOf(items) \in Seq(Packets)
<1>1. PICK F : Selects(F, items) /\ PacketsOf(items) = F[Len(items)]
  BY PacketsSelect
<1>2. Len(items) \in 0..Len(items)
  BY LenProperties
<1> QED
  BY <1>1, <1>2 DEF Selects

LEMMA PacketsEmpty == PacketsOf(<<>>) = <<>>
<1>1. <<>> \in Seq(Items) /\ Len(<<>>) = 0
  OBVIOUS
<1>2. PICK F : Selects(F, <<>>) /\ PacketsOf(<<>>) = F[0]
  BY <1>1, PacketsSelect
<1> QED
  BY <1>2 DEF Selects

LEMMA PacketsAppend ==
  ASSUME NEW items \in Seq(Items), NEW item \in Items
  PROVE  PacketsOf(Append(items, item)) = Selected(PacketsOf(items), item)
<1> DEFINE more == Append(items, item)
           n == Len(items)
<1>1. /\ more \in Seq(Items) /\ Len(more) = n + 1 /\ n \in Nat
      /\ more[n + 1] = item /\ \A k \in 1..n : more[k] = items[k]
  BY AppendProperties, LenProperties
<1> HIDE DEF more
<1>2. PICK F : Selects(F, items) /\ PacketsOf(items) = F[n]
  BY PacketsSelect
<1>3. PICK G : Selects(G, more) /\ PacketsOf(more) = G[n + 1]
  BY <1>1, PacketsSelect
<1> DEFINE N == {k \in Nat : k <= n => F[k] = G[k]}
<1>4. 0 \in N
  BY <1>2, <1>3 DEF Selects
<1>5. ASSUME NEW k \in N PROVE k + 1 \in N
  <2>1. k \in Nat /\ k + 1 \in Nat
    OBVIOUS
  <2> SUFFICES ASSUME k + 1 <= n PROVE F[k + 1] = G[k + 1]
    BY <2>1
  <2>2. k + 1 \in 1..n /\ k + 1 \in 1..(n + 1) /\ (k + 1) - 1 = k /\ F[k] = G[k]
    BY <1>1, <2>1
  <2>3. F[k + 1] = Selected(F[k], items[k + 1])
    BY <1>2, <2>2 DEF Selects
  <2>4. G[k + 1] = Selected(G[k], more[k + 1])
    BY <1>1, <1>3, <2>2 DEF Selects
  <2> QED
    BY <1>1, <2>2, <2>3, <2>4
<1> HIDE DEF N
<1>6. N = Nat
  <2>1. N \in SUBSET Nat
    BY DEF N
  <2> QED
    BY <1>4, <1>5, <2>1, Induction
<1>7. F[n] = G[n]
  <2>1. n \in N /\ n <= n
    BY <1>1, <1>6
  <2> QED
    BY <2>1 DEF N
<1>8. n + 1 \in 1..(n + 1) /\ (n + 1) - 1 = n
  BY <1>1
<1>9. G[n + 1] = Selected(G[n], item)
  BY <1>1, <1>3, <1>8 DEF Selects
<1> QED
  BY <1>2, <1>3, <1>7, <1>9 DEF more

LEMMA PacketsConcat ==
  ASSUME NEW items \in Seq(Items)
  PROVE  \A more \in Seq(Items) : PacketsOf(items \o more) = PacketsOf(items) \o PacketsOf(more)
<1> DEFINE S == {more \in Seq(Items) :
                   PacketsOf(items \o more) = PacketsOf(items) \o PacketsOf(more)}
<1>1. S \in SUBSET Seq(Items) /\ <<>> \in S
  <2>1. items \o <<>> = items /\ PacketsOf(items) \o <<>> = PacketsOf(items)
    BY PacketsType, ConcatEmptySeq
  <2>2. PacketsOf(items \o <<>>) = PacketsOf(items) \o PacketsOf(<<>>)
    BY <2>1, PacketsEmpty, Zenon
  <2> QED
    BY <2>2
<1>2. ASSUME NEW more \in S, NEW item \in Items PROVE Append(more, item) \in S
  <2>1. /\ more \in Seq(Items)
        /\ PacketsOf(items \o more) = PacketsOf(items) \o PacketsOf(more)
        /\ PacketsOf(items) \in Seq(Packets) /\ PacketsOf(more) \in Seq(Packets)
    BY PacketsType
  <2>2. /\ Append(more, item) \in Seq(Items) /\ items \o more \in Seq(Items)
        /\ items \o Append(more, item) = Append(items \o more, item)
    BY <2>1, AppendProperties, ConcatProperties, AppendIsConcat
  <2>3. /\ PacketsOf(Append(more, item)) = Selected(PacketsOf(more), item)
        /\ PacketsOf(items \o Append(more, item)) = Selected(PacketsOf(items \o more), item)
    BY <2>1, <2>2, PacketsAppend
  <2>4. Selected(PacketsOf(items) \o PacketsOf(more), item)
          = PacketsOf(items) \o Selected(PacketsOf(more), item)
    <3> DEFINE p == PacketsOf(items)
               q == PacketsOf(more)
    <3>1. CASE item = Header
      BY <3>1 DEF Selected
    <3>2. CASE item # Header
      <4>1. p \in Seq(Packets) /\ q \in Seq(Packets) /\ item \in Packets
        BY <2>1, <3>2 DEF Items
      <4> HIDE DEF p, q
      <4>2. p \o Append(q, item) = Append(p \o q, item)
        BY <4>1, AppendProperties, ConcatProperties, AppendIsConcat
      <4> QED
        BY <3>2, <4>2 DEF p, q, Selected
    <3> QED
      BY <3>1, <3>2
  <2> QED
    BY <2>1, <2>2, <2>3, <2>4
<1> HIDE DEF S
<1>3. S = Seq(Items)
  BY <1>1, <1>2, SequenceInduction
<1> QED
  BY <1>3 DEF S

-----------------------------------------------------------------------------
(* The packets counted in segments                                          *)

Counts(list) == [k \in 1..Len(list) |-> list[k].packets]

LEMMA CountsType ==
  ASSUME NEW list \in Seq(SegmentInfo)
  PROVE  /\ Counts(list) \in Seq(Int) /\ Len(Counts(list)) = Len(list)
         /\ \A k \in 1..Len(list) : Counts(list)[k] = list[k].packets
                                     /\ list[k].packets \in Nat
<1>1. Len(list) \in Nat /\ \A k \in 1..Len(list) : list[k] \in SegmentInfo
  BY LenProperties, ElementOfSeq
<1>2. \A k \in 1..Len(list) : Counts(list)[k] = list[k].packets /\ list[k].packets \in Nat
  BY <1>1 DEF Counts, SegmentInfo
<1>3. Counts(list) = [k \in 1..Len(list) |-> Counts(list)[k]]
  BY DEF Counts
<1>4. Counts(list) \in [1..Len(list) -> Int]
  BY <1>2, <1>3
<1> QED
  BY <1>1, <1>2, <1>4

LEMMA PacketTotals ==
  ASSUME NEW list \in Seq(SegmentInfo), NEW c \in Int
  PROVE  \E T : Totals(T, Counts(list), c) /\ TotalPackets(list, c) = T[Len(list)]
<1>1. Len(list) \in Nat /\ DOMAIN list = 1..Len(list) /\ DOMAIN Counts(list) = 1..Len(list)
  BY LenProperties DEF Counts
<1> DEFINE D == 1..Len(list)
           Chosen(g) == g = [s \in SUBSET D |->
                               IF s = {} THEN c
                               ELSE list[PickOf(s)].packets + g[s \ {PickOf(s)}]]
<1>2. ASSUME NEW g PROVE Chosen(g) <=> IsSum(g, Counts(list), D, c)
  <2>1. ASSUME NEW s \in SUBSET D, s # {}
        PROVE  Counts(list)[PickOf(s)] = list[PickOf(s)].packets
    <3>1. PickOf(s) \in D
      BY <2>1, PickIn
    <3> QED
      BY <3>1, CountsType
  <2>2. [s \in SUBSET D |-> IF s = {} THEN c
                            ELSE list[PickOf(s)].packets + g[s \ {PickOf(s)}]]
        = [s \in SUBSET D |-> IF s = {} THEN c
                              ELSE Counts(list)[PickOf(s)] + g[s \ {PickOf(s)}]]
    BY <2>1
  <2> QED
    BY <2>2 DEF IsSum
<1>3. IsFiniteSet(D)
  BY <1>1, FS_Interval
<1>4. \E g : Chosen(g)
  <2>1. \E g : IsSum(g, Counts(list), D, c)
    BY <1>3, SumExists
  <2> HIDE DEF Chosen, D
  <2> QED
    BY <1>2, <2>1
<1>5. TotalPackets(list, c) = (CHOOSE g : Chosen(g))[D]
  BY <1>1 DEF TotalPackets, FoldSeq, FoldFunction, FoldFunctionOnSet, MapThenFoldSet, PickOf
<1>6. Chosen(CHOOSE g : Chosen(g))
  <2> HIDE DEF Chosen
  <2> QED
    BY <1>4
<1> HIDE DEF Chosen
<1>7. PICK g : IsSum(g, Counts(list), D, c) /\ TotalPackets(list, c) = g[D]
  BY <1>2, <1>5, <1>6
<1>8. Totals([k \in 0..Len(Counts(list)) |-> g[1..k]], Counts(list), c)
  <2>1. IsSum(g, Counts(list), DOMAIN Counts(list), c) /\ Counts(list) \in Seq(Int) /\ c \in Int
    BY <1>1, <1>7, CountsType
  <2> QED
    BY ONLY <2>1, SumTotals
<1>9. [k \in 0..Len(Counts(list)) |-> g[1..k]][Len(list)] = g[D]
  BY <1>1, CountsType
<1> QED
  BY <1>7, <1>8, <1>9

(* How the total changes when a list is extended, or its last segment is    *)
(* given its count: lists that agree before their last segments have totals *)
(* that differ by what these and the two remainders hold.                   *)
LEMMA TotalExtended ==
  ASSUME NEW list \in Seq(SegmentInfo), NEW more \in Seq(SegmentInfo),
         NEW c \in Int, NEW d \in Int, Len(more) = Len(list) + 1,
         \A k \in 1..Len(list) : more[k].packets = list[k].packets
  PROVE  TotalPackets(more, d) - d = TotalPackets(list, c) - c + more[Len(list) + 1].packets
         /\ TotalPackets(list, c) \in Int /\ TotalPackets(more, d) \in Int
<1> DEFINE n == Len(list)
<1>1. n \in Nat /\ n \in 0..n /\ n \in 0..(n + 1) /\ n + 1 \in 1..(n + 1) /\ (n + 1) - 1 = n
      /\ n + 1 \in 0..(n + 1) /\ Len(more) = n + 1
  BY LenProperties
<1>2. PICK T : Totals(T, Counts(list), c) /\ TotalPackets(list, c) = T[n]
  BY PacketTotals
<1>3. PICK U : Totals(U, Counts(more), d) /\ TotalPackets(more, d) = U[n + 1]
  BY PacketTotals
<1>4. /\ Counts(list) \in Seq(Int) /\ Len(Counts(list)) = n
      /\ \A k \in 1..n : Counts(list)[k] = list[k].packets
  BY CountsType
<1>5. /\ Counts(more) \in Seq(Int) /\ Len(Counts(more)) = n + 1
      /\ \A k \in 1..(n + 1) : Counts(more)[k] = more[k].packets /\ more[k].packets \in Nat
  BY CountsType
<1> HIDE DEF n
<1>6. T[n] \in Int
  BY <1>1, <1>2, <1>4 DEF Totals
<1>7. U[n] \in Int /\ U[n + 1] \in Int
  BY <1>1, <1>3, <1>5 DEF Totals
<1>8. U[n + 1] = U[n] + more[n + 1].packets
  <2>1. U[n + 1] = U[(n + 1) - 1] + Counts(more)[n + 1]
    BY <1>1, <1>3, <1>5 DEF Totals
  <2> QED
    BY <1>1, <1>5, <2>1
<1>9. T[n] - c = U[n] - d
  <2>1. \A k \in 1..n : Counts(list)[k] = Counts(more)[k]
    <3>1. \A k \in 1..n : k \in 1..(n + 1) /\ more[k].packets = list[k].packets
      BY <1>1 DEF n
    <3> QED
      BY <1>4, <1>5, <3>1
  <2>2. n <= Len(Counts(list)) /\ n <= Len(Counts(more))
    BY <1>1, <1>4, <1>5
  <2> QED
    BY ONLY <1>1, <1>2, <1>3, <1>4, <1>5, <2>1, <2>2, c \in Int, d \in Int, TotalsAgree
<1>10. more[n + 1].packets \in Int
  BY <1>1, <1>5
<1>11. U[n + 1] - d = T[n] - c + more[n + 1].packets
  BY <1>6, <1>7, <1>8, <1>9, <1>10
<1> QED
  BY <1>2, <1>3, <1>6, <1>7, <1>11 DEF n

LEMMA TotalFirst == ASSUME NEW s \in SegmentInfo PROVE TotalPackets(<<s>>, 0) = s.packets
<1>0. /\ <<s>> \in Seq(SegmentInfo) /\ Len(<<s>>) = 1 /\ <<s>>[1] = s /\ s.packets \in Nat
      /\ 0 \in Int
  BY DEF SegmentInfo
<1> DEFINE list == <<s>>
<1>1. /\ list \in Seq(SegmentInfo) /\ Len(list) = 1 /\ s.packets \in Nat
      /\ Counts(list)[1] = s.packets /\ Len(Counts(list)) = 1
  BY <1>0, CountsType
<1> HIDE DEF list
<1>2. PICK T : Totals(T, Counts(list), 0) /\ TotalPackets(list, 0) = T[1]
  BY <1>0, <1>1, PacketTotals
<1>3. T[0] = 0 /\ T[1] = T[0] + Counts(list)[1]
  <2>1. 1 \in 1..1 /\ 1 - 1 = 0
    OBVIOUS
  <2> QED
    BY <1>1, <1>2, <2>1 DEF Totals
<1> QED
  BY <1>1, <1>2, <1>3 DEF list

(* The same for two lists of one length that differ in their last segments. *)
LEMMA TotalUpdated ==
  ASSUME NEW list \in Seq(SegmentInfo), NEW more \in Seq(SegmentInfo), list # <<>>,
         NEW c \in Int, NEW d \in Int, Len(more) = Len(list),
         \A k \in 1..(Len(list) - 1) : more[k].packets = list[k].packets
  PROVE  /\ TotalPackets(more, d) - d - more[Len(list)].packets
              = TotalPackets(list, c) - c - list[Len(list)].packets
         /\ TotalPackets(list, c) \in Int /\ TotalPackets(more, d) \in Int
<1> DEFINE n == Len(list)
<1>1. /\ n \in Nat /\ n # 0 /\ n - 1 \in Nat /\ n - 1 \in 0..n /\ n \in 1..n /\ n \in 0..n
      /\ Len(more) = n
  BY LenProperties, EmptySeq
<1>2. PICK T : Totals(T, Counts(list), c) /\ TotalPackets(list, c) = T[n]
  BY PacketTotals
<1>3. PICK U : Totals(U, Counts(more), d) /\ TotalPackets(more, d) = U[n]
  BY PacketTotals
<1>4. /\ Counts(list) \in Seq(Int) /\ Len(Counts(list)) = n
      /\ \A k \in 1..n : Counts(list)[k] = list[k].packets /\ list[k].packets \in Nat
  BY CountsType
<1>5. /\ Counts(more) \in Seq(Int) /\ Len(Counts(more)) = n
      /\ \A k \in 1..n : Counts(more)[k] = more[k].packets /\ more[k].packets \in Nat
  BY CountsType
<1> HIDE DEF n
<1>6. T[n - 1] \in Int /\ T[n] \in Int /\ T[n] = T[n - 1] + list[n].packets
  BY <1>1, <1>2, <1>4 DEF Totals
<1>7. U[n - 1] \in Int /\ U[n] \in Int /\ U[n] = U[n - 1] + more[n].packets
  BY <1>1, <1>3, <1>5 DEF Totals
<1>8. T[n - 1] - c = U[n - 1] - d
  <2>1. \A k \in 1..(n - 1) : Counts(list)[k] = Counts(more)[k]
    <3>1. \A k \in 1..(n - 1) : k \in 1..n /\ more[k].packets = list[k].packets
      BY <1>1 DEF n
    <3> QED
      BY <1>4, <1>5, <3>1
  <2>2. n - 1 <= Len(Counts(list)) /\ n - 1 <= Len(Counts(more))
    BY <1>1, <1>4, <1>5
  <2> DEFINE m == n - 1
  <2>3. /\ m \in Nat /\ m <= Len(Counts(list)) /\ m <= Len(Counts(more))
        /\ \A k \in 1..m : Counts(list)[k] = Counts(more)[k]
        /\ Totals(T, Counts(list), c) /\ Totals(U, Counts(more), d)
        /\ Counts(list) \in Seq(Int) /\ Counts(more) \in Seq(Int)
    BY <1>1, <1>2, <1>3, <1>4, <1>5, <2>1, <2>2
  <2> HIDE DEF m
  <2>4. T[m] - c = U[m] - d
    BY ONLY <2>3, c \in Int, d \in Int, TotalsAgree
  <2> QED
    BY <2>4 DEF m
<1>9. list[n].packets \in Int /\ more[n].packets \in Int
  BY <1>1, <1>4, <1>5
<1>10. U[n] - d - more[n].packets = T[n] - c - list[n].packets
  <2> DEFINE t == T[n - 1]
             u == U[n - 1]
             x == list[n].packets
             y == more[n].packets
  <2>1. t \in Int /\ u \in Int /\ x \in Int /\ y \in Int /\ t - c = u - d
        /\ T[n] = t + x /\ U[n] = u + y
    BY <1>6, <1>7, <1>8, <1>9
  <2> HIDE DEF t, u, x, y
  <2>2. U[n] - d - y = T[n] - c - x
    BY <2>1
  <2> QED
    BY <2>2 DEF x, y
<1> QED
  BY <1>2, <1>3, <1>6, <1>7, <1>10 DEF n

-----------------------------------------------------------------------------
(* The inductive invariant                                                  *)

(* Where the operation under way is, and what it found.                     *)
OperationInv ==
  /\ pc # "idle" => op.kind # "none"
  /\ closed /\ pc # "idle" => op.kind = "close"
  /\ op.kind = "close" => closed
  /\ pc = "append" => op.kind = "write"
  /\ pc = "start" => op.kind # "close"
  /\ op.kind = "write" => packetCount < MaxPackets
  /\ pc = "closeS3" => open /\ rtpClosed
  /\ pc = "start" => ~open
  /\ segmentStart <= now
  /\ pc # "idle" /\ op.kind # "close" => segmentStart <= op.at /\ op.at <= now

(* The list of the segments, and what belongs to the newest one.            *)
SegmentsInv ==
  /\ \A k \in 1..Newest : Ended(k) \/ (k = Newest /\ open)
  /\ open => /\ ~Ended(Newest)
             /\ segments[Newest].index = segmentIndex
             /\ segments[Newest].start = segmentStart
             /\ segments[Newest].packets = 0
  /\ \A k \in 1..Newest : segments[k].index <= segmentIndex
  /\ \A j, k \in 1..Newest : j < k => segments[j].index < segments[k].index
  /\ TotalPackets(segments, IF open THEN segmentPackets ELSE 0) = packetCount

(* The objects of the store: none yet for the segment being written.        *)
StoreInv ==
  /\ open \/ s3Closed
  /\ \A i \in Indexes : i > segmentIndex => objects[i] = NoObject
  /\ ~s3Closed => objects[segmentIndex] = NoObject

(* With a reliable store every operation reaches its end.                   *)
ReliableCalls ==
  /\ ~crashed
  /\ open = ~s3Closed
  /\ pc = "idle" => open = ~closed
  /\ pc \in {"append", "closeRtp"} => open
  /\ open /\ pc # "closeS3" => ~rtpClosed
  /\ pc = "closeS3" => buffer = <<>>

(* With a reliable store nothing accepted is missing, neither in the        *)
(* objects nor on its way to them, and the counts are right.                *)
ReliableContent ==
  /\ PacketsOf(Stored \o Pending) = [n \in 1..packetCount |-> n]
  /\ open => /\ Len(PacketsOf(Pending)) = segmentPackets
             /\ Pending # <<>> => segmentPackets > 0
             /\ counted = Bytes(parts \o part)
  /\ \A k \in 1..Newest : Ended(k) =>
       LET i == segments[k].index IN
       /\ segments[k].packets = Len(PacketsOf(objects[i]))
       /\ segments[k].bytes = Bytes(objects[i])
       /\ uploads[i] = IF segments[k].packets > 0 THEN "completed" ELSE "aborted"

(* With a reliable store segments follow each other in time.                *)
ReliableOrder ==
  /\ \A k \in 1..Newest - 1 : /\ segments[k].start <= segments[k].end
                              /\ segments[k].end <= segments[k + 1].start
  /\ pc = "start" => /\ segments[Newest].start <= segments[Newest].end
                     /\ segments[Newest].end = op.at

IInv ==
  /\ TypeOK
  /\ OperationInv
  /\ SegmentsInv
  /\ StoreInv
  /\ ~faults => ReliableCalls /\ ReliableContent /\ ReliableOrder

-----------------------------------------------------------------------------
(* Types                                                                    *)

LEMMA EndedList ==
  ASSUME TypeOK, EndSegment
  PROVE  /\ segments' \in Seq(SegmentInfo) /\ Len(segments') = Len(segments)
         /\ segments' # <<>>
         /\ \A k \in 1..Len(segments) : k # Len(segments) => segments'[k] = segments[k]
         /\ segments'[Len(segments)] =
              [index |-> segments[Len(segments)].index, start |-> segments[Len(segments)].start,
               end |-> op.at, bytes |-> counted, packets |-> segmentPackets]
<1> DEFINE n == Len(segments)
           last == [index |-> segments[n].index, start |-> segments[n].start,
                    end |-> op.at, bytes |-> counted, packets |-> segmentPackets]
<1>1. /\ n \in Nat /\ n # 0 /\ n \in 1..n /\ segments \in Seq(SegmentInfo)
      /\ segments[n] \in SegmentInfo
  BY LenProperties, EmptySeq, ElementOfSeq DEF TypeOK
<1>2. last \in SegmentInfo
  BY <1>1 DEF TypeOK, SegmentInfo, Operations
<1>3. segments' = [segments EXCEPT ![n] = last]
  <2> DEFINE a == [segments EXCEPT ![n].end = op.at]
             b == [a EXCEPT ![n].bytes = counted]
             c == [b EXCEPT ![n].packets = segmentPackets]
  <2>1. segments' = c
    BY DEF EndSegment
  <2>2. a = [segments EXCEPT ![n] = [segments[n] EXCEPT !.end = op.at]]
    OBVIOUS
  <2>3. a[n] = [segments[n] EXCEPT !.end = op.at] /\ DOMAIN a = 1..n
    BY <1>1
  <2>4. b[n] = [a[n] EXCEPT !.bytes = counted] /\ DOMAIN b = 1..n
    BY <1>1, <2>3
  <2>5. c[n] = [b[n] EXCEPT !.packets = segmentPackets] /\ DOMAIN c = 1..n
    BY <1>1, <2>4
  <2>6. c[n] = last
    <3> HIDE DEF a, b, c
    <3> QED
      BY <1>1, <2>3, <2>4, <2>5 DEF SegmentInfo
  <2>7. \A k \in 1..n : c[k] = [segments EXCEPT ![n] = last][k]
    <3>1. ASSUME NEW k \in 1..n, k # n PROVE c[k] = segments[k]
      BY <1>1, <3>1
    <3> HIDE DEF a, b, c, last
    <3> QED
      BY <1>1, <2>6, <3>1
  <2>8. DOMAIN [segments EXCEPT ![n] = last] = 1..n
    BY <1>1
  <2>9. c = [k \in DOMAIN c |-> c[k]]
        /\ [segments EXCEPT ![n] = last]
             = [k \in DOMAIN segments |-> [segments EXCEPT ![n] = last][k]]
    OBVIOUS
  <2> HIDE DEF a, b, c, last
  <2> QED
    BY <1>1, <2>1, <2>5, <2>7, <2>9
<1> HIDE DEF last
<1>4. /\ [segments EXCEPT ![n] = last] \in Seq(SegmentInfo)
      /\ Len([segments EXCEPT ![n] = last]) = n
  BY <1>1, <1>2, ExceptSeq
<1>5. \A k \in 1..n : segments'[k] = IF k = n THEN last ELSE segments[k]
  BY <1>1, <1>3
<1>6. segments' # <<>>
  BY <1>1, <1>3, <1>4, EmptySeq
<1> QED
  BY <1>1, <1>3, <1>4, <1>5, <1>6 DEF last

LEMMA NewSegmentType ==
  ASSUME TypeOK, NEW i \in Indexes, NEW t \in Times
  PROVE  NewSegment(i, t) \in SegmentInfo
BY DEF NewSegment, SegmentInfo

LEMMA Concats ==
  /\ \A s, t \in Seq(Items) : s \o t \in Seq(Items)
  /\ \A n \in Packets : <<n>> \in Seq(Items)
  /\ <<Header>> \in Seq(Items) /\ <<>> \in Seq(Items)
BY ConcatProperties, Constants

LEMMA FlushedType ==
  ASSUME TypeOK, Flushed
  PROVE  buffer' \in Seq(Items) /\ part' \in Seq(Items) /\ parts' \in Seq(Items) /\ counted' \in Nat
<1>1. /\ buffer \in Seq(Items) /\ part \in Seq(Items) /\ parts \in Seq(Items) /\ counted \in Nat
      /\ Bytes(buffer) \in Nat
  BY BytesType DEF TypeOK
<1>2. part \o buffer \in Seq(Items) /\ parts \o part \o buffer \in Seq(Items)
  BY <1>1, Concats
<1>3. counted' \in Nat
  <2>1. counted' = counted + Bytes(buffer)
    BY DEF Flushed
  <2> QED
    BY <1>1, <2>1
<1>4. buffer' \in Seq(Items) /\ part' \in Seq(Items) /\ parts' \in Seq(Items)
  BY <1>1, <1>2, Concats, Zenon DEF Flushed
<1> QED
  BY <1>3, <1>4

LEMMA FlushFailedType ==
  ASSUME TypeOK, FlushFailed
  PROVE  buffer' \in Seq(Items) /\ part' \in Seq(Items) /\ parts' \in Seq(Items) /\ counted' \in Nat
<1>1. /\ buffer \in Seq(Items) /\ part \in Seq(Items) /\ parts \in Seq(Items) /\ counted \in Nat
      /\ Bytes(buffer) \in Nat
  BY BytesType DEF TypeOK
<1>2. counted' \in Nat
  <2>1. counted' = counted + Bytes(buffer) \/ counted' = counted
    BY DEF FlushFailed
  <2> QED
    BY <1>1, <2>1
<1>3. buffer' \in Seq(Items) /\ part' \in Seq(Items) /\ parts' \in Seq(Items)
  BY <1>1, Concats, Zenon DEF FlushFailed
<1> QED
  BY <1>2, <1>3

LEMMA AppendType ==
  ASSUME TypeOK, OperationInv, AppendPacket
  PROVE  TypeOK'
<1>1. /\ packetCount \in Nat /\ packetCount < MaxPackets /\ NextPacket \in Packets
      /\ buffer \in Seq(Items) /\ segmentPackets \in Nat /\ segmentBytes \in Nat
      /\ PayloadLength[NextPacket] \in Nat
  BY Constants DEF TypeOK, OperationInv, AppendPacket, NextPacket, Packets
<1>2. HeaderDue \in Seq(Items)
  BY Concats DEF HeaderDue
<1>3. buffer \o HeaderDue \o <<NextPacket>> \in Seq(Items)
  BY <1>1, <1>2, Concats
<1>4. /\ packetCount + 1 \in 0..MaxPackets /\ segmentPackets + 1 \in Nat
      /\ segmentBytes + PayloadLength[NextPacket] \in Nat
  BY <1>1, Constants
<1>5. buffer' \in Seq(Items) /\ packetCount' \in 0..MaxPackets /\ segmentPackets' \in Nat
      /\ segmentBytes' \in Nat /\ crashed' \in BOOLEAN
  BY <1>1, <1>3, <1>4 DEF AppendPacket, TypeOK
<1>6. op' \in Operations /\ pc' = "idle"
  BY Constants DEF AppendPacket, Return, NoOperation, Operations
<1> QED
  BY <1>5, <1>6 DEF AppendPacket, TypeOK, uploadVars, storeVars

LEMMA EndSegmentType ==
  ASSUME TypeOK, EndSegment
  PROVE  /\ closed' \in BOOLEAN /\ open' \in BOOLEAN
         /\ segments' \in Seq(SegmentInfo) /\ segments' # <<>>
         /\ segmentIndex' \in Indexes /\ segmentStart' \in Times
         /\ segmentBytes' \in Nat /\ segmentPackets' \in Nat /\ packetCount' \in 0..MaxPackets
         /\ op' \in Operations /\ pc' \in {"idle", "start"}
<1>1. segments' \in Seq(SegmentInfo) /\ segments' # <<>>
  BY EndedList
<1>2. op' \in Operations /\ pc' \in {"idle", "start"}
  BY Constants DEF TypeOK, EndSegment, Return, NoOperation, Operations
<1> QED
  BY <1>1, <1>2 DEF TypeOK, EndSegment

LEMMA StartType ==
  ASSUME TypeOK, StartSegment
  PROVE  TypeOK'
<1>1. NextSegment \in Indexes /\ op.at \in Times /\ op \in Operations
  BY Constants DEF TypeOK, StartSegment, NextSegment, Operations
<1>2. NewSegment(NextSegment, op.at) \in SegmentInfo
  BY <1>1, NewSegmentType
<1>3. /\ Append(segments, NewSegment(NextSegment, op.at)) \in Seq(SegmentInfo)
      /\ Append(segments, NewSegment(NextSegment, op.at)) # <<>>
  <2> DEFINE s == NewSegment(NextSegment, op.at)
  <2>1. s \in SegmentInfo /\ segments \in Seq(SegmentInfo)
    BY <1>2 DEF TypeOK
  <2> HIDE DEF s
  <2>2. Append(segments, s) \in Seq(SegmentInfo) /\ Len(Append(segments, s)) = Len(segments) + 1
        /\ Len(segments) \in Nat
    BY <2>1, AppendProperties, LenProperties
  <2>3. Append(segments, s) # <<>>
    BY <2>2, EmptySeq
  <2> QED
    BY <2>2, <2>3 DEF s
<1>4. NoOperation \in Operations
  BY Constants DEF NoOperation, Operations
<1>5. [uploads EXCEPT ![NextSegment] = "open"]
        \in [Indexes -> {"none", "open", "completed", "aborted"}]
  BY <1>1 DEF TypeOK
<1>6. /\ segments' \in Seq(SegmentInfo) /\ segments' # <<>> /\ open' \in BOOLEAN
      /\ segmentStart' \in Times /\ segmentBytes' \in Nat /\ segmentPackets' \in Nat
      /\ op' \in Operations /\ pc' \in {"idle", "append"}
  <2> DEFINE more == Append(segments, NewSegment(NextSegment, op.at))
  <2>1. more \in Seq(SegmentInfo) /\ more # <<>>
    BY <1>3
  <2>2. segments' = more \/ segments' = segments
    BY DEF StartSegment
  <2> HIDE DEF more
  <2>3. segments' \in Seq(SegmentInfo) /\ segments' # <<>>
    BY <2>1, <2>2 DEF TypeOK
  <2>4. \/ open' = TRUE /\ segmentStart' = op.at /\ segmentBytes' = 0 /\ segmentPackets' = 0
        \/ UNCHANGED <<open, segmentStart, segmentBytes, segmentPackets>>
    BY DEF StartSegment
  <2>5. (op' = op /\ pc' = "append") \/ (op' = NoOperation /\ pc' = "idle")
    BY DEF StartSegment, Return
  <2>6. /\ open \in BOOLEAN /\ segmentStart \in Times /\ segmentBytes \in Nat
        /\ segmentPackets \in Nat
    BY DEF TypeOK
  <2>7. open' \in BOOLEAN
    BY <2>4, <2>6, Zenon
  <2> QED
    BY <1>1, <1>4, <2>3, <2>4, <2>5, <2>6, <2>7
<1>7. /\ uploads' \in [Indexes -> {"none", "open", "completed", "aborted"}]
      /\ part' \in Seq(Items) /\ parts' \in Seq(Items) /\ s3Closed' \in BOOLEAN
      /\ counted' \in Nat /\ buffer' \in Seq(Items) /\ rtpClosed' \in BOOLEAN
  <2> DEFINE more == [uploads EXCEPT ![NextSegment] = "open"]
  <2>1. \/ /\ uploads' = more /\ part' = <<>> /\ parts' = <<>> /\ s3Closed' = FALSE
           /\ counted' = 0 /\ buffer' = <<>> /\ rtpClosed' = FALSE
        \/ UNCHANGED <<uploads, writerVars, uploadVars>>
    BY DEF StartSegment, NewS3StreamWriter, NewRtpWriter
  <2>2. more \in [Indexes -> {"none", "open", "completed", "aborted"}] /\ <<>> \in Seq(Items)
    BY <1>5
  <2> HIDE DEF more
  <2>3. CASE UNCHANGED <<uploads, writerVars, uploadVars>>
    BY <2>3 DEF TypeOK, uploadVars, writerVars
  <2>4. CASE /\ uploads' = more /\ part' = <<>> /\ parts' = <<>> /\ s3Closed' = FALSE
             /\ counted' = 0 /\ buffer' = <<>> /\ rtpClosed' = FALSE
    BY <2>2, <2>4
  <2> QED
    BY <2>1, <2>3, <2>4, Zenon
<1>8. segmentIndex' \in Indexes
  BY <1>1 DEF StartSegment
<1> QED
  BY <1>6, <1>7, <1>8 DEF TypeOK, StartSegment

LEMMA TypeStep ==
  ASSUME TypeOK, OperationInv, [Next]_vars
  PROVE  TypeOK'
<1>0. NoOperation \in Operations
  BY Constants DEF NoOperation, Operations
<1>1. CASE WritePacket
  BY <1>1 DEF TypeOK, WritePacket, Begin, Operations, trackVars, writerVars, uploadVars, storeVars
<1>2. ASSUME NEW t \in Times, RotateAt(t) PROVE TypeOK'
  BY <1>2 DEF TypeOK, RotateAt, Begin, Operations, trackVars, writerVars, uploadVars, storeVars
<1>3. ASSUME NEW t \in Times, CloseAt(t) PROVE TypeOK'
  BY <1>3 DEF TypeOK, CloseAt, Begin, Operations, writerVars, uploadVars, storeVars
<1>4. CASE AppendPacket
  BY <1>4, AppendType
<1>5. CASE CloseRtp
  <2>1. /\ buffer' \in Seq(Items) /\ part' \in Seq(Items) /\ parts' \in Seq(Items)
        /\ counted' \in Nat
    BY <1>5, FlushedType, FlushFailedType DEF TypeOK, CloseRtp
  <2>2. op' \in Operations /\ pc' \in {"closeS3", "idle"} /\ rtpClosed' \in BOOLEAN
    BY <1>0, <1>5 DEF TypeOK, CloseRtp, Return
  <2> QED
    BY <1>5, <2>1, <2>2 DEF TypeOK, CloseRtp, trackVars, storeVars
<1>6. CASE SkipClose
  BY <1>0, <1>6 DEF TypeOK, SkipClose, Return, trackVars, writerVars, uploadVars, storeVars
<1>7. CASE CompleteUpload
  <2>1. parts \o part \in Seq(Items)
    BY Concats DEF TypeOK
  <2>2. /\ objects' \in [Indexes -> Seq(Items)]
        /\ uploads' \in [Indexes -> {"none", "open", "completed", "aborted"}]
    BY <1>7, <2>1 DEF TypeOK, CompleteUpload
  <2>3. parts' \in Seq(Items) /\ part' \in Seq(Items) /\ s3Closed' \in BOOLEAN
    BY <1>7, <2>1, Concats DEF CompleteUpload
  <2>4. EndSegment
    BY <1>7 DEF CompleteUpload
  <2> QED
    BY <1>7, <2>2, <2>3, <2>4, EndSegmentType DEF TypeOK, CompleteUpload, writerVars
<1>8. CASE AbortEmptyUpload
  <2>1. uploads' \in [Indexes -> {"none", "open", "completed", "aborted"}]
        /\ s3Closed' \in BOOLEAN
    BY <1>8 DEF TypeOK, AbortEmptyUpload
  <2>2. EndSegment
    BY <1>8 DEF AbortEmptyUpload
  <2> QED
    BY <1>8, <2>1, <2>2, EndSegmentType DEF TypeOK, AbortEmptyUpload, writerVars
<1>9. CASE UploadFails
  <2>1. parts \o part \in Seq(Items)
    BY Concats DEF TypeOK
  <2>2. /\ objects' \in [Indexes -> Seq(Items)]
        /\ uploads' \in [Indexes -> {"none", "open", "completed", "aborted"}]
    BY <1>9, <2>1 DEF TypeOK, UploadFails
  <2>3. parts' \in Seq(Items) /\ part' \in Seq(Items) /\ s3Closed' \in BOOLEAN
    BY <1>9, <2>1, Concats DEF TypeOK, UploadFails
  <2>4. op' \in Operations /\ pc' = "idle" /\ UNCHANGED trackVars
    BY <1>0, <1>9 DEF UploadFails, CloseFailed, Return
  <2> QED
    BY <1>9, <2>2, <2>3, <2>4 DEF TypeOK, UploadFails, writerVars, trackVars
<1>10. CASE CloseAgain
  <2>1. EndSegment
    BY <1>10 DEF CloseAgain
  <2> QED
    BY <1>10, <2>1, EndSegmentType
       DEF TypeOK, CloseAgain, writerVars, uploadVars, storeVars
<1>11. CASE StartSegment
  BY <1>11, StartType
<1>12. CASE FlushTick
  <2>1. /\ buffer' \in Seq(Items) /\ part' \in Seq(Items) /\ parts' \in Seq(Items)
        /\ counted' \in Nat
    BY <1>12, FlushedType, FlushFailedType DEF FlushTick
  <2> QED
    BY <1>12, <2>1 DEF TypeOK, FlushTick, trackVars, storeVars, callVars
<1>13. CASE Tick
  BY <1>13, Constants DEF TypeOK, Tick, trackVars, writerVars, uploadVars, storeVars, callVars
<1>14. CASE UNCHANGED vars
  BY <1>14 DEF TypeOK, vars, trackVars, writerVars, uploadVars, storeVars, callVars
<1> QED
  BY <1>1, <1>2, <1>3, <1>4, <1>5, <1>6, <1>7, <1>8, <1>9, <1>10, <1>11, <1>12, <1>13, <1>14
     DEF Next, Step

-----------------------------------------------------------------------------
(* The operation under way                                                  *)

LEMMA Idle ==
  ASSUME op' = NoOperation, pc' = "idle", segmentStart' \in Nat, now' \in Nat,
         segmentStart' <= now'
  PROVE  OperationInv'
BY DEF OperationInv, NoOperation

LEMMA OperationStep ==
  ASSUME TypeOK, OperationInv, [Next]_vars
  PROVE  OperationInv'
<1>0. /\ segmentStart \in Nat /\ now \in Nat /\ segmentStart <= now /\ op.at \in Nat
      /\ \A t \in Times : t \in Nat
      /\ packetCount \in Nat /\ MaxPackets \in Nat
  BY Constants DEF TypeOK, OperationInv, Operations
<1>1. CASE WritePacket
  BY <1>0, <1>1 DEF OperationInv, WritePacket, CanCall, Begin, trackVars, writerVars
<1>2. ASSUME NEW t \in Times, RotateAt(t) PROVE OperationInv'
  BY <1>0, <1>2 DEF OperationInv, RotateAt, CanCall, Begin, trackVars, writerVars
<1>3. ASSUME NEW t \in Times, CloseAt(t) PROVE OperationInv'
  BY <1>0, <1>3 DEF OperationInv, CloseAt, CanCall, Begin, trackVars, writerVars
<1>4. CASE AppendPacket
  BY <1>0, <1>4, Idle DEF AppendPacket, Return
<1>5. CASE CloseRtp
  <2>1. CASE Return
    BY <1>0, <1>5, <2>1, Idle DEF CloseRtp, Return, trackVars
  <2>2. CASE pc' = "closeS3" /\ UNCHANGED op
    BY <1>0, <1>5, <2>2 DEF OperationInv, CloseRtp, trackVars
  <2> QED
    BY <1>5, <2>1, <2>2 DEF CloseRtp
<1>6. ASSUME EndSegment, UNCHANGED now, pc = "closeS3" PROVE OperationInv'
  <2>1. CASE op.kind = "close"
    BY <1>0, <1>6, <2>1, Idle DEF EndSegment, Return
  <2>2. CASE op.kind # "close"
    BY <1>0, <1>6, <2>2 DEF OperationInv, EndSegment
  <2> QED
    BY <2>1, <2>2
<1>7. CASE SkipClose
  <2>1. CASE op.kind = "close"
    BY <1>0, <1>7, <2>1, Idle DEF SkipClose, Return, trackVars
  <2>2. CASE op.kind # "close"
    BY <1>0, <1>7, <2>2 DEF OperationInv, SkipClose, trackVars
  <2> QED
    BY <2>1, <2>2
<1>8. CASE CompleteUpload
  BY <1>6, <1>8 DEF CompleteUpload
<1>9. CASE AbortEmptyUpload
  BY <1>6, <1>9 DEF AbortEmptyUpload
<1>10. CASE CloseAgain
  BY <1>6, <1>10 DEF CloseAgain
<1>11. CASE UploadFails
  BY <1>0, <1>11, Idle DEF UploadFails, CloseFailed, Return, trackVars
<1>12. CASE StartSegment
  <2>1. /\ pc = "start" /\ op.kind # "close" /\ ~closed /\ op.kind # "none"
        /\ segmentStart <= op.at /\ op.at <= now
        /\ op.kind = "write" => packetCount < MaxPackets
    BY <1>12 DEF OperationInv, StartSegment
  <2>2. \/ /\ segmentStart' = op.at /\ open' = TRUE
           /\ IF op.kind = "write" THEN pc' = "append" /\ UNCHANGED op ELSE Return
        \/ Return /\ UNCHANGED segmentStart
    BY <1>12 DEF StartSegment
  <2>3. UNCHANGED <<closed, packetCount, now>>
    BY <1>12 DEF StartSegment
  <2>4. CASE Return
    BY <1>0, <2>1, <2>2, <2>3, <2>4, Idle DEF Return
  <2>5. CASE segmentStart' = op.at /\ op.kind = "write" /\ pc' = "append" /\ UNCHANGED op
    BY <1>0, <2>1, <2>3, <2>5 DEF OperationInv
  <2> QED
    BY <2>2, <2>4, <2>5
<1>13. CASE FlushTick
  BY <1>0, <1>13 DEF OperationInv, FlushTick, trackVars, callVars
<1>14. CASE Tick
  BY <1>0, <1>14 DEF OperationInv, Tick, trackVars, writerVars, callVars
<1>15. CASE UNCHANGED vars
  BY <1>0, <1>15 DEF OperationInv, vars, trackVars, writerVars, callVars
<1> QED
  BY <1>1, <1>2, <1>3, <1>4, <1>5, <1>7, <1>8, <1>9, <1>10, <1>11, <1>12, <1>13, <1>14, <1>15
     DEF Next, Step

-----------------------------------------------------------------------------
(* The list of the segments                                                 *)

LEMMA ListFacts ==
  ASSUME TypeOK
  PROVE  /\ segments \in Seq(SegmentInfo)
         /\ Newest \in Nat /\ Newest # 0 /\ Newest \in 1..Newest
         /\ \A k \in 1..Newest : /\ segments[k] \in SegmentInfo
                                 /\ segments[k].index \in Indexes /\ segments[k].index \in Nat
                                 /\ segments[k].start \in Nat /\ segments[k].packets \in Nat
                                 /\ segments[k].bytes \in Nat
                                 /\ segments[k].end \in Int
         /\ segmentIndex \in Nat /\ packetCount \in Nat /\ segmentPackets \in Nat
<1>1. /\ segments \in Seq(SegmentInfo) /\ Newest \in Nat /\ Newest # 0 /\ Newest \in 1..Newest
      /\ \A k \in 1..Newest : segments[k] \in SegmentInfo
  BY LenProperties, EmptySeq, ElementOfSeq DEF TypeOK, Newest
<1>2. ASSUME NEW k \in 1..Newest
      PROVE  /\ segments[k].index \in Indexes /\ segments[k].index \in Nat
             /\ segments[k].start \in Nat /\ segments[k].packets \in Nat
             /\ segments[k].bytes \in Nat
             /\ segments[k].end \in Int
  <2>1. segments[k] \in SegmentInfo
    BY <1>1
  <2> QED
    BY <2>1, Constants DEF SegmentInfo, NoTime
<1>3. segmentIndex \in Nat /\ packetCount \in Nat /\ segmentPackets \in Nat
  BY Constants DEF TypeOK
<1> QED
  BY <1>1, <1>2, <1>3

LEMMA SegmentsSame ==
  ASSUME SegmentsInv,
         UNCHANGED <<segments, segmentIndex, open, segmentStart, segmentPackets, packetCount>>
  PROVE  SegmentsInv'
BY DEF SegmentsInv, Newest, Ended

LEMMA SegmentsAppend ==
  ASSUME TypeOK, SegmentsInv, AppendPacket
  PROVE  SegmentsInv'
<1>1. CASE open /\ packetCount' = packetCount + 1 /\ segmentPackets' = segmentPackets + 1
  <2>1. /\ segmentPackets \in Int /\ segmentPackets + 1 \in Int /\ packetCount \in Int
        /\ segments \in Seq(SegmentInfo) /\ segments # <<>>
    BY ListFacts DEF TypeOK
  <2> DEFINE n == Len(segments)
             p == segmentPackets
             q == segmentPackets + 1
  <2>2. p \in Int /\ q \in Int /\ q = p + 1 /\ segments[n].packets \in Int
    BY <2>1, ListFacts DEF Newest
  <2> DEFINE same == segments
  <2>3. /\ same \in Seq(SegmentInfo) /\ Len(same) = Len(segments)
        /\ segments \in Seq(SegmentInfo) /\ segments # <<>> /\ p \in Int /\ q \in Int
        /\ \A k \in 1..(Len(segments) - 1) : same[k].packets = segments[k].packets
    BY <2>1
  <2>4. same = segments
    OBVIOUS
  <2> HIDE DEF p, q, same, n
  <2>5. /\ TotalPackets(same, q) - q - same[Len(segments)].packets
             = TotalPackets(segments, p) - p - segments[Len(segments)].packets
        /\ TotalPackets(segments, p) \in Int /\ TotalPackets(same, q) \in Int
    BY ONLY <2>3, TotalUpdated
  <2>6. TotalPackets(segments, q) - q - segments[n].packets
             = TotalPackets(segments, p) - p - segments[n].packets
    BY <2>4, <2>5 DEF n
  <2>7. TotalPackets(segments, p) \in Int /\ TotalPackets(segments, q) \in Int
    BY <2>4, <2>5
  <2>8. TotalPackets(segments, q) = TotalPackets(segments, p) + 1
    BY <2>2, <2>6, <2>7
  <2>9. TotalPackets(segments, p) = packetCount
    BY <1>1 DEF SegmentsInv, p
  <2>10. TotalPackets(segments, segmentPackets') = packetCount'
    BY <1>1, <2>8, <2>9 DEF q
  <2>11. UNCHANGED <<segments, segmentIndex, open, segmentStart>>
    BY DEF AppendPacket
  <2> QED
    BY <1>1, <2>10, <2>11 DEF SegmentsInv, Newest, Ended
<1>2. CASE UNCHANGED <<packetCount, segmentPackets>>
  BY <1>2, SegmentsSame DEF AppendPacket
<1> QED
  BY <1>1, <1>2 DEF AppendPacket

LEMMA SegmentsEnd ==
  ASSUME TypeOK, SegmentsInv, EndSegment, open
  PROVE  SegmentsInv'
<1>1. /\ segments' \in Seq(SegmentInfo) /\ Len(segments') = Len(segments)
      /\ segments' # <<>>
      /\ \A k \in 1..Newest : k # Newest => segments'[k] = segments[k]
      /\ segments'[Newest].index = segmentIndex
      /\ segments'[Newest].end = op.at /\ segments'[Newest].packets = segmentPackets
  BY EndedList DEF Newest, SegmentsInv
<1>2. op.at # NoTime /\ ~open' /\ UNCHANGED <<segmentIndex, packetCount>>
  BY Constants DEF EndSegment, TypeOK, Operations
<1>3. Newest' = Newest
  BY <1>1 DEF Newest
<1>4. \A k \in 1..Newest : segments'[k].index = segments[k].index
  BY <1>1 DEF SegmentsInv
<1>5. \A k \in 1..Newest : Ended(k)'
  BY <1>1, <1>2 DEF SegmentsInv, Ended
<1>6. TotalPackets(segments', 0) = packetCount
  <2> DEFINE n == Len(segments)
             more == segments'
             p == segmentPackets
  <2>1. /\ segments \in Seq(SegmentInfo) /\ segments # <<>> /\ p \in Int /\ 0 \in Int
        /\ more \in Seq(SegmentInfo) /\ Len(more) = Len(segments)
        /\ n \in Nat /\ packetCount \in Int
    BY <1>1, ListFacts DEF TypeOK, Newest
  <2>2. \A k \in 1..(n - 1) : more[k].packets = segments[k].packets
    BY <1>1, <2>1 DEF Newest
  <2>3. more[n].packets = p /\ segments[n].packets = 0
    BY <1>1 DEF SegmentsInv, Newest
  <2> HIDE DEF more, p
  <2>4. /\ TotalPackets(more, 0) - 0 - more[n].packets
             = TotalPackets(segments, p) - p - segments[n].packets
        /\ TotalPackets(segments, p) \in Int /\ TotalPackets(more, 0) \in Int
    BY <2>1, <2>2, TotalUpdated
  <2>5. TotalPackets(segments, p) = packetCount
    BY DEF SegmentsInv, p
  <2> HIDE DEF n
  <2>6. TotalPackets(more, 0) = packetCount
    BY <2>1, <2>3, <2>4, <2>5
  <2> QED
    BY <2>6 DEF more
<1> QED
  BY <1>2, <1>3, <1>4, <1>5, <1>6 DEF SegmentsInv

LEMMA SegmentsStart ==
  ASSUME TypeOK, OperationInv, SegmentsInv, StartSegment
  PROVE  SegmentsInv'
<1> DEFINE s == NewSegment(NextSegment, op.at)
           n == Len(segments)
           more == Append(segments, s)
<1>0. /\ NextSegment \in Indexes /\ op.at \in Times /\ ~open
      /\ segmentIndex' = segmentIndex + 1 /\ NextSegment = segmentIndex + 1
      /\ UNCHANGED packetCount /\ segmentIndex \in Nat
  BY Constants DEF TypeOK, OperationInv, StartSegment, NextSegment, Operations
<1>1. \A k \in 1..Newest : Ended(k) /\ segments[k].index <= segmentIndex
  BY <1>0 DEF SegmentsInv
<1>2. CASE open' /\ segments' = more /\ segmentPackets' = 0 /\ segmentStart' = op.at
  <2>1. /\ s \in SegmentInfo /\ s.index = segmentIndex' /\ s.start = op.at
        /\ s.end = NoTime /\ s.packets = 0
    BY <1>0, NewSegmentType DEF NewSegment
  <2> HIDE DEF s
  <2>2. /\ more \in Seq(SegmentInfo) /\ Len(more) = n + 1 /\ n \in Nat
        /\ more[n + 1] = s /\ \A k \in 1..n : more[k] = segments[k]
    BY <2>1, AppendProperties, LenProperties DEF TypeOK
  <2>3. TotalPackets(more, 0) = packetCount
    <3> HIDE DEF more
    <3>1. /\ segments \in Seq(SegmentInfo) /\ 0 \in Int /\ packetCount \in Int
          /\ Len(more) = Len(segments) + 1
          /\ \A k \in 1..Len(segments) : more[k].packets = segments[k].packets
      BY <2>2, ListFacts
    <3>2. /\ TotalPackets(more, 0) - 0
               = TotalPackets(segments, 0) - 0 + more[Len(segments) + 1].packets
          /\ TotalPackets(segments, 0) \in Int /\ TotalPackets(more, 0) \in Int
      BY <2>2, <3>1, TotalExtended
    <3>3. TotalPackets(segments, 0) = packetCount
      BY <1>0 DEF SegmentsInv
    <3> QED
      BY <2>1, <2>2, <3>2, <3>3
  <2> HIDE DEF more
  <2>4. Newest' = n + 1 /\ Newest = n
    BY <1>2, <2>2 DEF Newest
  <2> HIDE DEF n
  <2>5. \A k \in 1..n + 1 : k = n + 1 \/ k \in 1..n
    BY <2>2
  <2>6. \A k \in 1..n : /\ segments'[k] = segments[k]
                        /\ segments[k].index < segmentIndex' /\ Ended(k)'
                        /\ segments[k].index \in Nat
    <3> SUFFICES ASSUME NEW k \in 1..n
                 PROVE  /\ segments'[k] = segments[k]
                        /\ segments[k].index < segmentIndex' /\ Ended(k)'
                        /\ segments[k].index \in Nat
      OBVIOUS
    <3>1. segments'[k] = segments[k]
      BY <1>2, <2>2
    <3>2. segments[k].index \in Nat /\ segments[k].index <= segmentIndex /\ Ended(k)
      BY <1>1, <2>4, ListFacts
    <3> QED
      BY <1>0, <3>1, <3>2 DEF Ended
  <2>7. /\ segments'[n + 1].index = segmentIndex' /\ segments'[n + 1].start = segmentStart'
        /\ segments'[n + 1].packets = 0 /\ segments'[n + 1].end = NoTime
    BY <1>2, <2>1, <2>2
  <2>8. \A k \in 1..n + 1 : /\ Ended(k)' \/ k = n + 1
                            /\ segments'[k].index <= segmentIndex'
    BY <1>0, <2>5, <2>6, <2>7
  <2>9. ASSUME NEW j \in 1..n + 1, NEW k \in 1..n + 1, j < k
        PROVE  segments'[j].index < segments'[k].index
    <3>1. j \in 1..n
      BY <2>2, <2>9
    <3>2. CASE k \in 1..n
      BY <2>4, <2>6, <2>9, <3>1, <3>2 DEF SegmentsInv
    <3>3. CASE k = n + 1
      BY <2>6, <2>7, <3>1, <3>3
    <3> QED
      BY <2>5, <3>2, <3>3
  <2> QED
    BY <1>0, <1>2, <2>3, <2>4, <2>7, <2>8, <2>9 DEF SegmentsInv, Ended
<1>3. CASE UNCHANGED <<open, segmentStart, segmentPackets, segments>>
  <2>1. Newest' = Newest /\ \A k \in 1..Newest : Ended(k)' /\ segments'[k] = segments[k]
    BY <1>1, <1>3 DEF Newest, Ended
  <2>2. \A k \in 1..Newest : segments[k].index <= segmentIndex'
    BY <1>0, <1>1, ListFacts
  <2> QED
    BY <1>0, <1>3, <2>1, <2>2 DEF SegmentsInv
<1> QED
  BY <1>2, <1>3 DEF StartSegment

LEMMA SegmentsStep ==
  ASSUME TypeOK, OperationInv, SegmentsInv, [Next]_vars
  PROVE  SegmentsInv'
<1>1. CASE WritePacket
  BY <1>1, SegmentsSame DEF WritePacket, trackVars
<1>2. ASSUME NEW t \in Times, RotateAt(t) PROVE SegmentsInv'
  BY <1>2, SegmentsSame DEF RotateAt, trackVars
<1>3. ASSUME NEW t \in Times, CloseAt(t) PROVE SegmentsInv'
  BY <1>3, SegmentsSame DEF CloseAt
<1>4. CASE AppendPacket
  BY <1>4, SegmentsAppend
<1>5. CASE CloseRtp
  BY <1>5, SegmentsSame DEF CloseRtp, trackVars
<1>6. CASE SkipClose
  BY <1>6, SegmentsSame DEF SkipClose, trackVars
<1>7. CASE CompleteUpload
  BY <1>7, SegmentsEnd DEF CompleteUpload, OperationInv
<1>8. CASE AbortEmptyUpload
  BY <1>8, SegmentsEnd DEF AbortEmptyUpload, OperationInv
<1>9. CASE CloseAgain
  BY <1>9, SegmentsEnd DEF CloseAgain, OperationInv
<1>10. CASE UploadFails
  BY <1>10, SegmentsSame DEF UploadFails, CloseFailed, trackVars
<1>11. CASE StartSegment
  BY <1>11, SegmentsStart
<1>12. CASE FlushTick
  BY <1>12, SegmentsSame DEF FlushTick, trackVars
<1>13. CASE Tick
  BY <1>13, SegmentsSame DEF Tick, trackVars
<1>14. CASE UNCHANGED vars
  BY <1>14, SegmentsSame DEF vars, trackVars
<1> QED
  BY <1>1, <1>2, <1>3, <1>4, <1>5, <1>6, <1>7, <1>8, <1>9, <1>10, <1>11, <1>12, <1>13, <1>14
     DEF Next, Step

-----------------------------------------------------------------------------
(* The objects of the store                                                 *)

LEMMA StoreSame ==
  ASSUME StoreInv, UNCHANGED <<open, s3Closed, objects, segmentIndex>>
  PROVE  StoreInv'
BY DEF StoreInv

LEMMA StoreEnd ==
  ASSUME TypeOK, StoreInv, s3Closed', UNCHANGED segmentIndex,
         NEW x, objects' = objects \/ objects' = [objects EXCEPT ![segmentIndex] = x]
  PROVE  StoreInv'
<1>1. segmentIndex \in Nat /\ objects \in [Indexes -> Seq(Items)]
  BY ListFacts DEF TypeOK
<1>2. \A i \in Indexes : i > segmentIndex => objects'[i] = NoObject
  BY <1>1, Constants DEF StoreInv
<1> QED
  BY <1>2 DEF StoreInv

LEMMA StoreStart ==
  ASSUME TypeOK, OperationInv, StoreInv, StartSegment
  PROVE  StoreInv'
<1>1. /\ segmentIndex \in Nat /\ NextSegment \in Indexes /\ segmentIndex' = segmentIndex + 1
      /\ NextSegment = segmentIndex + 1 /\ UNCHANGED objects /\ s3Closed
      /\ \A i \in Indexes : i \in Nat
  BY Constants DEF TypeOK, OperationInv, StoreInv, StartSegment, NextSegment
<1>2. \A i \in Indexes : i > segmentIndex => objects[i] = NoObject
  BY DEF StoreInv
<1>3. \A i \in Indexes : i > segmentIndex' => objects'[i] = NoObject
  BY <1>1, <1>2
<1>4. objects'[segmentIndex'] = NoObject
  BY <1>1, <1>2
<1>5. open' \/ s3Closed'
  BY <1>1 DEF StartSegment, uploadVars
<1> QED
  BY <1>3, <1>4, <1>5 DEF StoreInv

LEMMA StoreStep ==
  ASSUME TypeOK, OperationInv, StoreInv, [Next]_vars
  PROVE  StoreInv'
<1>1. CASE WritePacket
  BY <1>1, StoreSame DEF WritePacket, Begin, trackVars, uploadVars, storeVars
<1>2. ASSUME NEW t \in Times, RotateAt(t) PROVE StoreInv'
  BY <1>2, StoreSame DEF RotateAt, Begin, trackVars, uploadVars, storeVars
<1>3. ASSUME NEW t \in Times, CloseAt(t) PROVE StoreInv'
  BY <1>3, StoreSame DEF CloseAt, Begin, uploadVars, storeVars
<1>4. CASE AppendPacket
  BY <1>4, StoreSame DEF AppendPacket, uploadVars, storeVars
<1>5. CASE CloseRtp
  BY <1>5, StoreSame DEF CloseRtp, trackVars, storeVars
<1>6. CASE SkipClose
  BY <1>6, StoreSame DEF SkipClose, trackVars, uploadVars, storeVars
<1>7. CASE CompleteUpload
  BY <1>7, StoreEnd DEF CompleteUpload, EndSegment
<1>8. CASE AbortEmptyUpload
  BY <1>8, StoreEnd DEF AbortEmptyUpload, EndSegment
<1>9. CASE UploadFails
  <2>1. /\ s3Closed' /\ UNCHANGED segmentIndex
        /\ objects' = objects \/ objects' = [objects EXCEPT ![segmentIndex] = parts \o part]
    BY <1>9 DEF UploadFails, CloseFailed, trackVars
  <2> QED
    BY <2>1, StoreEnd
<1>10. CASE CloseAgain
  BY <1>10, StoreEnd DEF CloseAgain, EndSegment, uploadVars, storeVars
<1>11. CASE StartSegment
  BY <1>11, StoreStart
<1>12. CASE FlushTick
  BY <1>12, StoreSame DEF FlushTick, trackVars, storeVars
<1>13. CASE Tick
  BY <1>13, StoreSame DEF Tick, trackVars, uploadVars, storeVars
<1>14. CASE UNCHANGED vars
  BY <1>14, StoreSame DEF vars, trackVars, uploadVars, storeVars
<1> QED
  BY <1>1, <1>2, <1>3, <1>4, <1>5, <1>6, <1>7, <1>8, <1>9, <1>10, <1>11, <1>12, <1>13, <1>14
     DEF Next, Step

-----------------------------------------------------------------------------
(* A reliable store                                                         *)

LEMMA ReliableCallsStep ==
  ASSUME TypeOK, OperationInv, StoreInv, ReliableCalls, ~faults, [Next]_vars
  PROVE  ReliableCalls'
<1>0. open \in BOOLEAN /\ s3Closed \in BOOLEAN /\ closed \in BOOLEAN
  BY DEF TypeOK
<1>1. CASE WritePacket
  BY <1>0, <1>1
     DEF ReliableCalls, WritePacket, CanCall, Begin, trackVars, writerVars, uploadVars
<1>2. ASSUME NEW t \in Times, RotateAt(t) PROVE ReliableCalls'
  BY <1>0, <1>2
     DEF ReliableCalls, RotateAt, CanCall, Begin, trackVars, writerVars, uploadVars
<1>3. ASSUME NEW t \in Times, CloseAt(t) PROVE ReliableCalls'
  BY <1>0, <1>3 DEF ReliableCalls, CloseAt, CanCall, Begin, writerVars, uploadVars
<1>4. CASE AppendPacket
  <2>1. pc = "append" /\ open /\ ~closed
    BY <1>0, <1>4 DEF ReliableCalls, OperationInv, AppendPacket
  <2>2. pc' = "idle" /\ crashed' = crashed
        /\ UNCHANGED <<open, closed, s3Closed, rtpClosed>>
    BY <1>4, <2>1 DEF AppendPacket, Return, uploadVars
  <2> QED
    BY <1>0, <2>1, <2>2 DEF ReliableCalls
<1>5. CASE CloseRtp
  <2>1. open /\ ~s3Closed /\ ~rtpClosed /\ pc = "closeRtp"
    BY <1>0, <1>5 DEF ReliableCalls, CloseRtp
  <2>2. pc' = "closeS3" /\ buffer' = <<>>
    BY <1>5, <2>1 DEF CloseRtp, Flushed, FlushFailed
  <2> QED
    BY <1>0, <1>5, <2>1, <2>2 DEF ReliableCalls, CloseRtp, trackVars
<1>6. CASE SkipClose
  BY <1>6 DEF ReliableCalls, SkipClose
<1>7. ASSUME EndSegment, s3Closed' = TRUE, pc = "closeS3", UNCHANGED crashed
      PROVE  ReliableCalls'
  <2>1. open' = FALSE /\ UNCHANGED closed /\ ~crashed'
    BY <1>7 DEF ReliableCalls, EndSegment
  <2>2. CASE op.kind = "close"
    <3>1. pc' = "idle" /\ closed' = TRUE
      BY <1>0, <1>7, <2>2 DEF EndSegment, Return, OperationInv
    <3> QED
      BY <1>7, <2>1, <3>1 DEF ReliableCalls
  <2>3. CASE op.kind # "close"
    <3>1. pc' = "start"
      BY <1>7, <2>3 DEF EndSegment
    <3> QED
      BY <1>7, <2>1, <3>1 DEF ReliableCalls
  <2> QED
    BY <2>2, <2>3
<1>8. CASE CompleteUpload
  BY <1>7, <1>8 DEF CompleteUpload
<1>9. CASE AbortEmptyUpload
  BY <1>7, <1>9 DEF AbortEmptyUpload
<1>10. CASE UploadFails
  BY <1>10 DEF UploadFails
<1>11. CASE CloseAgain
  BY <1>0, <1>11 DEF CloseAgain, ReliableCalls, OperationInv
<1>12. CASE StartSegment
  <2>1. ~closed /\ pc = "start"
    BY <1>12 DEF StartSegment, OperationInv
  <2>2. open' = TRUE /\ s3Closed' = FALSE /\ rtpClosed' = FALSE
        /\ pc' \in {"append", "idle"} /\ UNCHANGED <<closed, crashed>>
    BY <1>12 DEF StartSegment, NewS3StreamWriter, NewRtpWriter, Return
  <2> QED
    BY <2>1, <2>2 DEF ReliableCalls
<1>13. CASE FlushTick
  <2>1. pc # "closeS3" /\ open /\ ~s3Closed
    BY <1>0, <1>13 DEF ReliableCalls, FlushTick
  <2> QED
    BY <1>0, <1>13, <2>1 DEF ReliableCalls, FlushTick, trackVars, callVars
<1>14. CASE Tick
  BY <1>14 DEF ReliableCalls, Tick, trackVars, writerVars, uploadVars, callVars
<1>15. CASE UNCHANGED vars
  BY <1>15 DEF ReliableCalls, vars, trackVars, writerVars, uploadVars, callVars
<1> QED
  BY <1>1, <1>2, <1>3, <1>4, <1>5, <1>6, <1>8, <1>9, <1>10, <1>11, <1>12, <1>13, <1>14, <1>15
     DEF Next, Step

-----------------------------------------------------------------------------
(* What a reliable store holds                                              *)

LEMMA ContentTypes ==
  ASSUME TypeOK
  PROVE  /\ buffer \in Seq(Items) /\ part \in Seq(Items) /\ parts \in Seq(Items)
         /\ parts \o part \in Seq(Items) /\ parts \o part \o buffer \in Seq(Items)
         /\ Pending \in Seq(Items)
         /\ objects \in Seq(Seq(Items)) /\ Len(objects) = MaxSegments
         /\ Stored \in Seq(Items)
<1>1. /\ buffer \in Seq(Items) /\ part \in Seq(Items) /\ parts \in Seq(Items)
  BY DEF TypeOK
<1>2. parts \o part \in Seq(Items) /\ parts \o part \o buffer \in Seq(Items)
  BY <1>1, Concats
<1>3. Pending \in Seq(Items)
  BY <1>2, Concats, Zenon DEF Pending
<1>4. objects \in Seq(Seq(Items)) /\ Len(objects) = MaxSegments
  BY Constants DEF TypeOK
<1>5. Stored \in Seq(Items)
  BY <1>4, FlattenType DEF Stored
<1> QED
  BY <1>1, <1>2, <1>3, <1>4, <1>5

(* The segments already ended, and what they left in the store.             *)
EndedContent(k) ==
  LET i == segments[k].index IN
  /\ segments[k].packets = Len(PacketsOf(objects[i]))
  /\ segments[k].bytes = Bytes(objects[i])
  /\ uploads[i] = IF segments[k].packets > 0 THEN "completed" ELSE "aborted"

LEMMA EndedSame ==
  ASSUME ReliableContent, UNCHANGED <<segments, objects, uploads>>
  PROVE  \A k \in 1..Newest' : Ended(k)' => EndedContent(k)'
BY DEF ReliableContent, EndedContent, Newest, Ended

LEMMA ContentIs ==
  ReliableContent <=>
    /\ PacketsOf(Stored \o Pending) = [n \in 1..packetCount |-> n]
    /\ open => /\ Len(PacketsOf(Pending)) = segmentPackets
               /\ Pending # <<>> => segmentPackets > 0
               /\ counted = Bytes(parts \o part)
    /\ \A k \in 1..Newest : Ended(k) => EndedContent(k)
BY DEF ReliableContent, EndedContent

LEMMA ContentSame ==
  ASSUME ReliableContent,
         UNCHANGED <<segments, segmentPackets, packetCount, open, uploadVars, buffer, objects,
                     uploads>>
  PROVE  ReliableContent'
BY DEF ReliableContent, Stored, Pending, Newest, Ended, uploadVars

LEMMA AcceptedNext ==
  ASSUME NEW n \in Nat
  PROVE  Append([i \in 1..n |-> i], n + 1) = [i \in 1..(n + 1) |-> i]
<1> DEFINE s == [i \in 1..n |-> i]
           t == [i \in 1..(n + 1) |-> i]
<1>1. s \in Seq(Nat) /\ Len(s) = n
  OBVIOUS
<1>2. t \in Seq(Nat) /\ Len(t) = n + 1
  OBVIOUS
<1>3. /\ Append(s, n + 1) \in Seq(Nat) /\ Len(Append(s, n + 1)) = n + 1
      /\ \A i \in 1..(n + 1) : Append(s, n + 1)[i] = IF i <= n THEN s[i] ELSE n + 1
  BY <1>1, AppendProperties
<1>4. \A i \in 1..(n + 1) : Append(s, n + 1)[i] = t[i]
  BY <1>3
<1> HIDE DEF s, t
<1>5. Append(s, n + 1) = t
  BY <1>2, <1>3, <1>4, SeqEqual
<1> QED
  BY <1>5 DEF s, t

LEMMA PendingAppend ==
  ASSUME TypeOK, OperationInv, AppendPacket, open, ~s3Closed, ~rtpClosed
  PROVE  /\ packetCount' = packetCount + 1 /\ segmentPackets' = segmentPackets + 1
         /\ NextPacket = packetCount + 1 /\ NextPacket \in Packets
         /\ UNCHANGED <<open, s3Closed, parts, part, counted, segments, objects, uploads>>
         /\ PacketsOf(Pending') = Append(PacketsOf(Pending), NextPacket)
         /\ PacketsOf(Stored' \o Pending') = Append(PacketsOf(Stored \o Pending), NextPacket)
<1> DEFINE more == HeaderDue \o <<NextPacket>>
<1>1. /\ open /\ ~s3Closed /\ ~rtpClosed /\ UNCHANGED <<open, s3Closed, part, parts, counted>>
      /\ NextPacket = packetCount + 1 /\ packetCount \in Nat /\ segmentPackets \in Nat
      /\ NextPacket \in Packets /\ pc = "append"
  BY Constants DEF TypeOK, OperationInv, AppendPacket, NextPacket, Packets, uploadVars
<1>2. /\ buffer' = buffer \o HeaderDue \o <<NextPacket>>
      /\ packetCount' = packetCount + 1 /\ segmentPackets' = segmentPackets + 1
      /\ UNCHANGED <<segments, objects, uploads>>
  BY <1>1 DEF AppendPacket, storeVars
<1>3. /\ <<NextPacket>> \in Seq(Items) /\ HeaderDue \in Seq(Items) /\ more \in Seq(Items)
      /\ <<NextPacket>> = Append(<<>>, NextPacket) /\ NextPacket \in Items /\ NextPacket # Header
  BY <1>1, Concats, Constants DEF HeaderDue
<1>4. PacketsOf(<<NextPacket>>) = <<NextPacket>>
  <2>1. PacketsOf(Append(<<>>, NextPacket)) = Selected(<<>>, NextPacket)
    BY <1>3, Concats, PacketsAppend, PacketsEmpty
  <2> QED
    BY <1>3, <2>1 DEF Selected
<1>5. PacketsOf(HeaderDue) = <<>>
  <2>1. PacketsOf(<<Header>>) = <<>>
    <3>1. <<Header>> = Append(<<>>, Header) /\ Header \in Items
      BY Constants
    <3>2. PacketsOf(Append(<<>>, Header)) = Selected(<<>>, Header)
      BY <3>1, Concats, PacketsAppend, PacketsEmpty
    <3> QED
      BY <3>1, <3>2 DEF Selected
  <2> QED
    BY <2>1, PacketsEmpty DEF HeaderDue
<1>6. PacketsOf(more) = <<NextPacket>>
  <2>1. PacketsOf(more) = <<>> \o <<NextPacket>>
    BY <1>3, <1>4, <1>5, PacketsConcat
  <2> QED
    BY <2>1
<1>7. Pending \in Seq(Items) /\ Stored \in Seq(Items) /\ Pending = parts \o part \o buffer
  BY <1>1, ContentTypes DEF Pending
<1>8. Pending' = Pending \o more /\ Stored' = Stored
  <2> DEFINE x == parts \o part
             h == HeaderDue
             p == <<NextPacket>>
  <2>1. /\ x \in Seq(Items) /\ buffer \in Seq(Items) /\ h \in Seq(Items) /\ p \in Seq(Items)
        /\ x \o buffer \in Seq(Items) /\ buffer \o h \in Seq(Items) /\ h \o p \in Seq(Items)
    BY <1>3, ContentTypes, Concats
  <2>2. Pending' = x \o (buffer \o h \o p) /\ Pending = x \o buffer /\ more = h \o p
    BY <1>1, <1>2 DEF Pending
  <2> HIDE DEF x, h, p
  <2>3. buffer \o h \o p = buffer \o (h \o p)
    BY <2>1, Regroup
  <2>4. x \o (buffer \o (h \o p)) = (x \o buffer) \o (h \o p)
    <3> DEFINE hp == h \o p
    <3>1. x \in Seq(Items) /\ buffer \in Seq(Items) /\ hp \in Seq(Items)
      BY <2>1
    <3> HIDE DEF hp
    <3>2. (x \o buffer) \o hp = x \o (buffer \o hp)
      BY ONLY <3>1, Regroup
    <3> QED
      BY <3>2 DEF hp
  <2> QED
    BY <1>2, <2>2, <2>3, <2>4 DEF Stored
<1> HIDE DEF more
<1>9. PacketsOf(Pending') = Append(PacketsOf(Pending), NextPacket)
  <2>1. PacketsOf(Pending') = PacketsOf(Pending) \o <<NextPacket>>
    BY <1>3, <1>6, <1>7, <1>8, PacketsConcat
  <2>2. PacketsOf(Pending) \in Seq(Packets)
    BY <1>7, PacketsType
  <2> QED
    BY <1>1, <2>1, <2>2, AppendIsConcat
<1>10. PacketsOf(Stored' \o Pending') = Append(PacketsOf(Stored \o Pending), NextPacket)
  <2>1. Stored \o Pending \in Seq(Items) /\ Stored' \o Pending' = (Stored \o Pending) \o more
    <3>1. Stored \o Pending \in Seq(Items)
      BY <1>7, Concats
    <3> DEFINE x == Stored
               y == Pending
    <3>2. x \in Seq(Items) /\ y \in Seq(Items) /\ more \in Seq(Items)
      BY <1>3, <1>7
    <3> HIDE DEF x, y
    <3>3. (x \o y) \o more = x \o (y \o more)
      BY ONLY <3>2, Regroup
    <3> QED
      BY <1>8, <3>1, <3>3 DEF x, y
  <2>2. PacketsOf((Stored \o Pending) \o more) = PacketsOf(Stored \o Pending) \o <<NextPacket>>
    BY <1>3, <1>6, <2>1, PacketsConcat
  <2>3. PacketsOf(Stored \o Pending) \in Seq(Packets)
    BY <2>1, PacketsType
  <2>4. PacketsOf(Stored \o Pending) \o <<NextPacket>>
          = Append(PacketsOf(Stored \o Pending), NextPacket)
    BY <1>1, <2>3, AppendIsConcat
  <2> QED
    BY <2>1, <2>2, <2>4
<1> QED
  BY <1>1, <1>2, <1>9, <1>10

LEMMA ContentAppend ==
  ASSUME TypeOK, OperationInv, ReliableCalls, ReliableContent, AppendPacket
  PROVE  ReliableContent'
<1>1. open /\ ~s3Closed /\ ~rtpClosed /\ packetCount \in Nat /\ segmentPackets \in Nat
  BY ListFacts DEF TypeOK, ReliableCalls, AppendPacket
<1>2. /\ packetCount' = packetCount + 1 /\ segmentPackets' = segmentPackets + 1
      /\ NextPacket = packetCount + 1 /\ NextPacket \in Packets
      /\ UNCHANGED <<open, s3Closed, parts, part, counted, segments, objects, uploads>>
      /\ PacketsOf(Pending') = Append(PacketsOf(Pending), NextPacket)
      /\ PacketsOf(Stored' \o Pending') = Append(PacketsOf(Stored \o Pending), NextPacket)
  BY <1>1, PendingAppend
<1>3. PacketsOf(Stored' \o Pending') = [n \in 1..packetCount' |-> n]
  BY <1>1, <1>2, AcceptedNext DEF ReliableContent
<1>4. Len(PacketsOf(Pending')) = segmentPackets'
  <2>1. PacketsOf(Pending) \in Seq(Packets) /\ Len(PacketsOf(Pending)) = segmentPackets
    BY <1>1, ContentTypes, PacketsType DEF ReliableContent
  <2> QED
    BY <1>1, <1>2, <2>1, AppendProperties
<1>5. segmentPackets' > 0
  BY <1>1, <1>2
<1>6. counted' = Bytes(parts' \o part')
  BY <1>1, <1>2 DEF ReliableContent
<1>7. \A k \in 1..Newest' : Ended(k)' => EndedContent(k)'
  BY <1>2, EndedSame
<1> QED
  BY <1>3, <1>4, <1>5, <1>6, <1>7 DEF ReliableContent, EndedContent

LEMMA FlushedPending ==
  ASSUME TypeOK, Flushed, UNCHANGED s3Closed
  PROVE  /\ Pending' = Pending
         /\ counted' = counted + Bytes(buffer)
         /\ parts' \o part' = (parts \o part) \o buffer
<1> DEFINE x == parts \o part
           b == buffer
<1>1. /\ parts \in Seq(Items) /\ part \in Seq(Items) /\ b \in Seq(Items) /\ x \in Seq(Items)
      /\ part \o b \in Seq(Items) /\ x \o b \in Seq(Items)
  BY ContentTypes, Concats
<1>2. parts \o (part \o b) = x \o b
  <2>1. parts \in Seq(Items) /\ part \in Seq(Items) /\ b \in Seq(Items)
    BY <1>1
  <2> HIDE DEF b
  <2>2. (parts \o part) \o b = parts \o (part \o b)
    BY ONLY <2>1, Regroup
  <2> QED
    BY <2>2
<1>3. /\ (x \o b) \o <<>> = x \o b
  BY <1>1, ConcatEmptySeq
<1>4. counted' = counted + Bytes(b)
  BY DEF Flushed
<1>5. buffer' = <<>> /\ ~s3Closed /\ ~s3Closed'
  BY DEF Flushed
<1>6. Pending = x \o b
  BY <1>5 DEF Pending
<1>7. CASE part' = part \o buffer /\ UNCHANGED parts
  <2>1. parts' \o part' = x \o b
    BY <1>2, <1>7
  <2>2. Pending' = (x \o b) \o <<>>
    BY <1>5, <2>1 DEF Pending
  <2> QED
    BY <1>3, <1>4, <1>6, <2>1, <2>2
<1>8. CASE part' = <<>> /\ parts' = parts \o part \o buffer
  <2>1. parts' \o part' = x \o b
    BY <1>3, <1>8
  <2>2. Pending' = (x \o b) \o <<>>
    BY <1>5, <2>1 DEF Pending
  <2> QED
    BY <1>3, <1>4, <1>6, <2>1, <2>2
<1> QED
  BY <1>7, <1>8 DEF Flushed

LEMMA FlushedContent ==
  ASSUME TypeOK, ReliableContent, Flushed, open, UNCHANGED s3Closed
  PROVE  /\ Pending' = Pending
         /\ counted' = Bytes(parts' \o part')
<1> DEFINE x == parts \o part
<1>1. x \in Seq(Items) /\ buffer \in Seq(Items)
  BY ContentTypes
<1>2. /\ Pending' = Pending /\ counted' = counted + Bytes(buffer)
      /\ parts' \o part' = x \o buffer
  BY FlushedPending
<1>3. counted = Bytes(x)
  BY DEF ReliableContent
<1> HIDE DEF x
<1>4. Bytes(x \o buffer) = Bytes(x) + Bytes(buffer)
  BY <1>1, BytesConcat
<1> QED
  BY <1>2, <1>3, <1>4

LEMMA ContentFlushed ==
  ASSUME TypeOK, ReliableContent, Flushed, open,
         UNCHANGED <<segments, segmentPackets, packetCount, open, s3Closed, objects, uploads>>
  PROVE  ReliableContent'
<1>1. Pending' = Pending /\ counted' = Bytes(parts' \o part') /\ Stored' = Stored
  BY FlushedContent DEF Stored
<1>2. \A k \in 1..Newest' : Ended(k)' => EndedContent(k)'
  BY EndedSame
<1> HIDE DEF Pending
<1> QED
  BY <1>1, <1>2 DEF ReliableContent, EndedContent

(* Both ends of an upload: x, the data of the segment, becomes its object.  *)
LEMMA ContentEnded ==
  ASSUME TypeOK, SegmentsInv, StoreInv, ReliableContent, open, ~s3Closed, buffer = <<>>,
         EndSegment, s3Closed',
         NEW x \in Seq(Items), x = parts \o part, Len(PacketsOf(x)) \in Nat,
         objects' = [objects EXCEPT ![segmentIndex] = x],
         uploads' = [uploads EXCEPT ![segmentIndex] =
                       IF segmentPackets > 0 THEN "completed" ELSE "aborted"]
  PROVE  ReliableContent'
<1>1. /\ Pending = x /\ Pending' = <<>> /\ ~open' /\ UNCHANGED packetCount
      /\ counted = Bytes(x) /\ segmentPackets = Len(PacketsOf(x))
  <2>1. Pending = x \o <<>>
    BY DEF Pending
  <2>2. x \o <<>> = x
    BY ConcatEmptySeq
  <2> QED
    BY <2>1, <2>2 DEF Pending, EndSegment, ReliableContent
<1>2. Stored' = Stored \o x
  <2>1. /\ objects \in Seq(Seq(Items)) /\ Len(objects) = MaxSegments
        /\ segmentIndex \in 1..Len(objects) /\ segmentIndex \in Nat
    BY ContentTypes, ListFacts, Constants DEF TypeOK
  <2>2. ASSUME NEW k \in segmentIndex..Len(objects) PROVE objects[k] = <<>>
    <3>1. k \in Indexes /\ (k = segmentIndex \/ k > segmentIndex)
      BY <2>1, Constants
    <3> QED
      BY <3>1 DEF StoreInv, NoObject
  <2> DEFINE o == objects
             i == segmentIndex
  <2>3. o \in Seq(Seq(Items)) /\ i \in 1..Len(o) /\ \A k \in i..Len(o) : o[k] = <<>>
    BY <2>1, <2>2
  <2> HIDE DEF o, i
  <2>4. FlattenSeq([o EXCEPT ![i] = x]) = FlattenSeq(o) \o x
    BY ONLY <2>3, x \in Seq(Items), FlattenAtEnd
  <2> QED
    BY <2>4 DEF Stored, o, i
<1>3. PacketsOf(Stored' \o Pending') = [n \in 1..packetCount' |-> n]
  <2>1. Stored' \o Pending' = Stored \o Pending
    <3>1. Stored \o x \in Seq(Items)
      BY ContentTypes, Concats
    <3>2. (Stored \o x) \o <<>> = Stored \o x
      BY <3>1, ConcatEmptySeq
    <3> QED
      BY <1>1, <1>2, <3>2
  <2> QED
    BY <1>1, <2>1 DEF ReliableContent
<1>4. /\ Len(segments') = Len(segments) /\ Newest' = Newest
      /\ \A k \in 1..Newest : k # Newest => segments'[k] = segments[k]
      /\ segments'[Newest].index = segmentIndex
      /\ segments'[Newest].bytes = counted /\ segments'[Newest].packets = segmentPackets
  BY EndedList DEF Newest, SegmentsInv
<1>5. segmentIndex \in Indexes /\ objects'[segmentIndex] = x
      /\ uploads'[segmentIndex] = IF segmentPackets > 0 THEN "completed" ELSE "aborted"
  BY DEF TypeOK
<1>6. EndedContent(Newest)'
  BY <1>1, <1>4, <1>5 DEF EndedContent
<1>7. ASSUME NEW k \in 1..Newest, k # Newest PROVE EndedContent(k)'
  <2>1. k < Newest /\ Newest \in 1..Newest /\ segments[k].index \in Indexes
        /\ segments[k].index \in Nat /\ segmentIndex \in Nat
    BY <1>7, ListFacts
  <2>2. segments[k].index < segmentIndex
    BY <2>1 DEF SegmentsInv
  <2>3. objects'[segments[k].index] = objects[segments[k].index]
        /\ uploads'[segments[k].index] = uploads[segments[k].index]
    BY <2>1, <2>2 DEF TypeOK
  <2>4. EndedContent(k)
    BY <1>7 DEF SegmentsInv, ReliableContent, EndedContent
  <2>5. segments'[k] = segments[k]
    BY <1>4, <1>7
  <2> QED
    BY <2>3, <2>4, <2>5 DEF EndedContent
<1>8. \A k \in 1..Newest' : Ended(k)' => EndedContent(k)'
  BY <1>4, <1>6, <1>7
<1> QED
  BY <1>1, <1>3, <1>8 DEF ReliableContent, EndedContent

LEMMA ContentComplete ==
  ASSUME TypeOK, OperationInv, SegmentsInv, StoreInv, ReliableCalls, ReliableContent,
         CompleteUpload
  PROVE  ReliableContent'
<1>1. /\ open /\ ~s3Closed /\ s3Closed' /\ buffer = <<>> /\ EndSegment /\ parts \o part # <<>>
      /\ objects' = [objects EXCEPT ![segmentIndex] = parts \o part]
      /\ uploads' = [uploads EXCEPT ![segmentIndex] = "completed"]
  BY DEF CompleteUpload, OperationInv, ReliableCalls
<1>2. parts \o part \in Seq(Items) /\ Len(PacketsOf(parts \o part)) \in Nat
  BY ContentTypes, PacketsType, LenProperties
<1>3. segmentPackets > 0
  <2>1. Pending = (parts \o part) \o <<>>
    BY <1>1 DEF Pending
  <2>2. Pending # <<>>
    BY <1>1, <1>2, <2>1, ConcatEmptySeq
  <2> QED
    BY <1>1, <2>2 DEF ReliableContent
<1>4. uploads' = [uploads EXCEPT ![segmentIndex] =
                    IF segmentPackets > 0 THEN "completed" ELSE "aborted"]
  BY <1>1, <1>3
<1> QED
  BY <1>1, <1>2, <1>4, ContentEnded

LEMMA ContentAbort ==
  ASSUME TypeOK, OperationInv, SegmentsInv, StoreInv, ReliableCalls, ReliableContent,
         ~faults, AbortEmptyUpload
  PROVE  ReliableContent'
<1>1. /\ open /\ ~s3Closed /\ s3Closed' /\ buffer = <<>> /\ EndSegment /\ parts \o part = <<>>
      /\ objects' = objects
      /\ uploads' = [uploads EXCEPT ![segmentIndex] = "aborted"]
  BY DEF AbortEmptyUpload, OperationInv, ReliableCalls
<1>2. Len(PacketsOf(<<>>)) = 0 /\ <<>> \in Seq(Items)
  BY PacketsEmpty
<1>3. segmentPackets = 0
  <2>1. Pending = <<>> \o <<>>
    BY <1>1 DEF Pending
  <2>2. Pending = <<>>
    BY <2>1
  <2> QED
    BY <1>1, <1>2, <2>2 DEF ReliableContent
<1>4. uploads' = [uploads EXCEPT ![segmentIndex] =
                    IF segmentPackets > 0 THEN "completed" ELSE "aborted"]
  BY <1>1, <1>3
<1>5. objects' = [objects EXCEPT ![segmentIndex] = <<>>]
  BY <1>1 DEF StoreInv, NoObject, TypeOK
<1> DEFINE x == parts \o part
<1>6. /\ x \in Seq(Items) /\ Len(PacketsOf(x)) \in Nat /\ x = parts \o part
      /\ objects' = [objects EXCEPT ![segmentIndex] = x]
  <2>1. x = <<>>
    BY <1>1
  <2> QED
    BY <1>2, <1>5, <2>1
<1> HIDE DEF x
<1> QED
  BY <1>1, <1>4, <1>6, ContentEnded

LEMMA ContentStart ==
  ASSUME TypeOK, OperationInv, SegmentsInv, StoreInv, ReliableCalls, ReliableContent,
         ~faults, StartSegment
  PROVE  ReliableContent'
<1>1. /\ s3Closed /\ ~open /\ open' /\ ~s3Closed' /\ part' = <<>> /\ parts' = <<>>
      /\ buffer' = <<>> /\ counted' = 0 /\ segmentPackets' = 0
      /\ UNCHANGED <<objects, packetCount>>
      /\ segments' = Append(segments, NewSegment(NextSegment, op.at))
      /\ uploads' = [uploads EXCEPT ![NextSegment] = "open"]
  BY DEF TypeOK, OperationInv, StoreInv, StartSegment, NewS3StreamWriter, NewRtpWriter
<1>2. Pending = <<>> /\ Pending' = <<>> /\ Stored' = Stored /\ parts' \o part' = <<>>
  <2>1. <<>> \o <<>> = <<>>
    OBVIOUS
  <2> QED
    BY <1>1, <2>1 DEF Pending, Stored
<1>3. PacketsOf(Stored' \o Pending') = [n \in 1..packetCount' |-> n]
  BY <1>1, <1>2 DEF ReliableContent
<1>4. Len(PacketsOf(Pending')) = segmentPackets' /\ counted' = Bytes(parts' \o part')
  BY <1>1, <1>2, PacketsEmpty, BytesEmpty
<1>5. /\ Newest' = Newest + 1 /\ Newest \in Nat
      /\ \A k \in 1..Newest : segments'[k] = segments[k]
      /\ segments'[Newest + 1] = NewSegment(NextSegment, op.at)
  <2> DEFINE s == NewSegment(NextSegment, op.at)
             n == Len(segments)
  <2>1. NextSegment \in Indexes /\ op.at \in Times
    BY Constants DEF TypeOK, StartSegment, NextSegment, Operations
  <2>2. s \in SegmentInfo /\ segments \in Seq(SegmentInfo)
    BY <2>1, NewSegmentType DEF TypeOK
  <2> HIDE DEF s
  <2>3. /\ Len(Append(segments, s)) = n + 1 /\ n \in Nat /\ Append(segments, s)[n + 1] = s
        /\ \A k \in 1..n : Append(segments, s)[k] = segments[k]
    BY <2>2, AppendProperties, LenProperties
  <2> QED
    BY <1>1, <2>3 DEF Newest, s
<1>6. ASSUME NEW k \in 1..Newest PROVE EndedContent(k)'
  <2>1. EndedContent(k)
    BY <1>1 DEF SegmentsInv, ReliableContent, EndedContent
  <2>2. segments[k].index \in Indexes /\ segments[k].index # NextSegment
    BY ListFacts DEF SegmentsInv, NextSegment
  <2>3. uploads'[segments[k].index] = uploads[segments[k].index]
    BY <1>1, <2>2 DEF TypeOK
  <2>4. segments'[k] = segments[k]
    BY <1>5
  <2> QED
    BY <1>1, <2>1, <2>3, <2>4 DEF EndedContent
<1>7. \A k \in 1..Newest' : Ended(k)' => EndedContent(k)'
  <2> SUFFICES ASSUME NEW k \in 1..Newest', Ended(k)' PROVE EndedContent(k)'
    OBVIOUS
  <2>1. k # Newest + 1
    BY <1>5 DEF Ended, NewSegment
  <2>2. k \in 1..Newest
    BY <1>5, <2>1
  <2> QED
    BY <1>6, <2>2
<1> QED
  BY <1>2, <1>3, <1>4, <1>7 DEF ReliableContent, EndedContent

LEMMA ReliableContentStep ==
  ASSUME TypeOK, OperationInv, SegmentsInv, StoreInv, ReliableCalls, ReliableContent,
         ~faults, [Next]_vars
  PROVE  ReliableContent'
<1>1. CASE WritePacket
  BY <1>1, ContentSame DEF WritePacket, Begin, trackVars, writerVars, storeVars
<1>2. ASSUME NEW t \in Times, RotateAt(t) PROVE ReliableContent'
  BY <1>2, ContentSame DEF RotateAt, Begin, trackVars, writerVars, storeVars
<1>3. ASSUME NEW t \in Times, CloseAt(t) PROVE ReliableContent'
  BY <1>3, ContentSame DEF CloseAt, Begin, writerVars, storeVars
<1>4. CASE AppendPacket
  BY <1>4, ContentAppend
<1>5. CASE CloseRtp
  <2>1. open /\ ~s3Closed
    BY <1>5 DEF CloseRtp, ReliableCalls
  <2>2. /\ UNCHANGED <<segments, segmentPackets, packetCount, open, s3Closed, objects, uploads>>
        /\ Flushed \/ UNCHANGED <<buffer, part, parts, counted>>
    BY <1>5, <2>1 DEF CloseRtp, FlushFailed, trackVars, storeVars
  <2> QED
    BY <2>1, <2>2, ContentFlushed, ContentSame DEF uploadVars
<1>6. CASE SkipClose
  BY <1>6 DEF SkipClose, ReliableCalls
<1>7. CASE CompleteUpload
  BY <1>7, ContentComplete
<1>8. CASE AbortEmptyUpload
  BY <1>8, ContentAbort
<1>9. CASE UploadFails
  BY <1>9 DEF UploadFails
<1>10. CASE CloseAgain
  BY <1>10 DEF CloseAgain, ReliableCalls, OperationInv
<1>11. CASE StartSegment
  BY <1>11, ContentStart
<1>12. CASE FlushTick
  <2>1. open /\ ~s3Closed
    BY <1>12 DEF FlushTick, ReliableCalls
  <2>2. /\ UNCHANGED <<segments, segmentPackets, packetCount, open, s3Closed, objects, uploads>>
        /\ Flushed
    BY <1>12, <2>1 DEF FlushTick, FlushFailed, trackVars, storeVars
  <2> QED
    BY <2>1, <2>2, ContentFlushed
<1>13. CASE Tick
  BY <1>13, ContentSame DEF Tick, trackVars, writerVars, storeVars
<1>14. CASE UNCHANGED vars
  BY <1>14, ContentSame DEF vars, trackVars, writerVars, storeVars
<1> QED
  BY <1>1, <1>2, <1>3, <1>4, <1>5, <1>6, <1>7, <1>8, <1>9, <1>10, <1>11, <1>12, <1>13, <1>14
     DEF Next, Step

-----------------------------------------------------------------------------
(* The times of the segments                                                *)

LEMMA OrderSame ==
  ASSUME ReliableOrder, UNCHANGED segments, pc' # "start"
  PROVE  ReliableOrder'
BY DEF ReliableOrder, Newest

LEMMA OrderEnd ==
  ASSUME TypeOK, OperationInv, SegmentsInv, ReliableOrder, EndSegment, pc = "closeS3"
  PROVE  ReliableOrder'
<1>1. /\ Newest' = Newest /\ Newest \in Nat
      /\ \A k \in 1..Newest : /\ k # Newest => segments'[k] = segments[k]
                              /\ segments'[k].start = segments[k].start
      /\ segments'[Newest].end = op.at /\ segments'[Newest].start = segmentStart
  BY EndedList, ListFacts DEF Newest, SegmentsInv, OperationInv
<1>2. ASSUME NEW k \in 1..Newest - 1
      PROVE  /\ segments'[k].start <= segments'[k].end
             /\ segments'[k].end <= segments'[k + 1].start
  <2>1. k \in 1..Newest /\ k # Newest /\ k + 1 \in 1..Newest
    BY <1>1
  <2>2. segments'[k] = segments[k] /\ segments'[k + 1].start = segments[k + 1].start
    BY <1>1, <2>1
  <2>3. segments[k].start <= segments[k].end /\ segments[k].end <= segments[k + 1].start
    BY DEF ReliableOrder
  <2> QED
    BY <2>2, <2>3
<1>3. pc' = "start" => op.kind # "close" /\ op' = op
  BY DEF EndSegment, Return
<1>4. pc' = "start" => segmentStart <= op.at
  BY <1>3 DEF OperationInv
<1> QED
  BY <1>1, <1>2, <1>3, <1>4 DEF ReliableOrder

LEMMA OrderStart ==
  ASSUME TypeOK, ReliableOrder, ~faults, StartSegment
  PROVE  ReliableOrder'
<1> DEFINE s == NewSegment(NextSegment, op.at)
           n == Len(segments)
<1>1. NextSegment \in Indexes /\ op.at \in Times /\ pc = "start" /\ pc' # "start"
  BY Constants DEF TypeOK, StartSegment, NextSegment, Operations, Return
<1>2. s \in SegmentInfo /\ segments \in Seq(SegmentInfo) /\ s.start = op.at
  BY <1>1, NewSegmentType DEF TypeOK, NewSegment
<1>3. segments' = Append(segments, s)
  BY DEF StartSegment
<1> HIDE DEF s
<1>4. /\ Newest' = n + 1 /\ n \in Nat /\ segments'[n + 1] = s /\ Newest = n
      /\ \A k \in 1..n : segments'[k] = segments[k]
  BY <1>2, <1>3, AppendProperties, LenProperties DEF Newest
<1> HIDE DEF n
<1>5. ASSUME NEW k \in 1..Newest' - 1
      PROVE  /\ segments'[k].start <= segments'[k].end
             /\ segments'[k].end <= segments'[k + 1].start
  <2>1. k \in 1..n /\ segments'[k] = segments[k]
    BY <1>4
  <2>2. CASE k = n
    <3>1. segments[k].start <= segments[k].end /\ segments[k].end = op.at
      BY <1>1, <1>4, <2>2 DEF ReliableOrder
    <3>2. segments'[k + 1].start = op.at /\ op.at <= op.at
      BY <1>1, <1>2, <1>4, <2>2, Constants
    <3> QED
      BY <2>1, <3>1, <3>2
  <2>3. CASE k # n
    <3>1. k \in 1..Newest - 1 /\ k + 1 \in 1..n
      BY <1>4, <2>1, <2>3
    <3>2. segments[k].start <= segments[k].end /\ segments[k].end <= segments[k + 1].start
      BY <3>1 DEF ReliableOrder
    <3>3. segments'[k + 1] = segments[k + 1]
      BY <1>4, <3>1
    <3> QED
      BY <2>1, <3>2, <3>3
  <2> QED
    BY <2>2, <2>3
<1> QED
  BY <1>1, <1>5 DEF ReliableOrder

LEMMA ReliableOrderStep ==
  ASSUME TypeOK, OperationInv, SegmentsInv, ReliableCalls, ReliableOrder, ~faults, [Next]_vars
  PROVE  ReliableOrder'
<1>1. CASE WritePacket
  BY <1>1, OrderSame DEF WritePacket, Begin, trackVars
<1>2. ASSUME NEW t \in Times, RotateAt(t) PROVE ReliableOrder'
  BY <1>2, OrderSame DEF RotateAt, Begin, trackVars
<1>3. ASSUME NEW t \in Times, CloseAt(t) PROVE ReliableOrder'
  BY <1>3, OrderSame DEF CloseAt, Begin
<1>4. CASE AppendPacket
  BY <1>4, OrderSame DEF AppendPacket, Return
<1>5. CASE CloseRtp
  BY <1>5, OrderSame DEF CloseRtp, Return, trackVars
<1>6. CASE SkipClose
  BY <1>6 DEF SkipClose, ReliableCalls
<1>7. CASE CompleteUpload
  BY <1>7, OrderEnd DEF CompleteUpload
<1>8. CASE AbortEmptyUpload
  BY <1>8, OrderEnd DEF AbortEmptyUpload
<1>9. CASE UploadFails
  BY <1>9 DEF UploadFails
<1>10. CASE CloseAgain
  BY <1>10, OrderEnd DEF CloseAgain
<1>11. CASE StartSegment
  BY <1>11, OrderStart
<1>12. CASE FlushTick
  <2>1. UNCHANGED <<segments, pc, op>>
    BY <1>12 DEF FlushTick, trackVars, callVars
  <2> QED
    BY <2>1 DEF ReliableOrder, Newest
<1>13. CASE Tick
  BY <1>13, OrderSame DEF Tick, trackVars, callVars
<1>14. CASE UNCHANGED vars
  <2>1. UNCHANGED <<segments, pc, op>>
    BY <1>14 DEF vars, trackVars, callVars
  <2> QED
    BY <2>1 DEF ReliableOrder, Newest
<1> QED
  BY <1>1, <1>2, <1>3, <1>4, <1>5, <1>6, <1>7, <1>8, <1>9, <1>10, <1>11, <1>12, <1>13, <1>14
     DEF Next, Step

-----------------------------------------------------------------------------
(* The invariant                                                            *)

LEMMA InitInvariant == Init => IInv
<1> SUFFICES ASSUME Init PROVE IInv
  OBVIOUS
<1> DEFINE s == NewSegment(1, 0)
<1>1. /\ s \in SegmentInfo /\ s.index = 1 /\ s.start = 0 /\ s.end = NoTime /\ s.packets = 0
      /\ Indexes = 1..MaxSegments /\ 1 \in Indexes /\ 0 \in Times /\ 0 \in 0..MaxPackets
  BY Constants DEF NewSegment, SegmentInfo
<1> HIDE DEF s
<1>2. /\ segments = <<s>> /\ <<s>> \in Seq(SegmentInfo) /\ Len(<<s>>) = 1 /\ <<s>>[1] = s
      /\ Newest = 1
  BY <1>1 DEF Init, s, Newest
<1>3. <<s>> # <<>>
  OBVIOUS
<1>4. NoOperation \in Operations /\ NoOperation.kind = "none"
  BY <1>1 DEF NoOperation, Operations
<1>5. /\ objects \in [Indexes -> Seq(Items)] /\ objects \in Seq(Seq(Items))
      /\ \A i \in Indexes : objects[i] = <<>>
      /\ \A i \in 1..Len(objects) : objects[i] = <<>>
  BY <1>1, Constants DEF Init, NoObject
<1>6. TypeOK
  <2>1. <<>> \in Seq(Items)
    OBVIOUS
  <2>2. segments \in Seq(SegmentInfo) /\ segments # <<>>
    BY <1>2, <1>3
  <2>3. uploads \in [Indexes -> {"none", "open", "completed", "aborted"}]
    BY DEF Init
  <2>4. op \in Operations /\ pc = "idle"
    BY <1>4 DEF Init
  <2>5. faults \in BOOLEAN /\ packetCount \in 0..MaxPackets /\ segmentIndex \in Indexes
        /\ segmentStart \in Times /\ now \in Times
    BY <1>1 DEF Init
  <2> QED
    BY <1>5, <2>1, <2>2, <2>3, <2>4, <2>5 DEF Init, TypeOK
<1>7. OperationInv
  BY <1>1, <1>4 DEF Init, OperationInv
<1>8. SegmentsInv
  <2>1. TotalPackets(segments, 0) = 0
    BY <1>1, <1>2, TotalFirst
  <2>2. \A k \in 1..Newest : k = 1
    BY <1>2
  <2>3. /\ segments[Newest] = s /\ segmentIndex = 1 /\ open /\ segmentStart = 0
        /\ segmentPackets = 0 /\ packetCount = 0
    BY <1>2 DEF Init
  <2> QED
    BY <1>1, <1>2, <2>1, <2>2, <2>3 DEF SegmentsInv, Ended
<1>9. StoreInv
  BY <1>1, <1>5 DEF Init, StoreInv, NoObject
<1>10. ReliableCalls
  BY DEF Init, ReliableCalls
<1>11. ReliableContent
  <2>1. Stored = <<>>
    BY <1>5, FlattenNothing DEF Stored
  <2>2. /\ part = <<>> /\ parts = <<>> /\ buffer = <<>> /\ counted = 0 /\ segmentPackets = 0
        /\ packetCount = 0 /\ ~s3Closed
    BY DEF Init
  <2>3. <<>> \o <<>> = <<>>
    OBVIOUS
  <2>4. Pending = <<>> /\ parts \o part = <<>> /\ Stored \o Pending = <<>>
    BY <2>1, <2>2, <2>3 DEF Pending
  <2>5. <<>> = [n \in 1..0 |-> n]
    OBVIOUS
  <2>6. \A k \in 1..Newest : ~Ended(k)
    BY <1>1, <1>2 DEF Ended
  <2>7. PacketsOf(Stored \o Pending) = [n \in 1..packetCount |-> n]
    BY <2>2, <2>4, <2>5, PacketsEmpty
  <2>8. Len(PacketsOf(Pending)) = segmentPackets /\ counted = Bytes(parts \o part)
    BY <2>2, <2>4, PacketsEmpty, BytesEmpty
  <2> QED
    BY <2>4, <2>6, <2>7, <2>8 DEF ReliableContent
<1>12. ReliableOrder
  BY <1>2 DEF Init, ReliableOrder
<1> QED
  BY <1>6, <1>7, <1>8, <1>9, <1>10, <1>11, <1>12 DEF IInv

LEMMA FaultsStay == [Next]_vars => UNCHANGED faults
BY DEF Next, Step, WritePacket, RotateAt, CloseAt, Begin, AppendPacket, CloseRtp, SkipClose,
       CompleteUpload, AbortEmptyUpload, UploadFails, CloseAgain, StartSegment, FlushTick, Tick,
       storeVars, vars

LEMMA NextInvariant == IInv /\ [Next]_vars => IInv'
<1> SUFFICES ASSUME IInv, [Next]_vars PROVE IInv'
  OBVIOUS
<1>1. TypeOK /\ OperationInv /\ SegmentsInv /\ StoreInv
      /\ (~faults => ReliableCalls /\ ReliableContent /\ ReliableOrder)
  BY DEF IInv
<1>2. TypeOK'
  BY <1>1, TypeStep
<1>3. OperationInv'
  BY <1>1, OperationStep
<1>4. SegmentsInv'
  BY <1>1, SegmentsStep
<1>5. StoreInv'
  BY <1>1, StoreStep
<1>6. ~faults' => ReliableCalls' /\ ReliableContent' /\ ReliableOrder'
  <2> SUFFICES ASSUME ~faults' PROVE ReliableCalls' /\ ReliableContent' /\ ReliableOrder'
    OBVIOUS
  <2>1. ~faults
    BY FaultsStay
  <2>2. ReliableCalls'
    BY <1>1, <2>1, ReliableCallsStep
  <2>3. ReliableContent'
    BY <1>1, <2>1, ReliableContentStep
  <2>4. ReliableOrder'
    BY <1>1, <2>1, ReliableOrderStep
  <2> QED
    BY <2>2, <2>3, <2>4
<1> QED
  BY <1>2, <1>3, <1>4, <1>5, <1>6 DEF IInv

(* In every reachable state the invariant holds.                            *)
THEOREM TrackInvariant == Spec => []IInv
<1>1. IInv /\ UNCHANGED vars => IInv'
  BY NextInvariant
<1> QED
  BY InitInvariant, NextInvariant, <1>1, PTL DEF Spec

(* Every variable of a track has its type: in particular the index of the   *)
(* segment stays in step with MaxSegments and the counts stay natural.      *)
THEOREM TrackTypeCorrect == Spec => []TypeOK
<1>1. IInv => TypeOK
  BY DEF IInv
<1> QED
  BY <1>1, TrackInvariant, PTL

(* WritePacket, the rotations, the flush goroutine and failing closes never *)
(* lose count of a packet, and as long as the store is reliable they        *)
(* neither lose, duplicate nor reorder one, at any step.                    *)
THEOREM TrackConserves == Spec => []Conservation
<1>1. IInv => Conservation
  <2> SUFFICES ASSUME IInv PROVE Conservation
    OBVIOUS
  <2>1. Ended(Newest) <=> ~open
    BY ListFacts DEF IInv, SegmentsInv
  <2>2. TotalPackets(segments, IF Ended(Newest) THEN 0 ELSE segmentPackets) = packetCount
    BY <2>1 DEF IInv, SegmentsInv
  <2>3. ~faults => PacketsOf(Stored \o Pending) = [n \in 1..packetCount |-> n]
    BY DEF IInv, ReliableContent
  <2> QED
    BY <2>2, <2>3 DEF Conservation
<1> QED
  BY <1>1, TrackInvariant, PTL

(* When CloseAt has returned, with a reliable store, no multipart upload is *)
(* left open.                                                               *)
THEOREM TrackSettlesUploads == Spec => []UploadsSettled
<1>1. IInv => UploadsSettled
  <2> SUFFICES ASSUME IInv, ~faults, closed, pc = "idle", NEW k \in 1..Newest
               PROVE  uploads[segments[k].index]
                        = IF segments[k].packets > 0 THEN "completed" ELSE "aborted"
    BY DEF UploadsSettled
  <2>1. ~open
    BY DEF IInv, ReliableCalls
  <2>2. Ended(k)
    BY <2>1 DEF IInv, SegmentsInv
  <2> QED
    BY <2>2 DEF IInv, ReliableContent
<1> QED
  BY <1>1, TrackInvariant, PTL

(* With a reliable store, what closeSegmentAt records of a segment, its     *)
(* packets and its bytes, is what its object holds.                         *)
THEOREM TrackCountsMatch == Spec => []CountsMatchObjects
<1>1. IInv => CountsMatchObjects
  BY DEF IInv, ReliableContent, CountsMatchObjects
<1> QED
  BY <1>1, TrackInvariant, PTL

(* With a reliable store, the segments of a track follow each other in time *)
(* and in number, wherever RotateAt is asked to cut.                        *)
THEOREM TrackSegmentsInOrder == Spec => []SegmentsInOrder
<1>1. IInv => SegmentsInOrder
  <2> SUFFICES ASSUME IInv, ~faults, NEW k \in 1..Newest - 1
               PROVE  /\ Ended(k)
                      /\ segments[k].start <= segments[k].end
                      /\ segments[k].end <= segments[k + 1].start
                      /\ segments[k].index < segments[k + 1].index
    BY DEF SegmentsInOrder
  <2>1. k \in 1..Newest /\ k + 1 \in 1..Newest /\ k # Newest /\ k < k + 1
    BY ListFacts DEF IInv
  <2>2. Ended(k) /\ segments[k].index < segments[k + 1].index
    BY <2>1 DEF IInv, SegmentsInv
  <2>3. segments[k].start <= segments[k].end /\ segments[k].end <= segments[k + 1].start
    BY DEF IInv, ReliableOrder
  <2> QED
    BY <2>2, <2>3
<1> QED
  BY <1>1, TrackInvariant, PTL

-----------------------------------------------------------------------------
(* The contract of a track                                                  *)

Ascending(s, low, high) ==
  /\ \A i \in 1..Len(s) : s[i] \in low..high
  /\ \A i, j \in 1..Len(s) : i < j => s[i] < s[j]

(* Whatever fails, what is on its way to the store are packets of the       *)
(* current segment, in order and not more than there are; with a reliable   *)
(* store the object of a segment that has been ended holds them all.        *)
PendingInv ==
  /\ open /\ s3Closed => rtpClosed
  /\ ~s3Closed => /\ Ascending(PacketsOf(Pending), packetCount - segmentPackets + 1, packetCount)
                  /\ Len(PacketsOf(Pending)) <= segmentPackets
  /\ pc = "start" /\ ~faults => Len(PacketsOf(objects[segmentIndex])) = segmentPackets

LEMMA AscendingNext ==
  ASSUME NEW s \in Seq(Packets), NEW low \in Int, NEW high \in Nat, Ascending(s, low, high),
         NEW n, n = high + 1, n \in Packets, low <= n
  PROVE  Ascending(Append(s, n), low, n)
<1>1. /\ Len(Append(s, n)) = Len(s) + 1 /\ Len(s) \in Nat
      /\ \A i \in 1..Len(s) : Append(s, n)[i] = s[i]
      /\ Append(s, n)[Len(s) + 1] = n
  BY AppendProperties, LenProperties
<1> DEFINE t == Append(s, n)
           m == Len(s)
<1>2. \A i \in 1..m + 1 : i = m + 1 \/ i \in 1..m
  BY <1>1
<1>3. \A i \in 1..m : s[i] \in low..high /\ s[i] < n /\ s[i] \in Int
  <2>1. \A i \in 1..m : s[i] \in low..high
    BY DEF Ascending
  <2> QED
    BY <2>1
<1>4. /\ m \in Nat /\ Len(t) = m + 1 /\ t[m + 1] = n /\ \A i \in 1..m : t[i] = s[i]
  BY <1>1
<1> HIDE DEF t, m
<1>5. ASSUME NEW i \in 1..m + 1 PROVE t[i] \in low..n
  <2>1. CASE i = m + 1
    BY <1>4, <2>1
  <2>2. CASE i \in 1..m
    BY <1>3, <1>4, <2>2
  <2> QED
    BY <1>2, <2>1, <2>2
<1>6. ASSUME NEW i \in 1..m + 1, NEW j \in 1..m + 1, i < j PROVE t[i] < t[j]
  <2>1. i \in 1..m
    BY <1>4, <1>6
  <2>2. CASE j = m + 1
    BY <1>3, <1>4, <2>1, <2>2
  <2>3. CASE j \in 1..m
    <3>1. s[i] < s[j]
      BY <1>6, <2>1, <2>3 DEF Ascending, m
    <3> QED
      BY <1>4, <2>1, <2>3, <3>1
  <2> QED
    BY <1>2, <2>2, <2>3
<1>7. Ascending(t, low, n)
  BY <1>4, <1>5, <1>6 DEF Ascending
<1> QED
  BY <1>7 DEF t

(* Dropping the middle keeps the order.                                     *)
LEMMA AscendingDrop ==
  ASSUME NEW a \in Seq(Packets), NEW b \in Seq(Packets), NEW c \in Seq(Packets),
         NEW low \in Int, NEW high \in Int, Ascending((a \o b) \o c, low, high)
  PROVE  Ascending(a \o c, low, high) /\ Len(a \o c) <= Len((a \o b) \o c)
<1> DEFINE s == (a \o b) \o c
           t == a \o c
           p == Len(a)
           q == Len(b)
           r == Len(c)
<1>1. /\ p \in Nat /\ q \in Nat /\ r \in Nat
      /\ a \o b \in Seq(Packets) /\ Len(a \o b) = p + q
      /\ \A i \in 1..p + q : (a \o b)[i] = IF i <= p THEN a[i] ELSE b[i - p]
  BY ConcatProperties, LenProperties
<1>2. /\ Len(t) = p + r
      /\ \A i \in 1..p + r : t[i] = IF i <= p THEN a[i] ELSE c[i - p]
  BY ConcatProperties
<1>3. /\ Len(s) = (p + q) + r
      /\ \A i \in 1..(p + q) + r : s[i] = IF i <= p + q THEN (a \o b)[i] ELSE c[i - (p + q)]
  BY <1>1, ConcatProperties
<1>4. Ascending(s, low, high)
  OBVIOUS
<1> DEFINE at(i) == IF i <= p THEN i ELSE i + q
<1> HIDE DEF s, t, p, q, r
<1>5. ASSUME NEW i \in 1..p + r PROVE at(i) \in 1..Len(s) /\ t[i] = s[at(i)]
  <2>1. CASE i <= p
    <3>1. i \in 1..(p + q) + r /\ i \in 1..p + q /\ i <= p + q
      BY <1>1, <2>1
    <3> QED
      BY <1>1, <1>2, <1>3, <2>1, <3>1
  <2>2. CASE i > p
    <3>1. i + q \in 1..(p + q) + r /\ ~(i + q <= p + q) /\ ~(i <= p)
          /\ (i + q) - (p + q) = i - p
      BY <1>1, <2>2
    <3>2. s[i + q] = c[(i + q) - (p + q)] /\ t[i] = c[i - p]
      BY <1>2, <1>3, <3>1
    <3> QED
      BY <1>3, <3>1, <3>2
  <2> QED
    BY <1>1, <2>1, <2>2
<1>6. ASSUME NEW i \in 1..p + r PROVE t[i] \in low..high
  BY <1>4, <1>5 DEF Ascending
<1>7. ASSUME NEW i \in 1..p + r, NEW j \in 1..p + r, i < j PROVE t[i] < t[j]
  <2>1. at(i) < at(j)
    BY <1>1, <1>7
  <2>2. at(i) \in 1..Len(s) /\ at(j) \in 1..Len(s) /\ t[i] = s[at(i)] /\ t[j] = s[at(j)]
    BY <1>5
  <2> HIDE DEF at
  <2> QED
    BY <1>4, <2>1, <2>2 DEF Ascending
<1>8. Ascending(t, low, high)
  BY <1>2, <1>6, <1>7 DEF Ascending
<1>9. Len(t) <= Len(s)
  BY <1>1, <1>2, <1>3
<1> QED
  BY <1>8, <1>9 DEF s, t

LEMMA AscendingPrefix ==
  ASSUME NEW a \in Seq(Packets), NEW b \in Seq(Packets),
         NEW low \in Int, NEW high \in Int, Ascending(a \o b, low, high)
  PROVE  Ascending(a, low, high) /\ Len(a) <= Len(a \o b)
<1>1. <<>> \in Seq(Packets) /\ a \o b \in Seq(Packets)
  BY ConcatProperties
<1>2. (a \o b) \o <<>> = a \o b /\ a \o <<>> = a
  BY <1>1, ConcatEmptySeq
<1> DEFINE c == <<>>
<1>3. c \in Seq(Packets) /\ Ascending((a \o b) \o c, low, high)
      /\ (a \o b) \o c = a \o b /\ a \o c = a
  BY <1>1, <1>2
<1> HIDE DEF c
<1>4. Ascending(a \o c, low, high) /\ Len(a \o c) <= Len((a \o b) \o c)
  BY <1>3, AscendingDrop
<1> QED
  BY <1>3, <1>4

(* The packets on their way, by the buffer they are in.                     *)
LEMMA PendingPackets ==
  ASSUME TypeOK, ~s3Closed
  PROVE  /\ PacketsOf(Pending) = PacketsOf(parts \o part) \o PacketsOf(buffer)
         /\ PacketsOf(parts \o part) = PacketsOf(parts) \o PacketsOf(part)
         /\ PacketsOf(parts) \in Seq(Packets) /\ PacketsOf(part) \in Seq(Packets)
         /\ PacketsOf(buffer) \in Seq(Packets) /\ PacketsOf(parts \o part) \in Seq(Packets)
<1> DEFINE x == parts \o part
<1>1. /\ buffer \in Seq(Items) /\ part \in Seq(Items) /\ parts \in Seq(Items)
      /\ x \in Seq(Items)
  BY ContentTypes
<1>2. Pending = x \o buffer
  BY DEF Pending
<1>3. PacketsOf(parts \o part) = PacketsOf(parts) \o PacketsOf(part)
  BY <1>1, PacketsConcat
<1> HIDE DEF x
<1>4. PacketsOf(x \o buffer) = PacketsOf(x) \o PacketsOf(buffer)
  BY <1>1, PacketsConcat
<1> QED
  BY <1>1, <1>2, <1>3, <1>4, PacketsType DEF x

LEMMA PendingSame ==
  ASSUME PendingInv, pc' # "start",
         open' /\ s3Closed' => rtpClosed',
         UNCHANGED <<s3Closed, parts, part, buffer, packetCount, segmentPackets>>
  PROVE  PendingInv'
BY DEF PendingInv, Pending

LEMMA PendingFlush ==
  ASSUME TypeOK, PendingInv, pc' # "start", open' /\ s3Closed' => rtpClosed',
         Flushed \/ FlushFailed, UNCHANGED <<s3Closed, packetCount, segmentPackets>>
  PROVE  PendingInv'
<1>1. CASE Flushed
  <2>1. Pending' = Pending
    BY <1>1, FlushedPending
  <2> HIDE DEF Pending
  <2> QED
    BY <2>1 DEF PendingInv
<1>2. CASE FlushFailed /\ s3Closed
  BY <1>2, PendingSame DEF FlushFailed
<1>3. CASE FlushFailed /\ ~s3Closed
  <2> DEFINE a == PacketsOf(parts)
             b == PacketsOf(part)
             c == PacketsOf(buffer)
             low == packetCount - segmentPackets + 1
  <2>1. /\ a \in Seq(Packets) /\ b \in Seq(Packets) /\ c \in Seq(Packets)
        /\ low \in Int /\ packetCount \in Int
        /\ Ascending((a \o b) \o c, low, packetCount)
        /\ Len((a \o b) \o c) <= segmentPackets
    <3>1. PacketsOf(Pending) = (a \o b) \o c
      BY <1>3, PendingPackets
    <3>2. Ascending(PacketsOf(Pending), packetCount - segmentPackets + 1, packetCount)
          /\ Len(PacketsOf(Pending)) <= segmentPackets
      BY <1>3 DEF PendingInv
    <3>3. a \in Seq(Packets) /\ b \in Seq(Packets) /\ c \in Seq(Packets)
          /\ low \in Int /\ packetCount \in Int
      BY <1>3, PendingPackets, ListFacts
    <3> HIDE DEF a, b, c, low
    <3> QED
      BY <3>1, <3>2, <3>3 DEF low
  <2>2. PacketsOf(Pending') = a \o c
    <3>1. /\ part' = <<>> /\ parts' = parts /\ buffer' = buffer /\ ~s3Closed'
          /\ parts \in Seq(Items) /\ buffer \in Seq(Items)
      BY <1>3, ContentTypes DEF FlushFailed
    <3>2. parts \o <<>> = parts
      BY <3>1, ConcatEmptySeq
    <3>3. Pending' = parts \o buffer
      BY <3>1, <3>2 DEF Pending
    <3> QED
      BY <3>1, <3>3, PacketsConcat
  <2>3. Len(a \o c) \in Nat /\ Len((a \o b) \o c) \in Nat /\ segmentPackets \in Nat
    BY <2>1, ConcatProperties, LenProperties, ListFacts
  <2> HIDE DEF a, b, c
  <2>4. Ascending(a \o c, low, packetCount) /\ Len(a \o c) <= Len((a \o b) \o c)
    <3> HIDE DEF low
    <3> QED
      BY <2>1, AscendingDrop
  <2>5. Len(a \o c) <= segmentPackets
    BY <2>1, <2>3, <2>4
  <2> HIDE DEF Pending
  <2> QED
    BY <2>2, <2>4, <2>5 DEF PendingInv
<1> QED
  BY <1>1, <1>2, <1>3

LEMMA PendingAppended ==
  ASSUME TypeOK, OperationInv, StoreInv, PendingInv, AppendPacket
  PROVE  PendingInv'
<1>0. pc' = "idle"
  BY DEF AppendPacket, Return
<1>1. CASE open /\ ~rtpClosed
  <2>1. ~s3Closed /\ packetCount \in Nat /\ segmentPackets \in Nat
    BY <1>1, ListFacts DEF PendingInv
  <2>2. /\ packetCount' = packetCount + 1 /\ segmentPackets' = segmentPackets + 1
        /\ NextPacket = packetCount + 1 /\ NextPacket \in Packets
        /\ PacketsOf(Pending') = Append(PacketsOf(Pending), NextPacket) /\ ~s3Closed'
    BY <1>1, <2>1, PendingAppend
  <2> DEFINE s == PacketsOf(Pending)
             low == packetCount - segmentPackets + 1
  <2>3. /\ s \in Seq(Packets) /\ low \in Int /\ Ascending(s, low, packetCount)
        /\ Len(s) <= segmentPackets /\ low <= NextPacket
    BY <2>1, <2>2, ContentTypes, PacketsType DEF PendingInv
  <2>4. packetCount' - segmentPackets' + 1 = low
    BY <2>1, <2>2
  <2> HIDE DEF s, low
  <2>5. Ascending(Append(s, NextPacket), low, NextPacket)
    BY <2>1, <2>2, <2>3, AscendingNext
  <2>6. Len(Append(s, NextPacket)) = Len(s) + 1 /\ Len(s) \in Nat
    BY <2>2, <2>3, AppendProperties, LenProperties
  <2>7. PacketsOf(Pending') = Append(s, NextPacket) /\ packetCount' = NextPacket
    BY <2>2 DEF s
  <2>8. Len(PacketsOf(Pending')) <= segmentPackets'
    BY <2>1, <2>2, <2>3, <2>6, <2>7
  <2> HIDE DEF Pending
  <2> QED
    BY <1>0, <2>2, <2>4, <2>5, <2>7, <2>8 DEF PendingInv
<1>2. CASE ~open \/ rtpClosed
  BY <1>0, <1>2, PendingSame DEF PendingInv, AppendPacket, uploadVars
<1> QED
  BY <1>1, <1>2

LEMMA PendingStarted ==
  ASSUME TypeOK, OperationInv, StoreInv, PendingInv, StartSegment
  PROVE  PendingInv'
<1>0. pc' # "start" /\ ~open
  BY DEF StartSegment, Return, OperationInv
<1>1. CASE NewS3StreamWriter /\ NewRtpWriter /\ segmentPackets' = 0
  <2>1. Pending' = <<>>
    <3>1. <<>> \o <<>> = <<>>
      OBVIOUS
    <3> QED
      BY <1>1, <3>1 DEF Pending, NewS3StreamWriter, NewRtpWriter
  <2>2. PacketsOf(Pending') = <<>> /\ Len(<<>>) = 0 /\ ~s3Closed'
    BY <1>1, <2>1, PacketsEmpty DEF NewS3StreamWriter
  <2>3. Ascending(<<>>, packetCount' - segmentPackets' + 1, packetCount')
    BY DEF Ascending
  <2> HIDE DEF Pending
  <2> QED
    BY <1>0, <1>1, <2>2, <2>3 DEF PendingInv
<1>2. CASE UNCHANGED <<open, segmentPackets, writerVars, uploadVars>>
  BY <1>0, <1>2, PendingSame DEF StartSegment, writerVars, uploadVars
<1> QED
  BY <1>1, <1>2 DEF StartSegment

LEMMA PendingEnded ==
  ASSUME TypeOK, OperationInv, StoreInv, ~faults => ReliableCalls /\ ReliableContent,
         CompleteUpload \/ AbortEmptyUpload \/ CloseAgain
  PROVE  PendingInv'
<1>1. /\ s3Closed' /\ ~open' /\ UNCHANGED <<segmentPackets, segmentIndex, faults>>
      /\ pc = "closeS3" /\ open
  BY DEF CompleteUpload, AbortEmptyUpload, CloseAgain, EndSegment, uploadVars, storeVars,
         OperationInv
<1>2. ~faults => Len(PacketsOf(objects'[segmentIndex])) = segmentPackets
  <2> SUFFICES ASSUME ~faults PROVE Len(PacketsOf(objects'[segmentIndex])) = segmentPackets
    OBVIOUS
  <2>1. ~s3Closed /\ buffer = <<>> /\ Len(PacketsOf(Pending)) = segmentPackets
    BY <1>1 DEF ReliableCalls, ReliableContent
  <2>2. Pending = parts \o part
    <3>1. parts \o part \in Seq(Items)
      BY ContentTypes
    <3>2. (parts \o part) \o <<>> = parts \o part
      BY <3>1, ConcatEmptySeq
    <3> QED
      BY <2>1, <3>2 DEF Pending
  <2>3. CASE CompleteUpload
    <3>1. objects'[segmentIndex] = parts \o part
      BY <2>3 DEF CompleteUpload, TypeOK
    <3> QED
      BY <2>1, <2>2, <3>1
  <2>4. CASE AbortEmptyUpload
    <3>1. objects'[segmentIndex] = <<>> /\ parts \o part = <<>>
      BY <2>1, <2>4 DEF AbortEmptyUpload, StoreInv, NoObject
    <3> QED
      BY <2>1, <2>2, <3>1
  <2> QED
    BY <2>1, <2>3, <2>4 DEF CloseAgain
<1> QED
  BY <1>1, <1>2 DEF PendingInv

LEMMA PendingStep ==
  ASSUME IInv, PendingInv, [Next]_vars
  PROVE  PendingInv'
<1>0. /\ TypeOK /\ OperationInv /\ StoreInv
      /\ ~faults => ReliableCalls /\ ReliableContent
  BY DEF IInv
<1>a. open /\ s3Closed => rtpClosed
  BY DEF PendingInv
<1>1. CASE WritePacket
  BY <1>a, <1>1, PendingSame DEF WritePacket, Begin, trackVars, writerVars, uploadVars
<1>2. ASSUME NEW t \in Times, RotateAt(t) PROVE PendingInv'
  BY <1>a, <1>2, PendingSame DEF RotateAt, Begin, trackVars, writerVars, uploadVars
<1>3. ASSUME NEW t \in Times, CloseAt(t) PROVE PendingInv'
  BY <1>a, <1>3, PendingSame DEF CloseAt, Begin, writerVars, uploadVars
<1>4. CASE AppendPacket
  BY <1>0, <1>4, PendingAppended
<1>5. CASE CloseRtp
  <2>1. pc' # "start" /\ rtpClosed' /\ UNCHANGED <<s3Closed, packetCount, segmentPackets>>
    BY <1>5 DEF CloseRtp, Return, trackVars
  <2>2. Flushed \/ FlushFailed \/ UNCHANGED <<buffer, part, parts>>
    BY <1>5 DEF CloseRtp
  <2> QED
    BY <1>0, <2>1, <2>2, PendingFlush, PendingSame
<1>6. CASE SkipClose
  <2>1. faults /\ UNCHANGED faults
    BY <1>0, <1>6 DEF SkipClose, ReliableCalls, storeVars
  <2>2. UNCHANGED <<open, s3Closed, rtpClosed, parts, part, buffer, packetCount, segmentPackets>>
    BY <1>6 DEF SkipClose, trackVars, writerVars, uploadVars
  <2> QED
    BY <2>1, <2>2 DEF PendingInv, Pending
<1>7. CASE CompleteUpload
  BY <1>0, <1>7, PendingEnded
<1>8. CASE AbortEmptyUpload
  BY <1>0, <1>8, PendingEnded
<1>9. CASE UploadFails
  BY <1>0, <1>9 DEF UploadFails, CloseFailed, Return, OperationInv, PendingInv, writerVars
<1>10. CASE CloseAgain
  BY <1>0, <1>10, PendingEnded
<1>11. CASE StartSegment
  BY <1>0, <1>11, PendingStarted
<1>12. CASE FlushTick
  <2>1. UNCHANGED <<open, rtpClosed, s3Closed, packetCount, segmentPackets, pc, faults, objects,
                    segmentIndex>>
        /\ (Flushed \/ FlushFailed) /\ open
    BY <1>12 DEF FlushTick, trackVars, callVars, storeVars
  <2>2. pc # "start"
    BY <1>0, <2>1 DEF OperationInv
  <2> QED
    BY <1>0, <1>a, <2>1, <2>2, PendingFlush
<1>13. CASE Tick
  BY <1>a, <1>13, PendingSame DEF Tick, trackVars, writerVars, uploadVars, callVars
<1>14. CASE UNCHANGED vars
  BY <1>14 DEF PendingInv, Pending, vars, trackVars, writerVars, uploadVars, callVars, storeVars
<1> QED
  BY <1>1, <1>2, <1>3, <1>4, <1>5, <1>6, <1>7, <1>8, <1>9, <1>10, <1>11, <1>12, <1>13, <1>14
     DEF Next, Step

-----------------------------------------------------------------------------
(* Refinement of TrackContract                                              *)

(* The object that CompleteUpload or a completion that only seems to fail   *)
(* leaves in the store is one the contract allows, or has no packet at all. *)
LEMMA ObjectKept ==
  ASSUME TypeOK, StoreInv, PendingInv, ~faults => ReliableCalls /\ ReliableContent,
         pc = "closeS3", open, ~s3Closed,
         objects' = [objects EXCEPT ![segmentIndex] = parts \o part],
         UNCHANGED <<faults, packetCount, segmentPackets, segmentIndex, closed>>
  PROVE  Contract!Store \/ UNCHANGED Contract!vars
<1> DEFINE kept == PacketsOf(parts \o part)
           rest == PacketsOf(buffer)
           low == packetCount - segmentPackets + 1
           n == Len(kept)
           before == [i \in Indexes |-> PacketsOf(objects[i])]
<1>1. /\ kept \in Seq(Packets) /\ rest \in Seq(Packets) /\ PacketsOf(Pending) = kept \o rest
      /\ packetCount \in Nat /\ segmentPackets \in Nat /\ low \in Int
      /\ segmentIndex \in Indexes
  BY PendingPackets, ListFacts DEF TypeOK
<1>2. Ascending(kept \o rest, low, packetCount) /\ Len(kept \o rest) <= segmentPackets
  <2> HIDE DEF kept, rest
  <2> QED
    BY <1>1 DEF PendingInv
<1>3. Ascending(kept, low, packetCount) /\ n <= Len(kept \o rest)
  <2> HIDE DEF kept, rest, low
  <2> QED
    BY <1>1, <1>2, AscendingPrefix DEF n
<1>4. n \in Nat /\ n <= segmentPackets
  <2>1. n \in Nat /\ Len(kept \o rest) \in Nat
    <3> HIDE DEF kept, rest
    <3> QED
      BY <1>1, ConcatProperties, LenProperties DEF n
  <2> HIDE DEF n, kept, rest
  <2> QED
    BY <1>1, <1>2, <1>3, <2>1
<1>5. ~faults => n = segmentPackets
  <2> SUFFICES ASSUME ~faults PROVE n = segmentPackets
    OBVIOUS
  <2>1. buffer = <<>> /\ Len(PacketsOf(Pending)) = segmentPackets
    BY DEF ReliableCalls, ReliableContent
  <2>2. rest = <<>>
    BY <2>1, PacketsEmpty
  <2> HIDE DEF kept, rest
  <2>3. kept \o rest = kept
    BY <1>1, <2>2, ConcatEmptySeq
  <2> QED
    BY <1>1, <2>1, <2>3
<1>6. kept \in [1..n -> low..packetCount] /\ \A i, j \in 1..n : i < j => kept[i] < kept[j]
  <2>1. DOMAIN kept = 1..n /\ kept = [i \in 1..n |-> kept[i]]
    <3> HIDE DEF kept
    <3> QED
      BY <1>1, LenProperties
  <2> HIDE DEF low, kept
  <2> QED
    BY <1>3, <2>1 DEF Ascending
<1>7. before[segmentIndex] = <<>>
  BY <1>1, PacketsEmpty DEF StoreInv, NoObject
<1>8. [i \in Indexes |-> PacketsOf(objects'[i])] = [before EXCEPT ![segmentIndex] = kept]
  <2>1. ASSUME NEW i \in Indexes
        PROVE  PacketsOf(objects'[i]) = IF i = segmentIndex THEN kept ELSE before[i]
    BY <2>1 DEF TypeOK
  <2> HIDE DEF kept
  <2> QED
    BY <2>1
<1>9. CASE n = 0
  <2>1. kept = <<>>
    <3> HIDE DEF kept
    <3> QED
      BY <1>1, <1>9, EmptySeq
  <2> HIDE DEF kept, n
  <2>2. [before EXCEPT ![segmentIndex] = kept] = before
    BY <1>1, <1>7, <2>1
  <2> QED
    BY <1>8, <2>2 DEF Contract!vars
<1>10. CASE n # 0
  <2>1. n \in 1..segmentPackets /\ packetCount - low + 1 = segmentPackets
    <3> HIDE DEF n
    <3> QED
      BY <1>1, <1>4, <1>10
  <2>2. \E m \in 1..segmentPackets : \E k \in [1..m -> low..packetCount] :
          /\ \A i, j \in 1..m : i < j => k[i] < k[j]
          /\ faults \/ m = segmentPackets
          /\ [i \in Indexes |-> PacketsOf(objects'[i])] = [before EXCEPT ![segmentIndex] = k]
    <3> HIDE DEF n, kept, low, before
    <3> QED
      BY <1>5, <1>6, <1>8, <2>1
  <2> HIDE DEF n, kept
  <2> QED
    BY <1>7, <2>1, <2>2 DEF Contract!Store, Contract!Unstored, Contract!NothingStored,
                            Contract!CurrentPackets
<1> QED
  BY <1>9, <1>10

LEMMA AppendAccepted ==
  ASSUME TypeOK, OperationInv, StoreInv, PendingInv, AppendPacket
  PROVE  Contract!Accept \/ UNCHANGED Contract!vars
<1>1. UNCHANGED <<faults, segmentIndex, closed, objects>> /\ pc = "append"
  BY DEF AppendPacket, storeVars
<1>2. CASE open /\ ~rtpClosed
  <2>1. ~s3Closed /\ ~closed /\ packetCount < MaxPackets /\ packetCount \in Nat
        /\ segmentPackets \in Nat /\ segmentIndex \in Indexes
    BY <1>1, <1>2, ListFacts DEF PendingInv, OperationInv, TypeOK
  <2>2. PacketsOf(objects[segmentIndex]) = <<>>
    BY <2>1, PacketsEmpty DEF StoreInv, NoObject
  <2>3. packetCount' = packetCount + 1 /\ segmentPackets' = segmentPackets + 1
    BY <1>2 DEF AppendPacket
  <2>4. packetCount' - segmentPackets' + 1 = packetCount - segmentPackets + 1
    BY <2>1, <2>3
  <2> QED
    BY <1>1, <2>1, <2>2, <2>3, <2>4
       DEF Contract!Accept, Contract!Unstored, Contract!NothingStored
<1>3. CASE ~open \/ rtpClosed
  BY <1>1, <1>3 DEF AppendPacket, Contract!vars
<1> QED
  BY <1>2, <1>3

LEMMA StartAdvances ==
  ASSUME TypeOK, OperationInv, PendingInv, StartSegment
  PROVE  Contract!NextSegment
<1>1. /\ ~closed /\ pc = "start" /\ UNCHANGED <<faults, packetCount, closed, objects>>
      /\ segmentIndex' = segmentIndex + 1 /\ segmentIndex + 1 <= MaxSegments
  BY DEF StartSegment, OperationInv, NextSegment
<1>2. /\ packetCount \in Nat /\ segmentPackets \in Nat /\ segmentIndex \in Nat
      /\ segmentIndex \in Indexes /\ MaxSegments \in Nat
  BY ListFacts, Constants DEF TypeOK
<1>3. segmentIndex < MaxSegments
  BY <1>1, <1>2
<1>4. faults \/ packetCount - segmentPackets + 1 > packetCount
      \/ PacketsOf(objects[segmentIndex]) # <<>>
  <2> SUFFICES ASSUME ~faults, PacketsOf(objects[segmentIndex]) = <<>>
               PROVE  packetCount - segmentPackets + 1 > packetCount
    OBVIOUS
  <2>1. Len(PacketsOf(objects[segmentIndex])) = segmentPackets
    BY <1>1 DEF PendingInv
  <2>2. segmentPackets = 0
    BY <2>1
  <2> QED
    BY <1>2, <2>2
<1>5. \/ packetCount' - segmentPackets' + 1 = packetCount + 1
      \/ faults /\ packetCount' - segmentPackets' + 1 = packetCount - segmentPackets + 1
  <2>1. CASE segmentPackets' = 0
    BY <1>1, <1>2, <2>1
  <2>2. CASE faults /\ UNCHANGED segmentPackets
    BY <1>1, <2>2
  <2> QED
    BY <2>1, <2>2 DEF StartSegment
<1> QED
  BY <1>1, <1>2, <1>3, <1>4, <1>5
     DEF Contract!NextSegment, Contract!Unstored, Contract!NothingStored

LEMMA StepRefines ==
  ASSUME IInv, PendingInv, [Next]_vars
  PROVE  [Contract!Next]_Contract!vars
<1> SUFFICES Contract!Next \/ UNCHANGED Contract!vars
  OBVIOUS
<1>1. /\ TypeOK /\ OperationInv /\ StoreInv
      /\ ~faults => ReliableCalls /\ ReliableContent
  BY DEF IInv
<1>2. ASSUME UNCHANGED <<faults, packetCount, segmentPackets, segmentIndex, closed, objects>>
      PROVE  UNCHANGED Contract!vars
  BY <1>2 DEF Contract!vars
<1>3. CASE WritePacket
  BY <1>2, <1>3 DEF WritePacket, Begin, trackVars, storeVars
<1>4. ASSUME NEW t \in Times, RotateAt(t) PROVE UNCHANGED Contract!vars
  BY <1>2, <1>4 DEF RotateAt, Begin, trackVars, storeVars
<1>5. ASSUME NEW t \in Times, CloseAt(t) PROVE Contract!Close
  BY <1>5 DEF CloseAt, CanCall, Begin, storeVars, Contract!Close
<1>6. CASE AppendPacket
  BY <1>1, <1>6, AppendAccepted DEF Contract!Next
<1>7. CASE CloseRtp
  BY <1>2, <1>7 DEF CloseRtp, trackVars, storeVars
<1>8. CASE SkipClose
  BY <1>2, <1>8 DEF SkipClose, trackVars, storeVars
<1>9. CASE CompleteUpload
  <2>1. /\ pc = "closeS3" /\ open /\ ~s3Closed
        /\ objects' = [objects EXCEPT ![segmentIndex] = parts \o part]
        /\ UNCHANGED <<faults, packetCount, segmentPackets, segmentIndex, closed>>
    BY <1>1, <1>9 DEF CompleteUpload, EndSegment, OperationInv
  <2> QED
    BY <1>1, <2>1, ObjectKept DEF Contract!Next
<1>10. CASE AbortEmptyUpload
  BY <1>2, <1>10 DEF AbortEmptyUpload, EndSegment
<1>11. CASE UploadFails
  <2>1. /\ pc = "closeS3" /\ open /\ ~s3Closed
        /\ UNCHANGED <<faults, packetCount, segmentPackets, segmentIndex, closed>>
    BY <1>1, <1>11 DEF UploadFails, CloseFailed, OperationInv, trackVars
  <2>2. objects' = [objects EXCEPT ![segmentIndex] = parts \o part] \/ UNCHANGED objects
    BY <1>11 DEF UploadFails
  <2> QED
    BY <1>1, <1>2, <2>1, <2>2, ObjectKept DEF Contract!Next
<1>12. CASE CloseAgain
  BY <1>2, <1>12 DEF CloseAgain, EndSegment, storeVars
<1>13. CASE StartSegment
  BY <1>1, <1>13, StartAdvances DEF Contract!Next
<1>14. CASE FlushTick
  BY <1>2, <1>14 DEF FlushTick, trackVars, storeVars
<1>15. CASE Tick
  BY <1>2, <1>15 DEF Tick, trackVars, storeVars
<1>16. CASE UNCHANGED vars
  BY <1>2, <1>16 DEF vars, trackVars, storeVars
<1> QED
  BY <1>3, <1>4, <1>5, <1>6, <1>7, <1>8, <1>9, <1>10, <1>11, <1>12, <1>13, <1>14, <1>15, <1>16
     DEF Next, Step, Contract!Next

LEMMA InitRefines == Init => PendingInv /\ Contract!Init
<1> SUFFICES ASSUME Init PROVE PendingInv /\ Contract!Init
  OBVIOUS
<1>1. Pending = <<>>
  <2>1. <<>> \o <<>> = <<>>
    OBVIOUS
  <2> QED
    BY <2>1 DEF Init, Pending
<1>2. PacketsOf(Pending) = <<>> /\ Len(<<>>) = 0
  BY <1>1, PacketsEmpty
<1>3. Ascending(<<>>, 1, 0)
  BY DEF Ascending
<1>4. 0 - 0 + 1 = 1
  OBVIOUS
<1>5. PendingInv
  <2> HIDE DEF Pending
  <2> QED
    BY <1>2, <1>3, <1>4 DEF Init, PendingInv
<1>6. [i \in Indexes |-> PacketsOf(objects[i])] = [i \in 1..MaxSegments |-> <<>>]
  BY PacketsEmpty, Constants DEF Init, NoObject
<1> QED
  BY <1>4, <1>5, <1>6 DEF Init, Contract!Init, Contract!NothingStored

(* A track keeps the contract of TrackContract, whatever its packets and    *)
(* limits are and whatever its store does: Close of the S3StreamWriter      *)
(* stores the packets WritePacket accepted in the segment, each once and in *)
(* order, all of them as long as no request fails; nothing ever replaces an *)
(* object; and a closed track neither accepts packets nor opens segments.   *)
THEOREM TrackImplementsContract == Spec => ImplementsTrackContract
<1>1. Init => PendingInv /\ Contract!Init
  BY InitRefines
<1>2. IInv /\ PendingInv /\ [Next]_vars => PendingInv'
  BY PendingStep
<1>3. IInv /\ PendingInv /\ [Next]_vars => [Contract!Next]_Contract!vars
  BY StepRefines
<1> QED
  BY <1>1, <1>2, <1>3, TrackInvariant, PTL
     DEF Spec, ImplementsTrackContract, Contract!Spec

-----------------------------------------------------------------------------
(* Reading the objects                                                      *)

Shaped(items) == \A k \in 2..Len(items) : items[k] # Header
Headed(items) == items # <<>> => items[1] = Header

(* A header is only ever the first item of a segment, and with a reliable   *)
(* store it is there.                                                       *)
ShapeInv ==
  /\ ~s3Closed => /\ Shaped(Pending)
                  /\ segmentPackets = 0 => Pending = <<>>
                  /\ ~faults => Headed(Pending)
  /\ \A i \in Indexes : Shaped(objects[i]) /\ (~faults => Headed(objects[i]))

LEMMA ShapedPrefix ==
  ASSUME NEW a \in Seq(Items), NEW b \in Seq(Items)
  PROVE  /\ Shaped(a \o b) => Shaped(a)
         /\ Headed(a \o b) => Headed(a)
         /\ a \o b = <<>> => a = <<>> /\ b = <<>>
<1>1. /\ Len(a) \in Nat /\ Len(b) \in Nat /\ Len(a \o b) = Len(a) + Len(b)
      /\ \A i \in 1..Len(a) + Len(b) : (a \o b)[i] = IF i <= Len(a) THEN a[i] ELSE b[i - Len(a)]
      /\ a \o b \in Seq(Items)
  BY ConcatProperties, LenProperties
<1>2. \A i \in 1..Len(a) : (a \o b)[i] = a[i] /\ i \in 1..Len(a \o b)
  BY <1>1
<1>3. Shaped(a \o b) => Shaped(a)
  <2>1. \A k \in 2..Len(a) : k \in 1..Len(a) /\ k \in 2..Len(a \o b)
    BY <1>1
  <2> QED
    BY <1>2, <2>1 DEF Shaped
<1>4. Headed(a \o b) => Headed(a)
  <2> SUFFICES ASSUME Headed(a \o b), a # <<>> PROVE a[1] = Header
    BY DEF Headed
  <2>1. Len(a) # 0
    BY EmptySeq
  <2>2. 1 \in 1..Len(a)
    BY <1>1, <2>1
  <2>3. Len(a \o b) # 0
    BY <1>1, <2>1
  <2>4. a \o b # <<>>
    BY <2>3, EmptySeq
  <2> QED
    BY <1>2, <2>2, <2>4 DEF Headed
<1>5. a \o b = <<>> => a = <<>> /\ b = <<>>
  <2> SUFFICES ASSUME a \o b = <<>> PROVE a = <<>> /\ b = <<>>
    OBVIOUS
  <2>1. Len(a \o b) = 0
    BY EmptySeq
  <2>2. Len(a) = 0 /\ Len(b) = 0
    BY <1>1, <2>1
  <2> QED
    BY <2>2, EmptySeq
<1> QED
  BY <1>3, <1>4, <1>5

LEMMA ShapedDrop ==
  ASSUME NEW a \in Seq(Items), NEW b \in Seq(Items), NEW c \in Seq(Items),
         Shaped((a \o b) \o c)
  PROVE  Shaped(a \o c)
<1> DEFINE x == (a \o b) \o c
           y == a \o c
<1>1. /\ Len(a) \in Nat /\ Len(b) \in Nat /\ Len(c) \in Nat
      /\ a \o b \in Seq(Items) /\ Len(a \o b) = Len(a) + Len(b)
      /\ \A i \in 1..Len(a) + Len(b) : (a \o b)[i] = IF i <= Len(a) THEN a[i] ELSE b[i - Len(a)]
      /\ Len(y) = Len(a) + Len(c)
      /\ \A i \in 1..Len(a) + Len(c) : y[i] = IF i <= Len(a) THEN a[i] ELSE c[i - Len(a)]
  BY ConcatProperties, LenProperties
<1>2. /\ Len(x) = (Len(a) + Len(b)) + Len(c)
      /\ \A i \in 1..(Len(a) + Len(b)) + Len(c) :
           x[i] = IF i <= Len(a) + Len(b) THEN (a \o b)[i] ELSE c[i - (Len(a) + Len(b))]
  <2>1. /\ Len(x) = Len(a \o b) + Len(c)
        /\ \A i \in 1..Len(a \o b) + Len(c) :
             x[i] = IF i <= Len(a \o b) THEN (a \o b)[i] ELSE c[i - Len(a \o b)]
    BY <1>1, ConcatProperties
  <2> QED
    BY <1>1, <2>1
<1>3. \A k \in 2..Len(x) : x[k] # Header
  BY DEF Shaped
<1> HIDE DEF x, y
<1>4. ASSUME NEW k \in 2..Len(y) PROVE y[k] # Header
  <2>1. CASE k <= Len(a)
    <3>1. /\ k \in 1..Len(a) + Len(c) /\ k \in 1..Len(a) + Len(b)
          /\ k \in 1..(Len(a) + Len(b)) + Len(c) /\ k <= Len(a) + Len(b) /\ k \in 2..Len(x)
      BY <1>1, <1>2, <2>1
    <3>2. y[k] = a[k] /\ x[k] = a[k]
      BY <1>1, <1>2, <2>1, <3>1
    <3> QED
      BY <1>3, <3>1, <3>2
  <2>2. CASE ~(k <= Len(a))
    <3> DEFINE j == k + Len(b)
    <3>1. /\ k \in 1..Len(a) + Len(c) /\ j \in 1..(Len(a) + Len(b)) + Len(c)
          /\ ~(j <= Len(a) + Len(b)) /\ j - (Len(a) + Len(b)) = k - Len(a) /\ j \in 2..Len(x)
      BY <1>1, <1>2, <2>2
    <3> HIDE DEF j
    <3>2. y[k] = c[k - Len(a)]
      BY <1>1, <2>2, <3>1
    <3>3. x[j] = c[k - Len(a)]
      BY <1>2, <3>1
    <3> QED
      BY <1>3, <3>1, <3>2, <3>3
  <2> QED
    BY <2>1, <2>2
<1> QED
  BY <1>4 DEF Shaped, y

LEMMA ShapedAppend ==
  ASSUME NEW x \in Seq(Items), NEW n \in Packets, Shaped(x)
  PROVE  /\ Shaped(Append(x, n)) /\ Append(x, n) # <<>>
         /\ Headed(x) /\ x # <<>> => Headed(Append(x, n))
<1> DEFINE y == Append(x, n)
<1>1. /\ n # Header /\ n \in Items /\ Len(x) \in Nat
      /\ Len(y) = Len(x) + 1 /\ y[Len(x) + 1] = n /\ \A i \in 1..Len(x) : y[i] = x[i]
  BY Constants, AppendProperties, LenProperties
<1> HIDE DEF y
<1>2. Shaped(y)
  <2> SUFFICES ASSUME NEW k \in 2..Len(y) PROVE y[k] # Header
    BY DEF Shaped
  <2>1. CASE k = Len(x) + 1
    BY <1>1, <2>1
  <2>2. CASE k # Len(x) + 1
    <3>1. k \in 2..Len(x) /\ k \in 1..Len(x)
      BY <1>1, <2>2
    <3> QED
      BY <1>1, <3>1 DEF Shaped
  <2> QED
    BY <2>1, <2>2
<1>3. y # <<>>
  <2>1. Len(y) # 0
    BY <1>1
  <2> QED
    BY <2>1, EmptySeq
<1>4. ASSUME Headed(x), x # <<>> PROVE Headed(y)
  <2>1. Len(x) # 0
    BY <1>4, EmptySeq
  <2>2. 1 \in 1..Len(x)
    BY <1>1, <2>1
  <2> QED
    BY <1>1, <1>4, <2>2 DEF Headed
<1> QED
  BY <1>2, <1>3, <1>4 DEF y

LEMMA ShapeSame ==
  ASSUME ShapeInv, UNCHANGED <<s3Closed, parts, part, buffer, segmentPackets, objects, faults>>
  PROVE  ShapeInv'
BY DEF ShapeInv, Pending

LEMMA ShapeFlush ==
  ASSUME TypeOK, ShapeInv, Flushed \/ FlushFailed,
         UNCHANGED <<s3Closed, segmentPackets, objects, faults>>
  PROVE  ShapeInv'
<1>1. CASE Flushed
  <2>1. Pending' = Pending
    BY <1>1, FlushedPending
  <2> HIDE DEF Pending
  <2> QED
    BY <2>1 DEF ShapeInv
<1>2. CASE FlushFailed /\ s3Closed
  BY <1>2, ShapeSame DEF FlushFailed
<1>3. CASE FlushFailed /\ ~s3Closed
  <2>1. /\ parts \in Seq(Items) /\ part \in Seq(Items) /\ buffer \in Seq(Items)
        /\ part' = <<>> /\ parts' = parts /\ buffer' = buffer /\ ~s3Closed' /\ faults
    BY <1>3, ContentTypes DEF FlushFailed
  <2>2. Pending' = parts \o buffer
    <3>1. parts \o <<>> = parts
      BY <2>1, ConcatEmptySeq
    <3> QED
      BY <2>1, <3>1 DEF Pending
  <2>3. Pending = (parts \o part) \o buffer
    BY <1>3 DEF Pending
  <2>4. Shaped(parts \o buffer)
    BY <1>3, <2>1, <2>3, ShapedDrop DEF ShapeInv
  <2>5. ASSUME segmentPackets = 0 PROVE parts \o buffer = <<>>
    <3>1. (parts \o part) \o buffer = <<>>
      BY <1>3, <2>3, <2>5 DEF ShapeInv
    <3>2. parts \o part = <<>> /\ buffer = <<>>
      <4>1. parts \o part \in Seq(Items)
        BY ContentTypes
      <4> QED
        BY <2>1, <3>1, <4>1, ShapedPrefix
    <3>3. parts = <<>>
      BY <2>1, <3>2, ShapedPrefix
    <3> QED
      BY <3>2, <3>3
  <2> HIDE DEF Pending
  <2> QED
    BY <2>1, <2>2, <2>4, <2>5 DEF ShapeInv
<1> QED
  BY <1>1, <1>2, <1>3

LEMMA ShapeAppended ==
  ASSUME TypeOK, OperationInv, ~faults => ReliableContent, PendingInv, ShapeInv, AppendPacket
  PROVE  ShapeInv'
<1>0. UNCHANGED <<s3Closed, part, parts, objects, faults>>
  BY DEF AppendPacket, uploadVars, storeVars
<1>1. CASE open /\ ~rtpClosed
  <2>1. /\ NextPacket \in Packets /\ NextPacket \in Items /\ Header \in Items
        /\ segmentPackets \in Nat /\ segmentPackets' = segmentPackets + 1
        /\ buffer' = buffer \o HeaderDue \o <<NextPacket>>
        /\ Pending \in Seq(Items) /\ buffer \in Seq(Items) /\ parts \o part \in Seq(Items)
    <3>1. packetCount \in 0..MaxPackets /\ packetCount < MaxPackets /\ segmentPackets \in Nat
      BY <1>1 DEF TypeOK, OperationInv, AppendPacket
    <3>2. NextPacket \in Packets
      BY <3>1, Constants DEF NextPacket, Packets
    <3> QED
      BY <1>1, <3>1, <3>2, Constants, ContentTypes DEF AppendPacket
  <2>2. SUFFICES ASSUME ~s3Closed
                 PROVE  Shaped(Pending') /\ Pending' # <<>> /\ (~faults => Headed(Pending'))
    <3>1. segmentPackets' # 0
      BY <2>1
    <3> HIDE DEF Pending
    <3> QED
      BY <1>0, <2>2, <3>1 DEF ShapeInv
  <2>3. Pending = (parts \o part) \o buffer /\ Pending' = (parts \o part) \o buffer'
    BY <1>0, <2>2 DEF Pending
  <2>4. CASE segmentPackets = 0
    <3>1. parts \o part = <<>> /\ buffer = <<>>
      <4>1. (parts \o part) \o buffer = <<>>
        BY <2>2, <2>3, <2>4 DEF ShapeInv
      <4> QED
        BY <2>1, <4>1, ShapedPrefix
    <3>2. <<Header>> \in Seq(Items) /\ Shaped(<<Header>>) /\ Headed(<<Header>>)
          /\ <<Header>> # <<>>
      <4>1. Len(<<Header>>) = 1 /\ <<Header>>[1] = Header /\ 2..1 = {}
        OBVIOUS
      <4> QED
        BY <2>1, <4>1 DEF Shaped, Headed
    <3>3. Pending' = Append(<<Header>>, NextPacket)
      <4>1. HeaderDue = <<Header>>
        BY <2>4 DEF HeaderDue
      <4>2. buffer' = (<<>> \o <<Header>>) \o <<NextPacket>>
        BY <2>1, <3>1, <4>1
      <4>3. <<>> \o <<Header>> = <<Header>>
        BY <3>2, ConcatEmptySeq
      <4>4. <<Header>> \o <<NextPacket>> = Append(<<Header>>, NextPacket)
        BY <2>1, <3>2
      <4>5. Append(<<Header>>, NextPacket) \in Seq(Items)
        BY <2>1, <3>2, AppendProperties
      <4>6. Pending' = <<>> \o Append(<<Header>>, NextPacket)
        BY <2>3, <3>1, <4>2, <4>3, <4>4
      <4> QED
        BY <4>5, <4>6, ConcatEmptySeq
    <3> HIDE DEF Pending
    <3> QED
      BY <2>1, <3>2, <3>3, ShapedAppend
  <2>5. CASE segmentPackets # 0
    <3>1. Pending' = Append(Pending, NextPacket)
      <4>1. HeaderDue = <<>>
        BY <2>5 DEF HeaderDue
      <4>2. buffer \o <<>> = buffer
        BY <2>1, ConcatEmptySeq
      <4>3. buffer' = buffer \o <<NextPacket>>
        BY <2>1, <4>1, <4>2
      <4>4. <<NextPacket>> \in Seq(Items)
        BY <2>1
      <4>5. ((parts \o part) \o buffer) \o <<NextPacket>>
            = (parts \o part) \o (buffer \o <<NextPacket>>)
        BY ONLY <2>1, <4>4, Regroup
      <4>6. Pending' = Pending \o <<NextPacket>>
        BY <2>3, <4>3, <4>5
      <4> HIDE DEF Pending
      <4> QED
        BY <2>1, <4>6
    <3>2. ASSUME ~faults PROVE Headed(Pending) /\ Pending # <<>>
      <4>1. Len(PacketsOf(Pending)) = segmentPackets
        BY <1>1, <3>2 DEF ReliableContent
      <4>2. PacketsOf(<<>>) = <<>> /\ Len(<<>>) = 0
        BY PacketsEmpty
      <4> HIDE DEF Pending
      <4> QED
        BY <2>2, <2>5, <3>2, <4>1, <4>2 DEF ShapeInv
    <3>3. Shaped(Pending)
      BY <2>2 DEF ShapeInv
    <3> HIDE DEF Pending
    <3> QED
      BY <2>1, <3>1, <3>2, <3>3, ShapedAppend
  <2> QED
    BY <2>4, <2>5
<1>2. CASE ~open \/ rtpClosed
  <2>1. UNCHANGED <<buffer, segmentPackets>>
    BY <1>2 DEF AppendPacket
  <2> QED
    BY <1>0, <2>1, ShapeSame
<1> QED
  BY <1>1, <1>2

(* Close of the S3StreamWriter: a beginning of what was pending is stored,  *)
(* or nothing.                                                              *)
LEMMA ShapeClosed ==
  ASSUME TypeOK, ShapeInv, CompleteUpload \/ AbortEmptyUpload \/ UploadFails \/ CloseAgain
  PROVE  ShapeInv'
<1>1. s3Closed' /\ UNCHANGED faults
  BY DEF CompleteUpload, AbortEmptyUpload, UploadFails, CloseAgain, uploadVars, storeVars
<1>2. CASE UNCHANGED objects
  BY <1>1, <1>2 DEF ShapeInv
<1>3. CASE ~s3Closed /\ objects' = [objects EXCEPT ![segmentIndex] = parts \o part]
  <2>1. /\ parts \o part \in Seq(Items) /\ buffer \in Seq(Items)
        /\ Pending = (parts \o part) \o buffer
    BY <1>3, ContentTypes DEF Pending
  <2>2. Shaped(parts \o part) /\ (~faults => Headed(parts \o part))
    BY <1>3, <2>1, ShapedPrefix DEF ShapeInv
  <2>3. \A i \in Indexes : objects'[i] = objects[i] \/ objects'[i] = parts \o part
    BY <1>3 DEF TypeOK
  <2>4. \A i \in Indexes : Shaped(objects[i]) /\ (~faults => Headed(objects[i]))
    BY DEF ShapeInv
  <2>5. \A i \in Indexes : Shaped(objects'[i]) /\ (~faults' => Headed(objects'[i]))
    BY <1>1, <2>2, <2>3, <2>4
  <2> QED
    BY <1>1, <2>5 DEF ShapeInv
<1> QED
  BY <1>2, <1>3 DEF CompleteUpload, AbortEmptyUpload, UploadFails, CloseAgain, storeVars

LEMMA ShapeStarted ==
  ASSUME ShapeInv, StartSegment
  PROVE  ShapeInv'
<1>0. UNCHANGED <<objects, faults>>
  BY DEF StartSegment
<1>1. CASE NewS3StreamWriter /\ NewRtpWriter
  <2>1. Pending' = <<>>
    <3>1. <<>> \o <<>> = <<>>
      OBVIOUS
    <3> QED
      BY <1>1, <3>1 DEF Pending, NewS3StreamWriter, NewRtpWriter
  <2>2. Shaped(<<>>) /\ Headed(<<>>)
    BY DEF Shaped, Headed
  <2> HIDE DEF Pending
  <2> QED
    BY <1>0, <2>1, <2>2 DEF ShapeInv
<1>2. CASE UNCHANGED <<segmentPackets, writerVars, uploadVars>>
  BY <1>0, <1>2, ShapeSame DEF writerVars, uploadVars
<1> QED
  BY <1>1, <1>2 DEF StartSegment

LEMMA ShapeStep ==
  ASSUME IInv, PendingInv, ShapeInv, [Next]_vars
  PROVE  ShapeInv'
<1>0. TypeOK /\ OperationInv /\ (~faults => ReliableContent)
  BY DEF IInv
<1>1. CASE WritePacket
  BY <1>1, ShapeSame DEF WritePacket, Begin, trackVars, writerVars, uploadVars, storeVars
<1>2. ASSUME NEW t \in Times, RotateAt(t) PROVE ShapeInv'
  BY <1>2, ShapeSame DEF RotateAt, Begin, trackVars, writerVars, uploadVars, storeVars
<1>3. ASSUME NEW t \in Times, CloseAt(t) PROVE ShapeInv'
  BY <1>3, ShapeSame DEF CloseAt, Begin, writerVars, uploadVars, storeVars
<1>4. CASE AppendPacket
  BY <1>0, <1>4, ShapeAppended
<1>5. CASE CloseRtp
  <2>1. UNCHANGED <<s3Closed, segmentPackets, objects, faults>>
    BY <1>5 DEF CloseRtp, trackVars, storeVars
  <2>2. Flushed \/ FlushFailed \/ UNCHANGED <<buffer, part, parts>>
    BY <1>5 DEF CloseRtp
  <2> QED
    BY <1>0, <2>1, <2>2, ShapeFlush, ShapeSame
<1>6. CASE SkipClose
  BY <1>6, ShapeSame DEF SkipClose, trackVars, writerVars, uploadVars, storeVars
<1>7. CASE CompleteUpload \/ AbortEmptyUpload \/ UploadFails \/ CloseAgain
  BY <1>0, <1>7, ShapeClosed
<1>8. CASE StartSegment
  BY <1>8, ShapeStarted
<1>9. CASE FlushTick
  <2>1. UNCHANGED <<s3Closed, segmentPackets, objects, faults>> /\ (Flushed \/ FlushFailed)
    BY <1>9 DEF FlushTick, trackVars, storeVars
  <2> QED
    BY <1>0, <2>1, ShapeFlush
<1>10. CASE Tick
  BY <1>10, ShapeSame DEF Tick, trackVars, writerVars, uploadVars, storeVars
<1>11. CASE UNCHANGED vars
  BY <1>11, ShapeSame DEF vars, trackVars, writerVars, uploadVars, storeVars
<1> QED
  BY <1>1, <1>2, <1>3, <1>4, <1>5, <1>6, <1>7, <1>8, <1>9, <1>10, <1>11 DEF Next, Step

LEMMA PacketsOnly == \A q \in Seq(Packets) : PacketsOf(q) = q
<1> DEFINE S == {q \in Seq(Packets) : PacketsOf(q) = q}
<1>1. S \in SUBSET Seq(Packets) /\ <<>> \in S
  BY PacketsEmpty
<1>2. ASSUME NEW q \in S, NEW n \in Packets PROVE Append(q, n) \in S
  <2>1. q \in Seq(Packets) /\ PacketsOf(q) = q
    OBVIOUS
  <2>2. q \in Seq(Items) /\ n \in Items /\ n # Header
    BY <2>1, Constants
  <2>3. PacketsOf(Append(q, n)) = Append(q, n)
    BY <2>1, <2>2, PacketsAppend DEF Selected
  <2>4. Append(q, n) \in Seq(Packets)
    BY <2>1, AppendProperties
  <2> QED
    BY <2>3, <2>4
<1> HIDE DEF S
<1>3. S = Seq(Packets)
  BY <1>1, <1>2, SequenceInduction
<1> QED
  BY <1>3 DEF S

LEMMA HeaderThenPackets ==
  ASSUME NEW items \in Seq(Items), items # <<>>, items[1] = Header, Shaped(items)
  PROVE  \E q \in Seq(Packets) : items = <<Header>> \o q /\ PacketsOf(<<Header>> \o q) = q
<1> DEFINE q == [i \in 1..Len(items) - 1 |-> items[i + 1]]
           n == Len(items)
<1>1. n \in Nat /\ n # 0 /\ \A i \in 1..n : items[i] \in Items
  BY LenProperties, ElementOfSeq, EmptySeq
<1>2. q \in Seq(Packets) /\ Len(q) = n - 1 /\ \A i \in 1..n - 1 : q[i] = items[i + 1]
  <2>1. ASSUME NEW i \in 1..n - 1 PROVE items[i + 1] \in Packets
    <3>1. i + 1 \in 2..n /\ i + 1 \in 1..n
      BY <1>1
    <3>2. items[i + 1] \in Items /\ items[i + 1] # Header
      BY <1>1, <3>1 DEF Shaped
    <3> QED
      BY <3>2 DEF Items
  <2>2. n - 1 \in Nat
    BY <1>1
  <2> HIDE DEF n
  <2>3. q \in [1..n - 1 -> Packets] /\ \A i \in 1..n - 1 : q[i] = items[i + 1]
    BY <2>1 DEF n
  <2> HIDE DEF q
  <2> QED
    BY <2>2, <2>3
<1> HIDE DEF q
<1>3. q \in Seq(Items) /\ <<Header>> \in Seq(Items) /\ Len(<<Header>>) = 1
      /\ <<Header>>[1] = Header /\ Header \in Items
  BY <1>2, Constants
<1>4. items = <<Header>> \o q
  <2> DEFINE h == <<Header>>
             y == h \o q
  <2>1. h \in Seq(Items) /\ Len(h) = 1 /\ h[1] = Header
    BY <1>3
  <2> HIDE DEF h
  <2>2. /\ y \in Seq(Items) /\ Len(y) = Len(h) + Len(q)
        /\ \A i \in 1..Len(h) + Len(q) : y[i] = IF i <= Len(h) THEN h[i] ELSE q[i - Len(h)]
    BY <1>3, <2>1, ConcatProperties
  <2> HIDE DEF y, n
  <2>3. Len(y) = n /\ \A i \in 1..n : y[i] = IF i <= 1 THEN h[i] ELSE q[i - 1]
    BY <1>1, <1>2, <2>1, <2>2
  <2>4. ASSUME NEW i \in 1..n PROVE y[i] = items[i]
    <3>1. CASE i = 1
      BY <1>1, <2>1, <2>3, <3>1
    <3>2. CASE i # 1
      <4>1. i - 1 \in 1..n - 1 /\ (i - 1) + 1 = i /\ ~(i <= 1)
        BY <1>1, <3>2
      <4> QED
        BY <1>2, <2>3, <4>1
    <3> QED
      BY <3>1, <3>2
  <2>5. y = items
    BY <2>2, <2>3, <2>4, SeqEqual DEF n
  <2> QED
    BY <2>5 DEF y, h
<1>5. PacketsOf(<<Header>> \o q) = q
  <2>1. PacketsOf(<<Header>>) = <<>>
    <3>1. <<>> \in Seq(Items) /\ <<Header>> = Append(<<>>, Header)
      OBVIOUS
    <3>2. PacketsOf(Append(<<>>, Header)) = Selected(PacketsOf(<<>>), Header)
      BY <1>3, <3>1, PacketsAppend
    <3> QED
      BY <3>1, <3>2, PacketsEmpty DEF Selected
  <2>2. PacketsOf(q) = q
    BY <1>2, PacketsOnly
  <2>3. PacketsOf(<<Header>> \o q) = PacketsOf(<<Header>>) \o PacketsOf(q)
    BY <1>3, PacketsConcat
  <2>4. PacketsOf(<<Header>> \o q) = <<>> \o q
    BY <2>1, <2>2, <2>3
  <2> QED
    BY <1>2, <2>4, ConcatEmptySeq
<1> QED
  BY <1>2, <1>4, <1>5

LEMMA ShapesRead == TypeOK /\ ShapeInv => ObjectsReadable
<1> SUFFICES ASSUME TypeOK, ShapeInv, NEW i \in Indexes, objects[i] # NoObject
             PROVE  /\ ~faults => ReadHeader(File(objects[i]))
                    /\ ReadHeader(File(objects[i])) => ReadsBack(objects[i])
  BY DEF ObjectsReadable
<1> DEFINE o == objects[i]
<1>1. o \in Seq(Items) /\ o # <<>> /\ Shaped(o) /\ (~faults => o[1] = Header)
  BY DEF TypeOK, ShapeInv, Headed, NoObject
<1>2. Packets = Numbers /\ Items = {Header} \cup Numbers
  BY BoundsAssumption DEF Packets, Numbers, Items
<1> HIDE DEF o
<1>3. ASSUME o[1] = Header PROVE ReadHeader(File(o)) /\ ReadsBack(o)
  <2>1. PICK q \in Seq(Packets) : o = <<Header>> \o q /\ PacketsOf(<<Header>> \o q) = q
    BY <1>1, <1>3, HeaderThenPackets
  <2>2. ReadHeader(File(<<Header>> \o q)) /\ ReadsBack(<<Header>> \o q)
    BY <1>2, <2>1, FileReadsBack
  <2> QED
    BY <2>1, <2>2
<1>4. ASSUME ReadHeader(File(o)) PROVE o[1] = Header
  BY <1>1, <1>2, <1>4, HeaderFirst
<1> QED
  BY <1>1, <1>3, <1>4 DEF o

(* However flushes, part uploads, their failures and retries have cut it,   *)
(* an object that starts with the header is read back by rtp.ReadPacket as  *)
(* the packets WritePacket accepted into it, up to the first one too long   *)
(* for its length field; with a reliable store every object starts with the *)
(* header.                                                                  *)
THEOREM TrackObjectsReadable == Spec => []ObjectsReadable
<1>1. Init => PendingInv /\ ShapeInv
  <2> SUFFICES ASSUME Init PROVE ShapeInv
    BY InitRefines
  <2>1. Pending = <<>>
    <3>1. (<<>> \o <<>>) \o <<>> = <<>>
      OBVIOUS
    <3> QED
      BY <3>1 DEF Init, Pending
  <2>2. Shaped(<<>>) /\ Headed(<<>>)
    BY DEF Shaped, Headed
  <2>3. \A i \in Indexes : objects[i] = <<>>
    BY DEF Init, NoObject
  <2> HIDE DEF Pending
  <2> QED
    BY <2>1, <2>2, <2>3 DEF ShapeInv
<1>2. IInv /\ PendingInv /\ [Next]_vars => PendingInv'
  BY PendingStep
<1>3. IInv /\ PendingInv /\ ShapeInv /\ [Next]_vars => ShapeInv'
  BY ShapeStep
<1>4. IInv /\ ShapeInv => ObjectsReadable
  BY ShapesRead DEF IInv
<1> QED
  BY <1>1, <1>2, <1>3, <1>4, TrackInvariant, PTL DEF Spec
===============================================================================
