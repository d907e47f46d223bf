---------------------------- MODULE RtpFileProofs ----------------------------
(***************************************************************************)
(* What ReadHeader and ReadPacket make of the files that rtp.Writer writes, *)
(* for files of any number of packets of any length.                        *)
(***************************************************************************)
EXTENDS RtpFile, SequenceFacts

-----------------------------------------------------------------------------
(* Fields                                                                   *)

Numbers == DOMAIN PayloadLength
AllFields == [field : {"header", "timestamp", "length", "data"}, value : Nat]
Found == [timestamp : Int, data : Seq(Int)]

LEMMA NumbersFacts ==
  /\ 0 \notin Numbers /\ Numbers \subseteq Nat
  /\ \A n \in Numbers : PayloadLength[n] \in Nat /\ StoredLength(n) \in Nat
<1>1. \A n \in Numbers : n \in Nat \ {0} /\ PayloadLength[n] \in Nat
  BY FormatAssumption DEF Numbers
<1>2. 2^LengthBits \in Nat \ {0}
  BY FormatAssumption
<1> DEFINE size == 2^LengthBits
<1>3. size \in Nat \ {0}
  BY <1>2
<1> HIDE DEF size
<1>4. \A n \in Numbers : PayloadLength[n] % size \in Nat
  BY <1>1, <1>3
<1> QED
  BY <1>1, <1>4 DEF StoredLength, size

LEMMA HeaderFields ==
  /\ Fields(Header) \in Seq(AllFields) /\ Len(Fields(Header)) = 1
  /\ Fields(Header)[1].field = "header"
BY DEF Fields, Field, AllFields

LEMMA PacketFields ==
  ASSUME NEW n \in Numbers
  PROVE  /\ Fields(n) \in Seq(AllFields) /\ Len(Fields(n)) = 2 + PayloadLength[n]
         /\ Fields(n)[1] = Field("timestamp", n)
         /\ Fields(n)[2] = Field("length", StoredLength(n))
         /\ \A i \in 1..PayloadLength[n] : Fields(n)[2 + i] = Field("data", n)
<1> DEFINE a == <<Field("timestamp", n), Field("length", StoredLength(n))>>
           b == [i \in 1..PayloadLength[n] |-> Field("data", n)]
           l == PayloadLength[n]
<1>1. l \in Nat /\ n \in Nat /\ n # Header /\ StoredLength(n) \in Nat
  BY NumbersFacts DEF Header
<1>2. Fields(n) = a \o b
  BY <1>1 DEF Fields
<1>3. /\ a \in Seq(AllFields) /\ Len(a) = 2
      /\ a[1] = Field("timestamp", n) /\ a[2] = Field("length", StoredLength(n))
  BY <1>1 DEF Field, AllFields
<1>4. b \in Seq(AllFields) /\ Len(b) = l /\ \A i \in 1..l : b[i] = Field("data", n)
  <2>1. Field("data", n) \in AllFields
    BY <1>1 DEF Field, AllFields
  <2> QED
    BY <1>1, <2>1
<1> HIDE DEF a, b
<1> HIDE DEF l
<1>5. /\ a \o b \in Seq(AllFields) /\ Len(a \o b) = 2 + l
      /\ \A i \in 1..2 + l : (a \o b)[i] = IF i <= 2 THEN a[i] ELSE b[i - 2]
  <2>1. /\ a \o b \in Seq(AllFields) /\ Len(a \o b) = Len(a) + Len(b)
        /\ \A i \in 1..Len(a) + Len(b) : (a \o b)[i] = IF i <= Len(a) THEN a[i] ELSE b[i - Len(a)]
    BY <1>3, <1>4, ConcatProperties
  <2> QED
    BY <1>3, <1>4, <2>1
<1>6. (a \o b)[1] = a[1] /\ (a \o b)[2] = a[2]
  BY <1>1, <1>5
<1>7. ASSUME NEW i \in 1..l PROVE (a \o b)[2 + i] = Field("data", n)
  <2>1. 2 + i \in 1..2 + l /\ ~(2 + i <= 2) /\ (2 + i) - 2 = i
    BY <1>1
  <2> QED
    BY <1>4, <1>5, <2>1
<1> QED
  BY <1>2, <1>3, <1>5, <1>6, <1>7 DEF l

-----------------------------------------------------------------------------
(* Reading                                                                  *)

(* One call of ReadPacket at position p and, in R, those that follow it.    *)
ReadAt(R, file, p) ==
  IF p + 1 > Len(file) THEN <<>>
  ELSE IF file[p].field # "timestamp" \/ file[p + 1].field # "length" THEN <<Misread>>
  ELSE IF p + 2 + file[p + 1].value > Len(file) + 1 THEN <<>>
  ELSE <<Packet(file[p].value, [i \in 1..file[p + 1].value |-> file[p + 1 + i].value])>>
         \o R[p + 2 + file[p + 1].value]

Places(file) == 1..Len(file) + 1
Readings(file) == [Places(file) -> Seq(Found)]

LEMMA FileFacts ==
  ASSUME NEW file \in Seq(AllFields)
  PROVE  /\ Len(file) \in Nat
         /\ \A i \in 1..Len(file) : file[i].value \in Nat
<1>1. \A i \in 1..Len(file) : file[i] \in AllFields
  BY ElementOfSeq
<1> QED
  BY <1>1, LenProperties DEF AllFields

LEMMA ReadAtType ==
  ASSUME NEW file \in Seq(AllFields), NEW R \in Readings(file), NEW p \in Places(file)
  PROVE  ReadAt(R, file, p) \in Seq(Found)
<1>1. /\ Len(file) \in Nat /\ p \in Nat /\ p >= 1 /\ <<>> \in Seq(Found)
      /\ \A i \in 1..Len(file) : file[i].value \in Nat
  BY FileFacts DEF Places
<1>2. <<Misread>> \in Seq(Found)
  BY DEF Misread, Packet, Found
<1>3. ASSUME ~(p + 1 > Len(file)), ~(p + 2 + file[p + 1].value > Len(file) + 1)
      PROVE  <<Packet(file[p].value, [i \in 1..file[p + 1].value |-> file[p + 1 + i].value])>>
               \o R[p + 2 + file[p + 1].value] \in Seq(Found)
  <2> DEFINE l == file[p + 1].value
             d == [i \in 1..l |-> file[p + 1 + i].value]
             n == Len(file)
  <2>1. p \in 1..n /\ p + 1 \in 1..n
    BY <1>1, <1>3
  <2>2. l \in Nat /\ file[p].value \in Nat
    BY <1>1, <2>1
  <2>3. p + 2 + l \in Places(file) /\ \A i \in 1..l : p + 1 + i \in 1..n
    <3>1. n \in Nat /\ p + 2 + l <= n + 1
      BY <1>1, <1>3, <2>2
    <3> HIDE DEF l, n
    <3>2. p + 2 + l \in 1..n + 1 /\ \A i \in 1..l : p + 1 + i \in 1..n
      BY <1>1, <2>2, <3>1
    <3> QED
      BY <3>2 DEF Places, n
  <2>4. R[p + 2 + l] \in Seq(Found)
    BY <2>3 DEF Readings
  <2>5. d \in Seq(Int)
    <3>1. \A i \in 1..l : file[p + 1 + i].value \in Int
      BY <1>1, <2>3
    <3> HIDE DEF l
    <3> QED
      BY <2>2, <3>1
  <2> HIDE DEF l, d
  <2>6. Packet(file[p].value, d) \in Found
    BY <2>2, <2>5 DEF Packet, Found
  <2>7. <<Packet(file[p].value, d)>> \in Seq(Found)
    BY <2>6
  <2>8. <<Packet(file[p].value, d)>> \o R[p + 2 + l] \in Seq(Found)
    BY <2>4, <2>7, ConcatProperties
  <2> QED
    BY <2>8 DEF d, l
<1> QED
  BY <1>1, <1>2, <1>3 DEF ReadAt

(* A call of ReadPacket moves forward.                                      *)
LEMMA ReadAtForward ==
  ASSUME NEW file \in Seq(AllFields), NEW p \in Places(file), NEW R, NEW Q,
         \A r \in Places(file) : r > p => R[r] = Q[r]
  PROVE  ReadAt(R, file, p) = ReadAt(Q, file, p)
<1>1. Len(file) \in Nat /\ p \in Nat /\ p >= 1 /\ \A i \in 1..Len(file) : file[i].value \in Nat
  BY FileFacts DEF Places
<1>2. ASSUME ~(p + 1 > Len(file)), ~(p + 2 + file[p + 1].value > Len(file) + 1)
      PROVE  R[p + 2 + file[p + 1].value] = Q[p + 2 + file[p + 1].value]
  <2> DEFINE l == file[p + 1].value
             n == Len(file)
  <2>1. p + 1 \in 1..n
    BY <1>1, <1>2
  <2>2. l \in Nat /\ n \in Nat /\ p + 2 + l <= n + 1
    BY <1>1, <1>2, <2>1
  <2> HIDE DEF l, n
  <2>3. p + 2 + l \in 1..n + 1 /\ p + 2 + l > p
    BY <1>1, <2>2
  <2> QED
    BY <2>3 DEF Places, l, n
<1> QED
  BY <1>2 DEF ReadAt

Reads(R, file) ==
  /\ R \in Readings(file)
  /\ \A p \in Places(file) : R[p] = ReadAt(R, file, p)

(* The calls of ReadPacket from each position on, from the end backwards.   *)
LEMMA ReadsExist ==
  ASSUME NEW file \in Seq(AllFields)
  PROVE  \E R : Reads(R, file)
<1> DEFINE n == Len(file) + 1
           S == Readings(file)
           none == [p \in Places(file) |-> <<>>]
           step == [k \in 1..n |-> [R \in S |-> [R EXCEPT ![n + 1 - k] = ReadAt(R, file, n + 1 - k)]]]
<1>1. n \in Nat /\ Places(file) = 1..n /\ \A k \in 1..n : n + 1 - k \in Places(file)
  BY FileFacts DEF Places
<1>2. none \in S
  <2>1. <<>> \in Seq(Found)
    OBVIOUS
  <2> QED
    BY <2>1 DEF Readings
<1>3. step \in [1..n -> [S -> S]]
  <2>1. ASSUME NEW k \in 1..n, NEW R \in S
        PROVE  [R EXCEPT ![n + 1 - k] = ReadAt(R, file, n + 1 - k)] \in S
    <3>1. ReadAt(R, file, n + 1 - k) \in Seq(Found)
      BY <1>1, ReadAtType
    <3> QED
      BY <3>1 DEF Readings
  <2> HIDE DEF S, n
  <2> QED
    BY <2>1
<1>4. \A k \in 1..n, R \in S : step[k][R] = [R EXCEPT ![n + 1 - k] = ReadAt(R, file, n + 1 - k)]
  OBVIOUS
<1> HIDE DEF n, S, none, step
<1>5. PICK F : Steps(F, S, none, n, step)
  BY ONLY <1>1, <1>2, <1>3, Recursion
<1>6. F \in [0..n -> S] /\ \A k \in 1..n : F[k] = step[k][F[k - 1]]
  BY <1>5 DEF Steps
<1> DEFINE Right(k) == \A p \in 1..n : p > n - k => F[k][p] = ReadAt(F[k], file, p)
           N == {k \in Nat : k <= n => Right(k)}
<1>7. 0 \in N
  BY <1>1
<1>8. ASSUME NEW k \in N PROVE k + 1 \in N
  <2>1. k \in Nat /\ k + 1 \in Nat
    OBVIOUS
  <2> SUFFICES ASSUME k + 1 <= n PROVE Right(k + 1)
    BY <2>1
  <2> DEFINE q == n - k
             R == F[k]
             Q == F[k + 1]
  <2>2. /\ k \in 0..n /\ k + 1 \in 1..n /\ (k + 1) - 1 = k /\ n + 1 - (k + 1) = q
        /\ q \in 1..n /\ n - (k + 1) = q - 1 /\ q \in Int
    BY <1>1, <2>1
  <2>3. R \in S
    BY <1>6, <2>2
  <2>4. Q = [R EXCEPT ![q] = ReadAt(R, file, q)]
    <3>1. Q = step[k + 1][R]
      BY <1>6, <2>2
    <3>2. step[k + 1][R] = [R EXCEPT ![n + 1 - (k + 1)] = ReadAt(R, file, n + 1 - (k + 1))]
      BY <1>4, <2>2, <2>3
    <3> HIDE DEF R, Q, q
    <3> QED
      BY <2>2, <3>1, <3>2
  <2>5. \A p \in 1..n : p > q => R[p] = ReadAt(R, file, p)
    <3>1. k <= n
      BY <1>1, <2>1
    <3> HIDE DEF Right
    <3>2. Right(k)
      BY <3>1
    <3> QED
      BY <3>2 DEF Right
  <2> HIDE DEF q, R, Q
  <2>6. /\ Q[q] = ReadAt(R, file, q)
        /\ \A p \in 1..n : p # q => Q[p] = R[p]
    BY <1>1, <2>2, <2>3, <2>4 DEF S, Readings
  <2>7. ASSUME NEW p \in 1..n, p >= q PROVE ReadAt(R, file, p) = ReadAt(Q, file, p)
    <3>1. \A r \in Places(file) : r > p => R[r] = Q[r]
      BY <1>1, <2>2, <2>6, <2>7
    <3>2. p \in Places(file)
      BY <1>1
    <3>3. file \in Seq(AllFields)
      OBVIOUS
    <3> QED
      BY ONLY <3>1, <3>2, <3>3, ReadAtForward
  <2>8. ASSUME NEW p \in 1..n, p > q - 1 PROVE Q[p] = ReadAt(Q, file, p)
    <3>1. CASE p = q
      BY <2>2, <2>6, <2>7, <3>1
    <3>2. CASE p # q
      <4>1. p > q /\ p >= q
        BY <1>1, <2>2, <2>8, <3>2
      <4> QED
        BY <2>5, <2>6, <2>7, <3>2, <4>1
    <3> QED
      BY <3>1, <3>2
  <2> QED
    BY <2>2, <2>8 DEF Q
<1> HIDE DEF N
<1>9. N = Nat
  <2>1. N \in SUBSET Nat
    BY DEF N
  <2> QED
    BY <1>7, <1>8, <2>1, Induction
<1>10. Right(n)
  <2>1. n \in N /\ n <= n
    BY <1>1, <1>9
  <2> QED
    BY <2>1 DEF N
<1>11. \A p \in 1..n : F[n][p] = ReadAt(F[n], file, p)
  BY <1>1, <1>10
<1>12. F[n] \in S
  BY <1>1, <1>6
<1> QED
  BY <1>1, <1>11, <1>12 DEF Reads, S

LEMMA ReadPacketsReads ==
  ASSUME NEW file \in Seq(AllFields), file # <<>>
  PROVE  \E R : Reads(R, file) /\ ReadPackets(file) = R[2]
<1> DEFINE Chosen(R) == R = [p \in 1..Len(file) + 1 |-> ReadAt(R, file, p)]
           g == CHOOSE R : Chosen(R)
<1>1. ReadPackets(file) = g[2]
  BY DEF ReadPackets, ReadAt
<1>2. PICK R : Reads(R, file)
  BY ReadsExist
<1>3. Chosen(R)
  <2>1. R = [p \in Places(file) |-> R[p]]
    BY <1>2 DEF Reads, Readings
  <2> QED
    BY <1>2, <2>1 DEF Reads, Places
<1>4. Chosen(g)
  <2> HIDE DEF Chosen
  <2> QED
    BY <1>3
<1> DEFINE n == Len(file) + 1
<1>5. n \in Nat /\ 2 \in 1..n /\ Places(file) = 1..n
  <2>1. Len(file) # 0
    BY EmptySeq
  <2> QED
    BY <2>1, FileFacts DEF Places
<1>6. \A p \in 1..n : g[p] = ReadAt(g, file, p) /\ R[p] = ReadAt(R, file, p)
  BY <1>2, <1>4, <1>5 DEF Reads
<1> HIDE DEF n, g
<1> DEFINE Agree(k) == \A p \in 1..n : p > n - k => g[p] = R[p]
           N == {k \in Nat : Agree(k)}
<1>7. 0 \in N
  BY <1>5
<1>8. ASSUME NEW k \in N PROVE k + 1 \in N
  <2>1. k \in Nat /\ k + 1 \in Nat /\ \A p \in 1..n : p > n - k => g[p] = R[p]
    OBVIOUS
  <2>2. ASSUME NEW p \in 1..n, p > n - (k + 1) PROVE g[p] = R[p]
    <3>1. \A r \in Places(file) : r > p => g[r] = R[r]
      BY <1>5, <2>1, <2>2
    <3>2. p \in Places(file)
      BY <1>5
    <3>3. ReadAt(g, file, p) = ReadAt(R, file, p)
      BY <3>1, <3>2, ReadAtForward
    <3> QED
      BY <1>6, <3>3
  <2> QED
    BY <2>1, <2>2
<1> HIDE DEF N
<1>9. N = Nat
  <2>1. N \in SUBSET Nat
    BY DEF N
  <2> QED
    BY <1>7, <1>8, <2>1, Induction
<1>10. g[2] = R[2]
  <2>1. n \in N /\ 2 > n - n
    BY <1>5, <1>9
  <2> QED
    BY <1>5, <2>1 DEF N
<1> QED
  BY <1>1, <1>2, <1>10

-----------------------------------------------------------------------------
(* The files that Writer writes                                             *)

(* Packet i of p is written from position pos[i] of the file on.            *)
Layout(file, p, pos) ==
  /\ file \in Seq(AllFields)
  /\ file # <<>> /\ file[1].field = "header"
  /\ pos \in [1..Len(p) + 1 -> Nat]
  /\ pos[1] = 2 /\ pos[Len(p) + 1] = Len(file) + 1
  /\ \A i \in 1..Len(p) :
       /\ pos[i] >= 2
       /\ pos[i + 1] = pos[i] + 2 + PayloadLength[p[i]]
       /\ pos[i + 1] <= Len(file) + 1
       /\ file[pos[i]] = Field("timestamp", p[i])
       /\ file[pos[i] + 1] = Field("length", StoredLength(p[i]))
       /\ \A j \in 1..PayloadLength[p[i]] : file[pos[i] + 1 + j] = Field("data", p[i])

LEMMA FileLayout ==
  ASSUME NEW p \in Seq(Numbers)
  PROVE  \E pos : Layout(File(<<Header>> \o p), p, pos)
<1> DEFINE n == Len(p)
           items == <<Header>> \o p
           seqs == [k \in DOMAIN items |-> Fields(items[k])]
<1>1. n \in Nat /\ \A i \in 1..n : p[i] \in Numbers
  BY LenProperties, ElementOfSeq
<1>2. /\ DOMAIN items = 1..n + 1
      /\ items[1] = Header /\ \A i \in 1..n : items[i + 1] = p[i]
  <2>1. <<Header>> \in Seq({Header} \cup Numbers) /\ p \in Seq({Header} \cup Numbers)
        /\ Len(<<Header>>) = 1 /\ <<Header>>[1] = Header
    <3>1. p \in Seq({Header} \cup Numbers)
      BY <1>1
    <3> QED
      BY <3>1
  <2>2. /\ items \in Seq({Header} \cup Numbers) /\ Len(items) = 1 + n
        /\ \A i \in 1..1 + n : items[i] = IF i <= 1 THEN <<Header>>[i] ELSE p[i - 1]
    BY <2>1, ConcatProperties
  <2>3. DOMAIN items = 1..Len(items)
    BY <2>2, LenProperties
  <2> HIDE DEF items
  <2>4. items[1] = Header
    BY <1>1, <2>1, <2>2
  <2>5. ASSUME NEW i \in 1..n PROVE items[i + 1] = p[i]
    <3>1. i + 1 \in 1..1 + n /\ ~(i + 1 <= 1) /\ (i + 1) - 1 = i
      BY <1>1
    <3> QED
      BY <2>2, <3>1
  <2> QED
    BY <1>1, <2>2, <2>3, <2>4, <2>5
<1> HIDE DEF items
<1>3. /\ seqs \in Seq(Seq(AllFields)) /\ Len(seqs) = n + 1
      /\ seqs[1] = Fields(Header) /\ \A i \in 1..n : seqs[i + 1] = Fields(p[i])
  <2>1. ASSUME NEW k \in 1..n + 1 PROVE Fields(items[k]) \in Seq(AllFields)
    <3>1. CASE k = 1
      BY <1>2, <3>1, HeaderFields
    <3>2. CASE k # 1
      <4>1. k - 1 \in 1..n /\ (k - 1) + 1 = k
        BY <1>1, <3>2
      <4>2. items[k] = p[k - 1]
        BY <1>2, <4>1
      <4> QED
        BY <1>1, <4>1, <4>2, PacketFields
    <3> QED
      BY <3>1, <3>2
  <2>2. seqs \in [1..n + 1 -> Seq(AllFields)] /\ n + 1 \in Nat
    BY <1>1, <1>2, <2>1
  <2>3. \A k \in 1..n + 1 : seqs[k] = Fields(items[k])
    BY <1>2
  <2> HIDE DEF seqs
  <2>4. seqs \in Seq(Seq(AllFields)) /\ Len(seqs) = n + 1
    BY <2>2
  <2>5. 1 \in 1..n + 1 /\ \A i \in 1..n : i + 1 \in 1..n + 1
    BY <1>1
  <2> QED
    BY <1>2, <2>3, <2>4, <2>5
<1>4. File(items) = FlattenSeq(seqs)
  BY DEF File
<1> HIDE DEF seqs
<1>5. PICK F : Joins(F, seqs, AllFields) /\ File(items) = F[n + 1]
  BY <1>3, <1>4, FlattenJoins
<1>f. ASSUME NEW k \in 1..Len(seqs)
      PROVE  FoundAt(F, seqs, k)
  <2>1. seqs \in Seq(Seq(AllFields)) /\ Joins(F, seqs, AllFields)
    BY <1>3, <1>5
  <2> QED
    BY <2>1, FlattenIndex
<1> DEFINE file == File(items)
           pos == [k \in 1..n + 1 |-> Len(F[k]) + 1]
<1>6. file \in Seq(AllFields)
  BY <1>3, <1>4, FlattenType
<1>7. ASSUME NEW k \in 1..n + 1
      PROVE  /\ Len(F[k - 1]) \in Nat /\ Len(F[k]) = Len(F[k - 1]) + Len(seqs[k])
             /\ Len(F[k]) <= Len(file)
             /\ \A i \in 1..Len(seqs[k]) : file[Len(F[k - 1]) + i] = seqs[k][i]
  <2>1. k \in 1..Len(seqs)
    BY <1>3
  <2>2. /\ Len(F[k - 1]) \in Nat /\ Len(F[k]) = Len(F[k - 1]) + Len(seqs[k])
        /\ Len(F[k]) <= Len(F[Len(seqs)])
        /\ \A i \in 1..Len(seqs[k]) : F[Len(seqs)][Len(F[k - 1]) + i] = seqs[k][i]
    BY <1>f, <2>1 DEF FoundAt
  <2> QED
    BY <1>3, <1>5, <2>2
<1>8. /\ Len(F[0]) = 0 /\ Len(F[1]) = 1 /\ Len(F[n + 1]) = Len(file)
      /\ file[1].field = "header" /\ Len(file) \in Nat /\ Len(file) >= 1
  <2>1. 1 \in 1..n + 1 /\ 1 - 1 = 0 /\ 1 \in 1..1
    BY <1>1
  <2>2. Len(F[0]) = 0
    BY <1>5 DEF Joins
  <2>3. Len(F[1]) = 0 + Len(seqs[1]) /\ Len(F[1]) <= Len(file)
        /\ \A i \in 1..Len(seqs[1]) : file[0 + i] = seqs[1][i]
    <3>1. /\ Len(F[1]) = Len(F[1 - 1]) + Len(seqs[1]) /\ Len(F[1]) <= Len(file)
          /\ \A i \in 1..Len(seqs[1]) : file[Len(F[1 - 1]) + i] = seqs[1][i]
      BY <1>7, <2>1
    <3> QED
      BY <2>1, <2>2, <3>1
  <2>4. Len(seqs[1]) = 1 /\ seqs[1][1].field = "header"
    BY <1>3, HeaderFields
  <2>5. Len(F[1]) = 1 /\ file[1] = seqs[1][1]
    <3>1. 0 + 1 = 1
      OBVIOUS
    <3> QED
      BY <2>1, <2>3, <2>4, <3>1
  <2>6. Len(file) \in Nat
    BY <1>6, LenProperties
  <2> QED
    BY <1>5, <2>2, <2>3, <2>4, <2>5, <2>6
<1>9. ASSUME NEW k \in 1..n + 1 PROVE Len(F[k]) \in Nat /\ Len(F[k]) >= 1 /\ pos[k] = Len(F[k]) + 1
  <2>1. /\ Len(F[k - 1]) \in Nat /\ Len(F[k]) = Len(F[k - 1]) + Len(seqs[k])
    BY <1>7
  <2>2. Len(seqs[k]) \in Nat /\ Len(seqs[k]) >= 1
    <3>1. CASE k = 1
      <4>1. Len(seqs[1]) = 1
        BY <1>3, HeaderFields
      <4> QED
        BY <3>1, <4>1
    <3>2. CASE k # 1
      <4>1. k - 1 \in 1..n /\ (k - 1) + 1 = k
        BY <1>1, <3>2
      <4>2. seqs[k] = Fields(p[k - 1]) /\ p[k - 1] \in Numbers
        BY <1>1, <1>3, <4>1
      <4>3. Len(seqs[k]) = 2 + PayloadLength[p[k - 1]] /\ PayloadLength[p[k - 1]] \in Nat
        BY <4>2, PacketFields, NumbersFacts
      <4> QED
        BY <4>3
    <3> QED
      BY <3>1, <3>2
  <2>3. \A a, b, c : a \in Nat /\ c \in Nat /\ c >= 1 /\ b = a + c => b \in Nat /\ b >= 1
    OBVIOUS
  <2>4. Len(F[k]) \in Nat /\ Len(F[k]) >= 1
    BY <2>1, <2>2, <2>3
  <2>5. pos[k] = Len(F[k]) + 1
    OBVIOUS
  <2> QED
    BY <2>4, <2>5
<1>10. pos \in [1..n + 1 -> Nat] /\ pos[1] = 2 /\ pos[n + 1] = Len(file) + 1
  <2>1. 1 \in 1..n + 1 /\ n + 1 \in 1..n + 1
    BY <1>1
  <2>2. \A k \in 1..n + 1 : Len(F[k]) + 1 \in Nat
    BY <1>9
  <2>3. pos \in [1..n + 1 -> Nat]
    BY <2>2
  <2>4. pos[1] = Len(F[1]) + 1 /\ pos[n + 1] = Len(F[n + 1]) + 1
    BY <1>9, <2>1
  <2> QED
    BY <1>8, <2>3, <2>4
<1>11. ASSUME NEW i \in 1..n
       PROVE  /\ pos[i] >= 2
              /\ pos[i + 1] = pos[i] + 2 + PayloadLength[p[i]]
              /\ pos[i + 1] <= Len(file) + 1
              /\ file[pos[i]] = Field("timestamp", p[i])
              /\ file[pos[i] + 1] = Field("length", StoredLength(p[i]))
              /\ \A j \in 1..PayloadLength[p[i]] : file[pos[i] + 1 + j] = Field("data", p[i])
  <2> DEFINE l == PayloadLength[p[i]]
             b == Len(F[i])
             f == seqs[i + 1]
  <2>1. i \in 1..n + 1 /\ i + 1 \in 1..n + 1 /\ (i + 1) - 1 = i
    BY <1>1
  <2>2. /\ p[i] \in Numbers /\ l \in Nat /\ f = Fields(p[i])
    BY <1>1, <1>3, NumbersFacts
  <2>3. /\ Len(f) = 2 + l /\ f[1] = Field("timestamp", p[i])
        /\ f[2] = Field("length", StoredLength(p[i]))
        /\ \A j \in 1..l : f[2 + j] = Field("data", p[i])
    BY <2>2, PacketFields
  <2>4. /\ b \in Nat /\ b >= 1 /\ pos[i] = b + 1 /\ pos[i + 1] = Len(F[i + 1]) + 1
    BY <1>9, <2>1
  <2>5. /\ Len(F[i + 1]) = b + Len(f) /\ Len(F[i + 1]) <= Len(file)
        /\ \A j \in 1..Len(f) : file[b + j] = f[j]
    BY <1>7, <2>1
  <2> HIDE DEF l, b, f, pos, file
  <2>6. pos[i + 1] = pos[i] + 2 + l /\ pos[i] >= 2
    BY <2>2, <2>3, <2>4, <2>5
  <2>7. pos[i + 1] <= Len(file) + 1
    BY <1>8, <2>2, <2>3, <2>4, <2>5
  <2>8. file[pos[i]] = f[1] /\ file[pos[i] + 1] = f[2]
    <3>1. 1 \in 1..Len(f) /\ 2 \in 1..Len(f) /\ (b + 1) + 1 = b + 2
      BY <2>2, <2>3, <2>4
    <3> QED
      BY <2>4, <2>5, <3>1
  <2>9. ASSUME NEW j \in 1..l PROVE file[pos[i] + 1 + j] = Field("data", p[i])
    <3>1. 2 + j \in 1..Len(f) /\ pos[i] + 1 + j = b + (2 + j)
      BY <2>2, <2>3, <2>4
    <3> QED
      BY <2>3, <2>5, <3>1
  <2> QED
    BY <2>3, <2>6, <2>7, <2>8, <2>9 DEF l
<1>12. file # <<>>
  BY <1>8, EmptySeq
<1> HIDE DEF pos, file
<1>13. Layout(file, p, pos)
  BY <1>6, <1>8, <1>10, <1>11, <1>12 DEF Layout
<1> QED
  BY <1>13 DEF file, items

(* A packet that is not too long is read as it was written, and the next    *)
(* call of ReadPacket starts at the packet after it.                        *)
LEMMA PacketRead ==
  ASSUME NEW p \in Seq(Numbers), NEW file, NEW pos, Layout(file, p, pos), NEW R, Reads(R, file),
         NEW i \in 1..Len(p), ~Oversize(p[i])
  PROVE  /\ R[pos[i]] = <<Written(p[i])>> \o R[pos[i + 1]]
         /\ pos[i + 1] \in Places(file)
<1> DEFINE l == PayloadLength[p[i]]
           q == pos[i]
           size == Len(file)
<1>1. p[i] \in Numbers /\ l \in Nat /\ StoredLength(p[i]) = l
  <2>1. p[i] \in Numbers
    BY ElementOfSeq
  <2> QED
    BY <2>1, NumbersFacts DEF Oversize
<1>2. /\ q >= 2 /\ pos[i + 1] = q + 2 + l /\ pos[i + 1] <= size + 1
      /\ file[q] = Field("timestamp", p[i])
      /\ file[q + 1] = Field("length", l)
      /\ \A j \in 1..l : file[q + 1 + j] = Field("data", p[i])
      /\ file \in Seq(AllFields)
  BY <1>1 DEF Layout
<1>3. q \in Nat /\ size \in Nat
  <2>1. i \in 1..Len(p) + 1
    BY LenProperties
  <2> QED
    BY <1>2, <2>1, LenProperties DEF Layout
<1> HIDE DEF l, q, size
<1>4. /\ q \in Places(file) /\ pos[i + 1] \in Places(file) /\ ~(q + 1 > size)
      /\ ~(q + 2 + l > size + 1)
  <2>1. q \in 1..size + 1 /\ q + 2 + l \in 1..size + 1 /\ ~(q + 1 > size)
        /\ ~(q + 2 + l > size + 1)
    BY <1>1, <1>2, <1>3
  <2> QED
    BY <1>2, <2>1 DEF Places, size
<1>5. /\ file[q].field = "timestamp" /\ file[q].value = p[i]
      /\ file[q + 1].field = "length" /\ file[q + 1].value = l
      /\ \A j \in 1..l : file[q + 1 + j].value = p[i]
  BY <1>2 DEF Field
<1>6. [j \in 1..l |-> file[q + 1 + j].value] = [j \in 1..l |-> p[i]]
  BY <1>5
<1>7. Packet(file[q].value, [j \in 1..file[q + 1].value |-> file[q + 1 + j].value])
      = Written(p[i])
  BY <1>5, <1>6 DEF Written, l
<1>8. ReadAt(R, file, q)
      = <<Packet(file[q].value, [j \in 1..file[q + 1].value |-> file[q + 1 + j].value])>>
          \o R[q + 2 + file[q + 1].value]
  <2>1. ~(q + 1 > Len(file)) /\ ~(q + 2 + file[q + 1].value > Len(file) + 1)
        /\ ~(file[q].field # "timestamp" \/ file[q + 1].field # "length")
    BY <1>4, <1>5 DEF size
  <2> QED
    BY <2>1 DEF ReadAt
<1>9. R[q] = ReadAt(R, file, q)
  BY <1>4 DEF Reads
<1> QED
  BY <1>2, <1>4, <1>5, <1>7, <1>8, <1>9 DEF q

LEMMA PacketsRead ==
  ASSUME NEW p \in Seq(Numbers), NEW file, NEW pos, Layout(file, p, pos), NEW R, Reads(R, file),
         NEW k \in 0..Len(p), \A i \in 1..k : ~Oversize(p[i])
  PROVE  /\ k <= Len(R[2])
         /\ \A i \in 1..k : R[2][i] = Written(p[i])
         /\ k = Len(p) => Len(R[2]) = k
<1> DEFINE n == Len(p)
           rest(m) == R[pos[m + 1]]
           Right(m) == /\ pos[m + 1] \in Places(file)
                       /\ Len(R[2]) = m + Len(rest(m))
                       /\ \A i \in 1..m : R[2][i] = Written(p[i])
                       /\ \A j \in 1..Len(rest(m)) : R[2][m + j] = rest(m)[j]
           N == {m \in Nat : m <= k => Right(m)}
<1>1. /\ n \in Nat /\ k \in Nat /\ k <= n
      /\ pos[1] = 2 /\ pos[n + 1] = Len(file) + 1
      /\ file \in Seq(AllFields) /\ Len(file) \in Nat /\ Len(file) # 0
  BY LenProperties, EmptySeq DEF Layout
<1>2. \A q \in Places(file) : R[q] \in Seq(Found) /\ R[q] = ReadAt(R, file, q)
  BY DEF Reads, Readings
<1>3. 2 \in Places(file) /\ Len(file) + 1 \in Places(file)
  BY <1>1 DEF Places
<1>4. 0 \in N
  <2>1. pos[0 + 1] = 2
    BY <1>1
  <2>2. R[2] \in Seq(Found)
    BY <1>2, <1>3
  <2>3. Len(R[2]) \in Nat
    BY <2>2, LenProperties
  <2>4. Len(R[2]) = 0 + Len(R[2]) /\ \A j \in 1..Len(R[2]) : 0 + j = j
    BY <2>3
  <2> QED
    BY <1>3, <2>1, <2>4
<1>5. ASSUME NEW m \in N PROVE m + 1 \in N
  <2>1. m \in Nat /\ m + 1 \in Nat
    OBVIOUS
  <2> SUFFICES ASSUME m + 1 <= k PROVE Right(m + 1)
    BY <2>1
  <2> DEFINE w == <<Written(p[m + 1])>>
             r == rest(m)
             s == rest(m + 1)
             a == R[2]
  <2>2. Right(m)
    <3>1. m <= k
      BY <1>1, <2>1
    <3> HIDE DEF Right
    <3> QED
      BY <3>1
  <2>3. m + 1 \in 1..n /\ m + 1 \in 1..k
    BY <1>1, <2>1
  <2>4. r = w \o s /\ pos[(m + 1) + 1] \in Places(file)
    BY <2>3, PacketRead
  <2>5. s \in Seq(Found) /\ r \in Seq(Found) /\ w = <<Written(p[m + 1])>>
    BY <1>2, <2>2, <2>4
  <2>6. /\ Len(a) = m + Len(r)
        /\ \A i \in 1..m : a[i] = Written(p[i])
        /\ \A j \in 1..Len(r) : a[m + j] = r[j]
    BY <2>2
  <2>7. w \in Seq({Written(p[m + 1])}) /\ Len(w) = 1 /\ w[1] = Written(p[m + 1])
    OBVIOUS
  <2> HIDE DEF w, r, s, a
  <2>8. /\ Len(s) \in Nat /\ Len(w \o s) = 1 + Len(s)
        /\ \A j \in 1..1 + Len(s) : (w \o s)[j] = IF j <= 1 THEN w[j] ELSE s[j - 1]
    <3>1. w \in Seq({Written(p[m + 1])} \cup Found) /\ s \in Seq({Written(p[m + 1])} \cup Found)
      <4>1. s \in Seq({Written(p[m + 1])} \cup Found)
        BY <2>5
      <4>2. w \in Seq({Written(p[m + 1])} \cup Found)
        BY <2>5
      <4> QED
        BY <4>1, <4>2
    <3>2. /\ Len(w \o s) = Len(w) + Len(s)
          /\ \A j \in 1..Len(w) + Len(s) : (w \o s)[j] = IF j <= Len(w) THEN w[j] ELSE s[j - Len(w)]
      BY <3>1, ConcatProperties
    <3>3. Len(s) \in Nat
      BY <2>5, LenProperties
    <3> QED
      BY <2>7, <3>2, <3>3
  <2>9. Len(a) = (m + 1) + Len(s)
    BY <2>1, <2>4, <2>6, <2>8
  <2>10. a[m + 1] = Written(p[m + 1])
    <3>1. 1 \in 1..Len(r) /\ 1 \in 1..1 + Len(s) /\ 1 <= 1
      BY <2>4, <2>8
    <3>2. a[m + 1] = r[1] /\ r[1] = w[1]
      BY <2>4, <2>6, <2>8, <3>1
    <3> QED
      BY <2>7, <3>2
  <2>11. ASSUME NEW i \in 1..m + 1 PROVE a[i] = Written(p[i])
    <3>1. i = m + 1 \/ i \in 1..m
      BY <2>1
    <3> QED
      BY <2>6, <2>10, <3>1
  <2>12. ASSUME NEW j \in 1..Len(s) PROVE a[(m + 1) + j] = s[j]
    <3>1. /\ 1 + j \in 1..Len(r) /\ 1 + j \in 1..1 + Len(s) /\ ~(1 + j <= 1)
          /\ m + (1 + j) = (m + 1) + j /\ (1 + j) - 1 = j
      BY <2>1, <2>4, <2>8
    <3>2. a[m + (1 + j)] = r[1 + j] /\ r[1 + j] = s[(1 + j) - 1]
      BY <2>4, <2>6, <2>8, <3>1
    <3> QED
      BY <3>1, <3>2
  <2> QED
    BY <2>4, <2>9, <2>11, <2>12 DEF a, s
<1> HIDE DEF N
<1>6. N = Nat
  <2>1. N \in SUBSET Nat
    BY DEF N
  <2> QED
    BY <1>4, <1>5, <2>1, Induction
<1>7. Right(k)
  <2>1. k \in N /\ k <= k
    BY <1>1, <1>6
  <2> QED
    BY <2>1 DEF N
<1>8. Len(rest(k)) \in Nat
  BY <1>2, <1>7, LenProperties
<1>9. ASSUME k = n PROVE Len(rest(k)) = 0
  <2>1. rest(k) = ReadAt(R, file, Len(file) + 1)
    BY <1>1, <1>2, <1>3, <1>9
  <2>2. (Len(file) + 1) + 1 > Len(file)
    BY <1>1
  <2>3. ReadAt(R, file, Len(file) + 1) = <<>>
    BY <2>2 DEF ReadAt
  <2> QED
    BY <2>1, <2>3
<1> HIDE DEF rest
<1> QED
  BY <1>1, <1>7, <1>8, <1>9

-----------------------------------------------------------------------------
(* What is read back                                                        *)

(* A file of the header and packets reads back: rtp.ReadHeader accepts it   *)
(* and the successive calls of rtp.ReadPacket return the packets it was     *)
(* given, up to the first one too long for its length field.                *)
LEMMA FileReadsBack ==
  ASSUME NEW p \in Seq(Numbers), PacketsOf(<<Header>> \o p) = p
  PROVE  ReadHeader(File(<<Header>> \o p)) /\ ReadsBack(<<Header>> \o p)
<1> DEFINE items == <<Header>> \o p
           file == File(items)
           found == ReadPackets(file)
           n == Len(p)
           Sound(k) == /\ \A i \in 1..k : ~Oversize(p[i])
                       /\ k < n => Oversize(p[k + 1])
           sound == CHOOSE k \in 0..n : Sound(k)
<1>1. PICK pos : Layout(file, p, pos)
  BY FileLayout
<1>2. file \in Seq(AllFields) /\ file # <<>> /\ file[1].field = "header" /\ n \in Nat
  BY <1>1, LenProperties DEF Layout
<1>3. \E k \in 0..n : Sound(k)
  <2> SUFFICES ASSUME \A k \in 0..n : ~Sound(k) PROVE FALSE
    OBVIOUS
  <2> DEFINE N == {k \in Nat : k <= n => \A i \in 1..k : ~Oversize(p[i])}
  <2>1. 0 \in N
    OBVIOUS
  <2>2. ASSUME NEW k \in N PROVE k + 1 \in N
    <3>1. k \in Nat /\ k + 1 \in Nat
      OBVIOUS
    <3> SUFFICES ASSUME k + 1 <= n PROVE \A i \in 1..k + 1 : ~Oversize(p[i])
      BY <3>1
    <3>2. k \in 0..n /\ k < n /\ k <= n
      BY <1>2, <3>1
    <3>3. \A i \in 1..k : ~Oversize(p[i])
      BY <3>2
    <3>4. ~Oversize(p[k + 1])
      BY <3>2, <3>3
    <3>5. \A i \in 1..k + 1 : i \in 1..k \/ i = k + 1
      BY <3>1
    <3> QED
      BY <3>3, <3>4, <3>5
  <2> HIDE DEF N
  <2>3. N = Nat
    <3>1. N \in SUBSET Nat
      BY DEF N
    <3> QED
      BY <2>1, <2>2, <3>1, Induction
  <2>4. n \in N /\ n <= n /\ n \in 0..n /\ ~(n < n)
    BY <1>2, <2>3
  <2>5. \A i \in 1..n : ~Oversize(p[i])
    BY <2>4 DEF N
  <2> QED
    BY <2>4, <2>5
<1>4. sound \in 0..n /\ Sound(sound)
  <2> HIDE DEF Sound
  <2> QED
    BY <1>3
<1>5. PICK R : Reads(R, file) /\ found = R[2]
  BY <1>2, ReadPacketsReads
<1> HIDE DEF sound, items, file, found
<1>6. /\ sound <= Len(found)
      /\ \A i \in 1..sound : found[i] = Written(p[i])
      /\ sound = n => Len(found) = sound
  <2>1. /\ sound <= Len(R[2])
        /\ \A i \in 1..sound : R[2][i] = Written(p[i])
        /\ sound = Len(p) => Len(R[2]) = sound
    BY <1>1, <1>4, <1>5, PacketsRead
  <2> QED
    BY <1>5, <2>1
<1>7. ReadHeader(file)
  BY <1>2 DEF ReadHeader
<1>8. ReadsBack(items)
  BY <1>6 DEF ReadsBack, sound, items, file, found
<1> QED
  BY <1>7, <1>8 DEF items, file


(* Only a file whose first item is the header starts with one.              *)
LEMMA HeaderFirst ==
  ASSUME NEW items \in Seq({Header} \cup Numbers), ReadHeader(File(items))
  PROVE  items # <<>> /\ items[1] = Header
<1> DEFINE n == Len(items)
           seqs == [k \in DOMAIN items |-> Fields(items[k])]
<1>1. /\ n \in Nat /\ DOMAIN items = 1..n
      /\ \A k \in 1..n : items[k] = Header \/ items[k] \in Numbers
  <2>1. \A k \in 1..n : items[k] \in {Header} \cup Numbers
    BY ElementOfSeq
  <2> QED
    BY <2>1, LenProperties
<1>2. seqs \in Seq(Seq(AllFields)) /\ Len(seqs) = n
      /\ \A k \in 1..n : seqs[k] = Fields(items[k])
  <2>1. ASSUME NEW k \in 1..n PROVE Fields(items[k]) \in Seq(AllFields)
    BY <1>1, HeaderFields, PacketFields
  <2>2. seqs \in [1..n -> Seq(AllFields)]
    BY <1>1, <2>1
  <2>3. \A k \in 1..n : seqs[k] = Fields(items[k])
    BY <1>1
  <2> HIDE DEF seqs
  <2> QED
    BY <1>1, <2>2, <2>3
<1>3. File(items) = FlattenSeq(seqs)
  BY DEF File
<1> HIDE DEF seqs
<1>4. PICK F : Joins(F, seqs, AllFields) /\ File(items) = F[n]
  BY <1>2, <1>3, FlattenJoins
<1>5. File(items) # <<>> /\ File(items)[1].field = "header"
  BY DEF ReadHeader
<1>6. n # 0
  BY <1>4, <1>5 DEF Joins
<1>7. items # <<>> /\ 1 \in 1..n
  BY <1>1, <1>6, EmptySeq
<1>8. FoundAt(F, seqs, 1)
  <2>1. seqs \in Seq(Seq(AllFields)) /\ Joins(F, seqs, AllFields) /\ 1 \in 1..Len(seqs)
    BY <1>2, <1>4, <1>7
  <2> QED
    BY <2>1, FlattenIndex
<1>9. ASSUME items[1] \in Numbers PROVE FALSE
  <2>1. seqs[1] = Fields(items[1])
    BY <1>2, <1>7
  <2>2. Len(seqs[1]) = 2 + PayloadLength[items[1]]
        /\ seqs[1][1] = Field("timestamp", items[1])
        /\ PayloadLength[items[1]] \in Nat
    BY <1>9, <2>1, PacketFields, NumbersFacts
  <2>3. 1 \in 1..Len(seqs[1])
    BY <2>2
  <2>4. F[1 - 1] = <<>>
    BY <1>4 DEF Joins
  <2>5. F[n][Len(F[1 - 1]) + 1] = seqs[1][1]
    BY <1>2, <1>8, <2>3 DEF FoundAt
  <2>6. F[n][1] = seqs[1][1]
    <3>1. Len(F[1 - 1]) + 1 = 1
      BY <2>4
    <3> QED
      BY <2>5, <3>1
  <2>7. File(items)[1].field = "timestamp"
    BY <1>4, <2>2, <2>6 DEF Field
  <2> QED
    BY <1>5, <2>7
<1> QED
  BY <1>1, <1>7, <1>9
==============================================================================
