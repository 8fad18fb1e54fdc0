----------------------------- MODULE ItchProofs -----------------------------
(***************************************************************************)
(* Theorems about the modules of itch/: the file reader's mappings and     *)
(* records, for every number of readers, files and addresses; the decoder  *)
(* and the generator with its encoder, for every number of values that a   *)
(* byte, a price or a share count has.                                     *)
(***************************************************************************)
EXTENDS ItchFileReader, ItchRecords, SynthStream, OrderBookOpsProofs,
        SequenceTheorems

-----------------------------------------------------------------------------
(* The file reader. *)

(* The stages of a reader's life. *)
Lives == {"absent", "opened", "sized", "alive"}

(* The members of a FileReader. *)
ReaderValues == [data : Addresses \cup {Null}, size : Nat, offset : Nat]

(* The numbers answered once p records were passed. *)
Answered(f, d, p) ==
  /\ \A i \in 1 .. Len(d) : d[i] <= p /\ (i > 1 => d[i - 1] < d[i])
  /\ \A k \in 1 .. p :
       \/ \E i \in 1 .. Len(d) : d[i] = k
       \/ ~accepts(f.frames[k].type, f.frames[k].len)

(* The offset is behind a whole number of records. *)
Placed(f, rd, d) ==
  \E p \in 0 .. Len(f.frames) :
    rd.offset = BytesUpTo(f, p) /\ rd.offset <= f.size /\ Answered(f, d, p)

(* One reader: l is its life, open its descriptor, f its file, rd its      *)
(* members and d the numbers of the records it answered.                   *)
Kept(l, open, f, rd, d) ==
  /\ open => l \in {"opened", "sized"}
  /\ l = "sized" => rd.size > 0 /\ rd.size = f.size /\ rd.data = Null
  /\ rd.data = Null => rd.offset = 0 /\ d = <<>>
  /\ rd.data # Null => /\ l = "alive" /\ rd.size > 0 /\ rd.size = f.size
                       /\ Placed(f, rd, d)

(* The readers with their mappings m. *)
Owned(rs, m) ==
  /\ \A a \in Addresses : m[a] > 0 => \E r \in Readers : rs[r].data = a
  /\ \A r \in Readers : rs[r].data # Null =>
       /\ m[rs[r].data] = rs[r].size
       /\ \A u \in Readers : rs[u].data = rs[r].data => u = r

ReaderTypeOK ==
  /\ life \in [Readers -> Lives]
  /\ fd \in [Readers -> BOOLEAN]
  /\ file \in [Readers -> Files]
  /\ reader \in [Readers -> ReaderValues]
  /\ mapped \in [Addresses -> Nat]
  /\ delivered \in [Readers -> Seq(Nat)]

AllKept == \A r \in Readers : Kept(life[r], fd[r], file[r], reader[r], delivered[r])

ReaderInv == ReaderTypeOK /\ AllKept /\ Owned(reader, mapped)

-----------------------------------------------------------------------------
(* The files are framed. *)
LEMMA FileFramed ==
  ASSUME NEW f \in Files
  PROVE  /\ IsFramed(f) /\ Len(f.frames) \in Nat
         /\ \A i \in 1 .. Len(f.frames) : f.frames[i].len \in Nat
         /\ f.size \in 0 .. BytesUpTo(f, Len(f.frames))
BY ReaderAssumption DEF IsFramed

(* The bytes of delivered records are a number. *)
LEMMA BytesNat ==
  ASSUME NEW f \in Files, NEW k \in 0 .. Len(f.frames)
  PROVE  BytesUpTo(f, 0) = 0 /\ BytesUpTo(f, k) \in Nat
BY FileFramed, FramedNat

(* One more record adds its prefix and its length. *)
LEMMA BytesStep ==
  ASSUME NEW f \in Files, NEW k \in 1 .. Len(f.frames)
  PROVE  BytesUpTo(f, k) = BytesUpTo(f, k - 1) + 2 + f.frames[k].len
BY FileFramed, FramedStep

(* A longer run of records takes no fewer bytes. *)
LEMMA BytesGrow ==
  ASSUME NEW f \in Files, NEW j \in 0 .. Len(f.frames), NEW k \in 0 .. Len(f.frames),
         j < k
  PROVE  BytesUpTo(f, j) < BytesUpTo(f, k)
BY FileFramed, FramedGrow

(* FrameAt finds the record an offset is in front of. *)
LEMMA FrameAtIs ==
  ASSUME NEW f \in Files, NEW p \in 0 .. Len(f.frames), NEW o, o = BytesUpTo(f, p)
  PROVE  FrameAt(f, o) = p + 1
<1>1. Len(f.frames) \in Nat
  BY FileFramed
<1>2. p + 1 \in 1 .. Len(f.frames) + 1 /\ BytesUpTo(f, (p + 1) - 1) = o
  BY <1>1
<1>3. ASSUME NEW k \in 1 .. Len(f.frames) + 1, BytesUpTo(f, k - 1) = o
      PROVE  k = p + 1
  <2>1. k - 1 \in 0 .. Len(f.frames) /\ k \in Int /\ p \in Int
    BY <1>1
  <2>2. ~(k - 1 < p) /\ ~(p < k - 1)
    <3>1. ASSUME k - 1 < p PROVE BytesUpTo(f, k - 1) < BytesUpTo(f, p)
      BY <3>1, <2>1, BytesGrow
    <3>2. ASSUME p < k - 1 PROVE BytesUpTo(f, p) < BytesUpTo(f, k - 1)
      BY <3>2, <2>1, BytesGrow
    <3>3. o \in Nat
      BY BytesNat
    <3> QED BY <3>1, <3>2, <3>3, <1>3
  <2> QED BY <2>1, <2>2
<1> QED BY <1>2, <1>3 DEF FrameAt

-----------------------------------------------------------------------------
(* A record that fits in the file is the next one, and passing it leaves   *)
(* the offset in front of the one behind it.                               *)
LEMMA PassRecord ==
  ASSUME NEW f \in Files, NEW rd \in ReaderValues, NEW d \in Seq(Nat),
         Placed(f, rd, d), rd.offset + 2 <= f.size,
         NEW k, k = FrameAt(f, rd.offset),
         rd.offset + 2 + f.frames[k].len <= f.size,
         NEW e, e = Append(d, k) \/ (e = d /\ ~accepts(f.frames[k].type, f.frames[k].len)),
         NEW o, o = rd.offset + 2 + f.frames[k].len,
         NEW q, q = [rd EXCEPT !.offset = o]
  PROVE  /\ q \in ReaderValues /\ q.data = rd.data /\ q.size = rd.size
         /\ e \in Seq(Nat) /\ Placed(f, q, e)
<1>1. Len(f.frames) \in Nat /\ f.size \in Int /\ f.size <= BytesUpTo(f, Len(f.frames))
  <2>1. Len(f.frames) \in Nat /\ Len(f.frames) \in 0 .. Len(f.frames)
    BY FileFramed
  <2>2. BytesUpTo(f, Len(f.frames)) \in Nat
    BY ONLY <2>1, BytesNat, f \in Files
  <2>3. f.size \in 0 .. BytesUpTo(f, Len(f.frames))
    BY FileFramed
  <2> QED BY <2>1, <2>2, <2>3
<1>2. PICK p \in 0 .. Len(f.frames) :
        rd.offset = BytesUpTo(f, p) /\ rd.offset <= f.size /\ Answered(f, d, p)
  BY DEF Placed
<1>3. k = p + 1 /\ p \in Nat /\ rd.offset \in Nat
  BY <1>1, <1>2, FrameAtIs DEF ReaderValues
<1>4. k \in 1 .. Len(f.frames) /\ f.frames[k].len \in Nat
  <2>1. p # Len(f.frames)
    BY <1>1, <1>2, <1>3
  <2>2. k \in 1 .. Len(f.frames)
    BY <2>1, <1>1, <1>3
  <2> QED BY <2>2, FileFramed
<1>5. o = BytesUpTo(f, k) /\ o \in Nat
  <2>1. BytesUpTo(f, k) = BytesUpTo(f, k - 1) + 2 + f.frames[k].len
    BY <1>4, BytesStep
  <2>2. k - 1 = p
    BY <1>3
  <2>3. BytesUpTo(f, k - 1) = rd.offset
    BY <2>2, <1>2
  <2>4. o = BytesUpTo(f, k)
    BY <2>1, <2>3
  <2> DEFINE z == f.frames[k].len
  <2>5. z \in Nat /\ rd.offset \in Nat /\ o = rd.offset + 2 + z
    BY <1>3, <1>4
  <2> HIDE DEF z
  <2>6. o \in Nat
    BY ONLY <2>5
  <2> QED BY ONLY <2>4, <2>6
<1>6. q \in ReaderValues /\ q.data = rd.data /\ q.size = rd.size /\ q.offset = o
  BY <1>5 DEF ReaderValues
<1>7. e \in Seq(Nat) /\ k \in Nat
  <2>1. k \in Nat
    BY <1>3
  <2>2. Append(d, k) \in Seq(Nat)
    BY <2>1
  <2> QED BY <2>1, <2>2
<1>8. Answered(f, e, k)
  <2>1. /\ \A i \in 1 .. Len(d) : d[i] <= p /\ (i > 1 => d[i - 1] < d[i])
        /\ \A j \in 1 .. p : \/ \E i \in 1 .. Len(d) : d[i] = j
                             \/ ~accepts(f.frames[j].type, f.frames[j].len)
    BY <1>2 DEF Answered
  <2>2. \A j \in 1 .. k : j \in 1 .. p \/ j = k
    BY <1>3
  <2>3. Len(d) \in Nat /\ \A i \in 1 .. Len(d) : d[i] \in Nat
    OBVIOUS
  <2>4. CASE e = d /\ ~accepts(f.frames[k].type, f.frames[k].len)
    <3>1. \A i \in 1 .. Len(e) : e[i] <= k /\ (i > 1 => e[i - 1] < e[i])
      BY <2>1, <2>3, <2>4, <1>3
    <3>2. \A j \in 1 .. k : \/ \E i \in 1 .. Len(e) : e[i] = j
                            \/ ~accepts(f.frames[j].type, f.frames[j].len)
      BY <2>1, <2>2, <2>4
    <3> QED BY <3>1, <3>2 DEF Answered
  <2>5. CASE e = Append(d, k)
    <3>1. /\ Len(e) = Len(d) + 1 /\ e[Len(d) + 1] = k
          /\ \A i \in 1 .. Len(d) : e[i] = d[i]
      BY <2>5, <1>7
    <3>2. \A i \in 1 .. Len(e) : e[i] <= k /\ (i > 1 => e[i - 1] < e[i])
      <4> SUFFICES ASSUME NEW i \in 1 .. Len(e)
                   PROVE  e[i] <= k /\ (i > 1 => e[i - 1] < e[i])
        OBVIOUS
      <4>1. CASE i \in 1 .. Len(d)
        <5>1. e[i] = d[i] /\ d[i] <= p /\ d[i] \in Nat
          BY <4>1, <3>1, <2>1, <2>3
        <5>2. ASSUME i > 1 PROVE e[i - 1] < e[i]
          <6>1. i - 1 \in 1 .. Len(d)
            BY <4>1, <5>2, <2>3
          <6> QED BY <6>1, <5>1, <5>2, <4>1, <3>1, <2>1
        <5> QED BY <5>1, <5>2, <1>3
      <4>2. CASE i = Len(d) + 1
        <5>1. e[i] = k
          BY <4>2, <3>1
        <5>2. ASSUME i > 1 PROVE e[i - 1] < e[i]
          <6>1. i - 1 \in 1 .. Len(d)
            BY <4>2, <5>2, <2>3
          <6>2. e[i - 1] = d[i - 1] /\ d[i - 1] <= p /\ d[i - 1] \in Nat
            BY <6>1, <3>1, <2>1, <2>3
          <6> QED BY <6>2, <5>1, <1>3
        <5> QED BY <5>1, <5>2, <1>7
      <4> QED BY <4>1, <4>2, <3>1, <2>3
    <3>3. \A j \in 1 .. k : \/ \E i \in 1 .. Len(e) : e[i] = j
                            \/ ~accepts(f.frames[j].type, f.frames[j].len)
      <4>1. \A i \in 1 .. Len(d) : i \in 1 .. Len(e)
        BY <3>1, <2>3
      <4>2. Len(d) + 1 \in 1 .. Len(e)
        BY <3>1, <2>3
      <4> QED BY <4>1, <4>2, <3>1, <2>1, <2>2
    <3> QED BY <3>2, <3>3 DEF Answered
  <2> QED BY <2>4, <2>5
<1>9. k \in 0 .. Len(f.frames) /\ q.offset = BytesUpTo(f, k) /\ q.offset <= f.size
  BY <1>1, <1>4, <1>5, <1>6
<1> QED BY <1>6, <1>7, <1>8, <1>9 DEF Placed

(* The first record is at offset 0. *)
LEMMA PlacedFirst ==
  ASSUME NEW f \in Files, NEW rd, rd.offset = 0
  PROVE  Placed(f, rd, <<>>)
<1>1. Len(f.frames) \in Nat
  BY FileFramed
<1>2. 0 \in 0 .. Len(f.frames) /\ BytesUpTo(f, Len(f.frames)) \in Nat /\ BytesUpTo(f, 0) = 0
  BY <1>1, BytesNat
<1>3. 0 <= f.size
  BY <1>2, FileFramed
<1>4. Answered(f, <<>>, 0)
  BY DEF Answered
<1> QED BY <1>2, <1>3, <1>4 DEF Placed

(* No reader has been built yet. *)
LEMMA InitKept == Init => ReaderInv
<1> SUFFICES ASSUME Init PROVE ReaderInv
  OBVIOUS
<1>1. Fresh \in ReaderValues /\ Fresh.data = Null /\ Fresh.offset = 0
  BY DEF Fresh, ReaderValues
<1>2. ReaderTypeOK
  BY <1>1, ReaderAssumption DEF Init, ReaderTypeOK, Lives
<1>3. AllKept
  BY <1>1 DEF Init, AllKept, Kept
<1>4. Owned(reader, mapped)
  BY <1>1 DEF Init, Owned
<1> QED BY <1>2, <1>3, <1>4 DEF ReaderInv

-----------------------------------------------------------------------------
(* A reader gets a mapping of its own. *)
LEMMA MapOwned ==
  ASSUME NEW rs \in [Readers -> ReaderValues], NEW m \in [Addresses -> Nat],
         Owned(rs, m), NEW r \in Readers, rs[r].data = Null,
         NEW a \in Addresses, m[a] = 0, rs[r].size > 0,
         \A u \in Readers : rs[u].data # Null => rs[u].size > 0
  PROVE  Owned([rs EXCEPT ![r].data = a], [m EXCEPT ![a] = rs[r].size])
<1> DEFINE rt == [rs EXCEPT ![r].data = a]
           n == [m EXCEPT ![a] = rs[r].size]
<1>1. /\ rt[r].data = a /\ rt[r].size = rs[r].size
      /\ \A u \in Readers \ {r} : rt[u] = rs[u]
  BY DEF ReaderValues
<1>2. n[a] = rs[r].size /\ \A b \in Addresses \ {a} : n[b] = m[b]
  OBVIOUS
<1>3. \A u \in Readers : rs[u].data # a
  <2> SUFFICES ASSUME NEW u \in Readers, rs[u].data = a PROVE FALSE
    OBVIOUS
  <2>1. rs[u].size > 0 /\ m[a] = rs[u].size
    BY ReaderAssumption DEF Owned
  <2> QED BY <2>1
<1>4. a # Null
  BY ReaderAssumption
<1> HIDE DEF rt, n
<1>5. \A b \in Addresses : n[b] > 0 => \E u \in Readers : rt[u].data = b
  <2> SUFFICES ASSUME NEW b \in Addresses, n[b] > 0
               PROVE  \E u \in Readers : rt[u].data = b
    OBVIOUS
  <2>1. CASE b = a
    BY <2>1, <1>1
  <2>2. CASE b # a
    <3>1. PICK u \in Readers : rs[u].data = b
      BY <2>2, <1>2 DEF Owned
    <3>2. u # r
      BY <3>1, ReaderAssumption
    <3> QED BY <3>1, <3>2, <1>1
  <2> QED BY <2>1, <2>2
<1>6. ASSUME NEW u \in Readers, rt[u].data # Null
      PROVE  /\ n[rt[u].data] = rt[u].size
             /\ \A v \in Readers : rt[v].data = rt[u].data => v = u
  <2>1. CASE u = r
    BY <2>1, <1>1, <1>2, <1>3
  <2>2. CASE u # r
    <3>1. rt[u] = rs[u] /\ rs[u].data # Null /\ rs[u].data # a
      BY <2>2, <1>1, <1>3, <1>6
    <3>2. rs[u].data \in Addresses \ {a}
      BY <3>1 DEF ReaderValues
    <3>3. n[rs[u].data] = rs[u].size
      BY <3>1, <3>2, <1>2 DEF Owned
    <3>4. ASSUME NEW v \in Readers, rt[v].data = rt[u].data
          PROVE  v = u
      <4>1. v # r
        BY <3>4, <3>1, <1>1
      <4> QED BY <4>1, <3>4, <3>1, <1>1 DEF Owned
    <3> QED BY <3>1, <3>3, <3>4
  <2> QED BY <2>1, <2>2
<1> QED BY <1>5, <1>6 DEF Owned, rt, n

(* What munmap() leaves. *)
UnmappedOf(m, rd) == IF rd.data = Null THEN m ELSE [m EXCEPT ![rd.data] = @ - rd.size]

(* A reader gives its mapping up. *)
LEMMA UnmapOwned ==
  ASSUME NEW rs \in [Readers -> ReaderValues], NEW m \in [Addresses -> Nat],
         Owned(rs, m), NEW r \in Readers
  PROVE  /\ UnmappedOf(m, rs[r]) \in [Addresses -> Nat]
         /\ Owned([rs EXCEPT ![r] = Fresh], UnmappedOf(m, rs[r]))
<1> DEFINE rt == [rs EXCEPT ![r] = Fresh]
           n == UnmappedOf(m, rs[r])
<1>1. rt[r].data = Null /\ \A u \in Readers \ {r} : rt[u] = rs[u]
  BY DEF Fresh
<1>2. CASE rs[r].data = Null
  <2>1. n = m
    BY <1>2 DEF UnmappedOf
  <2> HIDE DEF rt, n
  <2>2. \A b \in Addresses : m[b] > 0 => \E u \in Readers : rt[u].data = b
    <3> SUFFICES ASSUME NEW b \in Addresses, m[b] > 0
                 PROVE  \E u \in Readers : rt[u].data = b
      OBVIOUS
    <3>1. PICK u \in Readers : rs[u].data = b
      BY DEF Owned
    <3>2. u # r
      BY <3>1, <1>2, ReaderAssumption
    <3> QED BY <3>1, <3>2, <1>1
  <2>3. \A u \in Readers : rt[u].data # Null =>
          /\ m[rt[u].data] = rt[u].size
          /\ \A v \in Readers : rt[v].data = rt[u].data => v = u
    BY <1>1 DEF Owned
  <2> QED BY <2>1, <2>2, <2>3 DEF Owned, rt, n
<1>3. CASE rs[r].data # Null
  <2> DEFINE a == rs[r].data
  <2>1. a \in Addresses /\ m[a] = rs[r].size /\ rs[r].size \in Nat
    BY <1>3 DEF Owned, ReaderValues
  <2>2. n = [m EXCEPT ![a] = 0]
    <3>1. m[a] - rs[r].size = 0
      BY <2>1
    <3>2. n = [m EXCEPT ![a] = m[a] - rs[r].size]
      BY <1>3 DEF UnmappedOf
    <3> QED BY <3>1, <3>2
  <2>3. n \in [Addresses -> Nat] /\ n[a] = 0 /\ \A b \in Addresses \ {a} : n[b] = m[b]
    BY <2>1, <2>2
  <2>4. \A u \in Readers \ {r} : rs[u].data # a
    BY <1>3 DEF Owned
  <2> HIDE DEF rt, n, a
  <2>5. \A b \in Addresses : n[b] > 0 => \E u \in Readers : rt[u].data = b
    <3> SUFFICES ASSUME NEW b \in Addresses, n[b] > 0
                 PROVE  \E u \in Readers : rt[u].data = b
      OBVIOUS
    <3>1. b # a /\ m[b] > 0
      BY <2>3
    <3>2. PICK u \in Readers : rs[u].data = b
      BY <3>1 DEF Owned
    <3>3. u # r
      BY <3>1, <3>2 DEF a
    <3> QED BY <3>2, <3>3, <1>1
  <2>6. ASSUME NEW u \in Readers, rt[u].data # Null
        PROVE  /\ n[rt[u].data] = rt[u].size
               /\ \A v \in Readers : rt[v].data = rt[u].data => v = u
    <3>1. u # r /\ rt[u] = rs[u]
      BY <1>1, <2>6
    <3>2. rs[u].data \in Addresses \ {a}
      BY <3>1, <2>4, <2>6 DEF ReaderValues
    <3>3. n[rs[u].data] = rs[u].size
      BY <3>1, <3>2, <2>3, <2>6 DEF Owned
    <3>4. ASSUME NEW v \in Readers, rt[v].data = rt[u].data
          PROVE  v = u
      <4>1. v # r
        BY <3>4, <2>6, <1>1
      <4> QED BY <4>1, <3>4, <3>1, <2>6, <1>1 DEF Owned
    <3> QED BY <3>1, <3>3, <3>4
  <2> QED BY <2>3, <2>5, <2>6 DEF Owned, rt, n
<1> QED BY <1>2, <1>3

(* A mapping changes hands: to, which has none, takes what from has. *)
LEMMA TakeOwned ==
  ASSUME NEW rs \in [Readers -> ReaderValues], NEW m, Owned(rs, m),
         NEW to \in Readers, NEW from \in Readers, to # from, rs[to].data = Null
  PROVE  Owned([rs EXCEPT ![to] = rs[from], ![from] = Fresh], m)
<1> DEFINE rt == [rs EXCEPT ![to] = rs[from], ![from] = Fresh]
<1>1. /\ rt[to] = rs[from] /\ rt[from].data = Null
      /\ \A u \in Readers \ {to, from} : rt[u] = rs[u]
  BY DEF Fresh
<1> HIDE DEF rt
<1>2. \A b \in Addresses : m[b] > 0 => \E u \in Readers : rt[u].data = b
  <2> SUFFICES ASSUME NEW b \in Addresses, m[b] > 0
               PROVE  \E u \in Readers : rt[u].data = b
    OBVIOUS
  <2>1. PICK u \in Readers : rs[u].data = b
    BY DEF Owned
  <2>2. u # to
    BY <2>1, ReaderAssumption
  <2> QED BY <2>1, <2>2, <1>1
<1>3. ASSUME NEW u \in Readers, rt[u].data # Null
      PROVE  /\ m[rt[u].data] = rt[u].size
             /\ \A v \in Readers : rt[v].data = rt[u].data => v = u
  <2>1. u # from
    BY <1>1, <1>3
  <2>2. \A v \in Readers : rt[v].data = rt[u].data => v # from
    BY <1>1, <1>3
  <2> QED BY <2>1, <2>2, <1>1, <1>3 DEF Owned
<1> QED BY <1>2, <1>3 DEF Owned, rt

-----------------------------------------------------------------------------
(* The readers an action leaves alone. *)
Untouched(S) ==
  \A u \in Readers \ S :
    /\ life'[u] = life[u] /\ fd'[u] = fd[u] /\ file'[u] = file[u]
    /\ reader'[u] = reader[u] /\ delivered'[u] = delivered[u]

(* A step of one reader leaves the others as they were. *)
LEMMA KeptOthers ==
  ASSUME AllKept, NEW S, Untouched(S),
         \A r \in S : r \in Readers =>
           Kept(life'[r], fd'[r], file'[r], reader'[r], delivered'[r])
  PROVE  AllKept'
BY DEF AllKept, Untouched

(* What the invariant says of a reader in the different parts of its life. *)
LEMMA KeptFacts ==
  ASSUME ReaderInv, NEW r \in Readers
  PROVE  /\ life[r] \in Lives /\ fd[r] \in BOOLEAN /\ file[r] \in Files
         /\ reader[r] \in ReaderValues /\ delivered[r] \in Seq(Nat)
         /\ Kept(life[r], fd[r], file[r], reader[r], delivered[r])
         /\ life[r] # "alive" =>
              reader[r].data = Null /\ reader[r].offset = 0 /\ delivered[r] = <<>>
         /\ life[r] \in {"absent", "alive"} => fd[r] = FALSE
<1>1. Kept(life[r], fd[r], file[r], reader[r], delivered[r])
  BY DEF ReaderInv, AllKept
<1>2. /\ life[r] \in Lives /\ fd[r] \in BOOLEAN /\ file[r] \in Files
      /\ reader[r] \in ReaderValues /\ delivered[r] \in Seq(Nat)
  BY DEF ReaderInv, ReaderTypeOK
<1> QED BY <1>1, <1>2 DEF Kept

(* What a reader is when its constructor begins. *)
LEMMA FreshFacts ==
  /\ Fresh \in ReaderValues
  /\ Fresh.data = Null /\ Fresh.offset = 0 /\ Fresh.size = 0
BY DEF Fresh, ReaderValues

(* The constructor's open. *)
LEMMA OpenKeeps ==
  ASSUME ReaderInv, NEW r \in Readers, NEW f \in Files, Open(r, f)
  PROVE  ReaderInv'
<1>1. ReaderTypeOK'
  BY DEF ReaderInv, ReaderTypeOK, Open, Lives
<1>2. Untouched({r})
  BY DEF ReaderInv, ReaderTypeOK, Open, Untouched
<1>3. Kept(life'[r], fd'[r], file'[r], reader'[r], delivered'[r])
  <2>1. life'[r] = "opened" /\ reader' = reader /\ delivered' = delivered
    BY DEF ReaderInv, ReaderTypeOK, Open
  <2> QED BY <2>1, KeptFacts DEF Open, Kept
<1>4. AllKept'
  BY <1>2, <1>3, KeptOthers DEF ReaderInv
<1>5. Owned(reader, mapped)'
  BY DEF ReaderInv, Open
<1> QED BY <1>1, <1>4, <1>5 DEF ReaderInv

(* Its fstat. *)
LEMMA StatKeeps ==
  ASSUME ReaderInv, NEW r \in Readers, Stat(r)
  PROVE  ReaderInv'
<1> DEFINE g == [Fresh EXCEPT !.size = file[r].size]
<1>1. /\ life[r] = "opened" /\ reader[r].data = Null /\ delivered[r] = <<>>
      /\ reader[r].offset = 0 /\ file[r] \in Files
  BY KeptFacts DEF Stat
<1>2. file[r].size \in Nat
  <2>1. file[r] \in Files /\ Len(file[r].frames) \in Nat
    BY <1>1, ReaderAssumption
  <2>2. BytesUpTo(file[r], Len(file[r].frames)) \in Nat
    BY <2>1, BytesNat
  <2> QED BY <2>1, <2>2, FileFramed
<1>3. g \in ReaderValues /\ g.data = Null /\ g.offset = 0 /\ g.size = file[r].size
  BY <1>2, FreshFacts DEF ReaderValues
<1>4. Untouched({r}) /\ mapped' = mapped /\ file' = file /\ delivered' = delivered
  BY DEF ReaderInv, ReaderTypeOK, Stat, Untouched
<1>5. /\ reader' \in [Readers -> ReaderValues] /\ life' \in [Readers -> Lives]
      /\ fd' \in [Readers -> BOOLEAN]
  <2>1. reader' \in [Readers -> ReaderValues]
    BY <1>3 DEF ReaderInv, ReaderTypeOK, Stat
  <2>2. life' \in [Readers -> Lives]
    BY DEF ReaderInv, ReaderTypeOK, Stat, Lives
  <2>3. fd' \in [Readers -> BOOLEAN]
    BY DEF ReaderInv, ReaderTypeOK, Stat
  <2> QED BY <2>1, <2>2, <2>3
<1>6. /\ reader'[r].data = Null /\ reader'[r].offset = 0
      /\ life'[r] = "sized" => reader'[r].size = file[r].size /\ file[r].size # 0
      /\ fd'[r] => life'[r] = "sized"
  <2>1. CASE /\ life' = [life EXCEPT ![r] = "absent"]
             /\ fd' = [fd EXCEPT ![r] = FALSE]
             /\ UNCHANGED reader
    BY <2>1, <1>1 DEF ReaderInv, ReaderTypeOK
  <2>2. CASE /\ reader' = [reader EXCEPT ![r] = g]
             /\ life' = [life EXCEPT ![r] = IF file[r].size = 0 THEN "alive" ELSE "sized"]
             /\ fd' = [fd EXCEPT ![r] = file[r].size # 0]
    <3>1. reader'[r] = g
      BY <2>2 DEF ReaderInv, ReaderTypeOK
    <3>2. /\ life'[r] = IF file[r].size = 0 THEN "alive" ELSE "sized"
          /\ fd'[r] = (file[r].size # 0)
      BY <2>2 DEF ReaderInv, ReaderTypeOK
    <3> HIDE DEF g
    <3> QED BY <3>1, <3>2, <1>3
  <2> QED BY <2>1, <2>2 DEF Stat
<1>7. Kept(life'[r], fd'[r], file'[r], reader'[r], delivered'[r])
  <2>1. life'[r] = "sized" => file'[r].size > 0
    BY <1>2, <1>4, <1>6
  <2> QED BY <2>1, <1>1, <1>4, <1>6 DEF Kept
<1>8. AllKept'
  BY <1>4, <1>7, KeptOthers DEF ReaderInv
<1>9. Owned(reader', mapped')
  <2>1. \A u \in Readers : reader'[u].data # reader[u].data => FALSE
    BY <1>1, <1>4, <1>6 DEF Untouched
  <2>2. \A u \in Readers : reader[u].data # Null => reader'[u] = reader[u]
    BY <1>1, <1>4 DEF Untouched
  <2> QED BY <2>1, <2>2, <1>4 DEF ReaderInv, Owned
<1> QED BY <1>4, <1>5, <1>8, <1>9 DEF ReaderInv, ReaderTypeOK

(* Its mmap. *)
LEMMA MapKeeps ==
  ASSUME ReaderInv, NEW r \in Readers, Map(r)
  PROVE  ReaderInv'
<1>1. /\ life[r] = "sized" /\ reader[r].data = Null /\ delivered[r] = <<>>
      /\ reader[r].offset = 0 /\ file[r] \in Files /\ reader[r] \in ReaderValues
      /\ reader[r].size > 0 /\ reader[r].size = file[r].size
  BY KeptFacts DEF Map, Kept
<1>2. /\ fd' = [fd EXCEPT ![r] = FALSE] /\ fd'[r] = FALSE
      /\ file' = file /\ delivered' = delivered
  BY DEF Map, ReaderInv, ReaderTypeOK
<1>3. ASSUME NEW a \in Addresses, mapped[a] = 0,
             mapped' = [mapped EXCEPT ![a] = reader[r].size],
             reader' = [reader EXCEPT ![r].data = a],
             life' = [life EXCEPT ![r] = "alive"]
      PROVE  ReaderInv'
  <2>1. ReaderTypeOK'
    BY <1>1, <1>2, <1>3 DEF ReaderInv, ReaderTypeOK, Lives, ReaderValues
  <2>2. Untouched({r})
    BY <1>2, <1>3 DEF ReaderInv, ReaderTypeOK, Untouched
  <2>3. /\ reader'[r].data = a /\ reader'[r].size = reader[r].size
        /\ reader'[r].offset = reader[r].offset /\ life'[r] = "alive"
    BY <1>3 DEF ReaderInv, ReaderTypeOK, ReaderValues
  <2>4. Placed(file'[r], reader'[r], delivered'[r])
    BY <1>1, <1>2, <2>3, PlacedFirst
  <2>5. Kept(life'[r], fd'[r], file'[r], reader'[r], delivered'[r])
    BY <2>3, <2>4, <1>1, <1>2, ReaderAssumption DEF Kept
  <2>6. AllKept'
    BY <2>2, <2>5, KeptOthers DEF ReaderInv
  <2>7. \A u \in Readers : reader[u].data # Null => reader[u].size > 0
    BY DEF ReaderInv, AllKept, Kept
  <2>8. Owned(reader', mapped')
    BY <2>7, <1>1, <1>3, MapOwned DEF ReaderInv, ReaderTypeOK
  <2> QED BY <2>1, <2>6, <2>8 DEF ReaderInv
<1>4. ASSUME life' = [life EXCEPT ![r] = "absent"],
             reader' = [reader EXCEPT ![r] = Fresh], mapped' = mapped
      PROVE  ReaderInv'
  <2>1. ReaderTypeOK'
    BY <1>2, <1>4, FreshFacts DEF ReaderInv, ReaderTypeOK, Lives
  <2>2. Untouched({r}) /\ reader'[r] = Fresh /\ life'[r] = "absent"
    BY <1>2, <1>4 DEF ReaderInv, ReaderTypeOK, Untouched
  <2>3. Kept(life'[r], fd'[r], file'[r], reader'[r], delivered'[r])
    BY <2>2, <1>1, <1>2, FreshFacts DEF Kept
  <2>4. AllKept'
    BY <2>2, <2>3, KeptOthers DEF ReaderInv
  <2>5. Owned(reader', mapped')
    <3>1. UnmappedOf(mapped, reader[r]) = mapped
      BY <1>1 DEF UnmappedOf
    <3> QED BY <3>1, <1>4, UnmapOwned DEF ReaderInv, ReaderTypeOK
  <2> QED BY <2>1, <2>4, <2>5 DEF ReaderInv
<1> QED BY <1>3, <1>4 DEF Map

(* The destructor. *)
LEMMA DestroyKeeps ==
  ASSUME ReaderInv, NEW r \in Readers, Destroy(r)
  PROVE  ReaderInv'
<1>1. mapped' = UnmappedOf(mapped, reader[r])
  BY DEF Destroy, Unmapped, UnmappedOf
<1>2. mapped' \in [Addresses -> Nat] /\ Owned(reader', mapped')
  <2>1. /\ reader \in [Readers -> ReaderValues] /\ mapped \in [Addresses -> Nat]
        /\ Owned(reader, mapped) /\ reader' = [reader EXCEPT ![r] = Fresh]
    BY DEF ReaderInv, ReaderTypeOK, Destroy
  <2> QED BY <2>1, <1>1, UnmapOwned
<1>3. ReaderTypeOK'
  BY <1>2, FreshFacts DEF ReaderInv, ReaderTypeOK, Lives, Destroy
<1>4. /\ Untouched({r}) /\ reader'[r] = Fresh /\ life'[r] = "absent"
      /\ delivered'[r] = <<>> /\ fd'[r] = FALSE
  BY KeptFacts DEF ReaderInv, ReaderTypeOK, Untouched, Destroy
<1>5. Kept(life'[r], fd'[r], file'[r], reader'[r], delivered'[r])
  BY <1>4, FreshFacts DEF Kept
<1>6. AllKept'
  BY <1>4, <1>5, KeptOthers DEF ReaderInv
<1> QED BY <1>2, <1>3, <1>6 DEF ReaderInv

(* What to and from are after the exchanges. *)
LEMMA TakeKeeps ==
  ASSUME ReaderInv, NEW to \in Readers, NEW from \in Readers, to # from,
         Take(to, from), life[from] = "alive", fd' = fd, fd[to] = FALSE,
         life' = [life EXCEPT ![to] = "alive"]
  PROVE  /\ AllKept'
         /\ reader' \in [Readers -> ReaderValues] /\ life' \in [Readers -> Lives]
         /\ file' \in [Readers -> Files] /\ delivered' \in [Readers -> Seq(Nat)]
<1>1. /\ reader' \in [Readers -> ReaderValues] /\ life' \in [Readers -> Lives]
      /\ file' \in [Readers -> Files] /\ delivered' \in [Readers -> Seq(Nat)]
  <2>1. reader' \in [Readers -> ReaderValues]
    BY FreshFacts DEF ReaderInv, ReaderTypeOK, Take
  <2>2. life' \in [Readers -> Lives]
    BY DEF ReaderInv, ReaderTypeOK, Lives
  <2>3. file' \in [Readers -> Files]
    BY DEF ReaderInv, ReaderTypeOK, Take
  <2>4. delivered' \in [Readers -> Seq(Nat)]
    <3>1. <<>> \in Seq(Nat)
      OBVIOUS
    <3> QED BY <3>1 DEF ReaderInv, ReaderTypeOK, Take
  <2> QED BY <2>1, <2>2, <2>3, <2>4
<1>2. Untouched({to, from})
  BY DEF ReaderInv, ReaderTypeOK, Take, Untouched
<1>3. /\ reader'[to] = reader[from] /\ file'[to] = file[from]
      /\ delivered'[to] = delivered[from] /\ life'[to] = "alive" /\ fd'[to] = FALSE
      /\ reader'[from] = Fresh /\ delivered'[from] = <<>> /\ life'[from] = "alive"
      /\ fd'[from] = FALSE
  BY KeptFacts DEF ReaderInv, ReaderTypeOK, Take
<1>4. Kept(life'[to], fd'[to], file'[to], reader'[to], delivered'[to])
  BY <1>3, KeptFacts DEF Kept
<1>5. Kept(life'[from], fd'[from], file'[from], reader'[from], delivered'[from])
  BY <1>3, FreshFacts DEF Kept
<1>6. AllKept'
  BY <1>2, <1>4, <1>5, KeptOthers DEF ReaderInv
<1> QED BY <1>1, <1>6

(* The move constructor. *)
LEMMA MoveConstructKeeps ==
  ASSUME ReaderInv, NEW to \in Readers, NEW from \in Readers, MoveConstruct(to, from)
  PROVE  ReaderInv'
<1>1. to # from /\ fd[to] = FALSE /\ reader[to].data = Null
  BY KeptFacts DEF MoveConstruct
<1>2. /\ AllKept'
      /\ reader' \in [Readers -> ReaderValues] /\ life' \in [Readers -> Lives]
      /\ file' \in [Readers -> Files] /\ delivered' \in [Readers -> Seq(Nat)]
  BY <1>1, TakeKeeps DEF MoveConstruct
<1>3. Owned(reader', mapped')
  BY <1>1, TakeOwned DEF ReaderInv, ReaderTypeOK, MoveConstruct, Take
<1> QED BY <1>2, <1>3 DEF ReaderInv, ReaderTypeOK, MoveConstruct

(* The move assignment. *)
LEMMA MoveAssignKeeps ==
  ASSUME ReaderInv, NEW to \in Readers, NEW from \in Readers, MoveAssign(to, from),
         to # from
  PROVE  ReaderInv'
<1> DEFINE rs == [reader EXCEPT ![to] = Fresh]
           m == UnmappedOf(mapped, reader[to])
<1>1. /\ fd[to] = FALSE /\ life[to] = "alive" /\ life[from] = "alive"
      /\ life' = life /\ fd' = fd /\ Take(to, from)
  BY KeptFacts DEF MoveAssign
<1>2. mapped' = m
  BY DEF MoveAssign, Unmapped, UnmappedOf
<1>3. life' = [life EXCEPT ![to] = "alive"]
  BY <1>1 DEF ReaderInv, ReaderTypeOK
<1>4. /\ AllKept'
      /\ reader' \in [Readers -> ReaderValues] /\ life' \in [Readers -> Lives]
      /\ file' \in [Readers -> Files] /\ delivered' \in [Readers -> Seq(Nat)]
  BY <1>1, <1>3, TakeKeeps
<1>5. m \in [Addresses -> Nat] /\ Owned(rs, m)
  BY UnmapOwned DEF ReaderInv, ReaderTypeOK
<1>6. rs \in [Readers -> ReaderValues] /\ rs[to].data = Null /\ rs[from] = reader[from]
  BY FreshFacts DEF ReaderInv, ReaderTypeOK
<1>7. reader' = [rs EXCEPT ![to] = rs[from], ![from] = Fresh]
  BY <1>1, <1>6 DEF Take, ReaderInv, ReaderTypeOK
<1> HIDE DEF rs, m
<1>8. Owned(reader', mapped')
  BY <1>2, <1>5, <1>6, <1>7, TakeOwned
<1> QED BY <1>1, <1>2, <1>4, <1>5, <1>8 DEF ReaderInv, ReaderTypeOK

(* next_message. *)
LEMMA NextMessageKeeps ==
  ASSUME ReaderInv, NEW r \in Readers, NEW whole \in BOOLEAN, NextMessage(r, whole)
  PROVE  ReaderInv'
<1> DEFINE f == file[r]
           rd == reader[r]
           d == delivered[r]
           k == FrameAt(f, rd.offset)
           e == IF whole \/ accepts(f.frames[k].type, f.frames[k].len)
                THEN Append(d, k) ELSE d
           o == rd.offset + 2 + f.frames[k].len
           q == [rd EXCEPT !.offset = o]
<1>1. /\ life[r] = "alive" /\ fd[r] = FALSE /\ f \in Files /\ rd \in ReaderValues
      /\ d \in Seq(Nat) /\ Kept(life[r], fd[r], f, rd, d)
  BY KeptFacts DEF NextMessage
<1>2. /\ rd.data # Null /\ rd.offset + 2 <= rd.size /\ o <= rd.size
  BY DEF NextMessage, HasNext
<1>3. Placed(f, rd, d) /\ rd.size = f.size
  BY <1>1, <1>2 DEF Kept
<1>4. e = Append(d, k) \/ (e = d /\ ~accepts(f.frames[k].type, f.frames[k].len))
  OBVIOUS
<1>5. /\ life' = life /\ file' = file /\ fd' = fd /\ mapped' = mapped
      /\ reader' = [reader EXCEPT ![r] = q] /\ delivered' = [delivered EXCEPT ![r] = e]
  BY DEF NextMessage, ReaderInv, ReaderTypeOK
<1>6. /\ q \in ReaderValues /\ q.data = rd.data /\ q.size = rd.size
      /\ e \in Seq(Nat) /\ Placed(f, q, e)
  <2> HIDE DEF e, f, rd, d
  <2> QED BY <1>1, <1>2, <1>3, <1>4, PassRecord
<1> HIDE DEF q, e, k, o
<1>7. ReaderTypeOK'
  BY <1>5, <1>6 DEF ReaderInv, ReaderTypeOK
<1>8. Untouched({r}) /\ reader'[r] = q /\ delivered'[r] = e
  BY <1>5 DEF ReaderInv, ReaderTypeOK, Untouched
<1>9. Kept(life'[r], fd'[r], file'[r], reader'[r], delivered'[r])
  BY <1>1, <1>2, <1>3, <1>5, <1>6, <1>8 DEF Kept
<1>10. AllKept'
  BY <1>8, <1>9, KeptOthers DEF ReaderInv
<1>11. Owned(reader', mapped')
  <2>1. \A u \in Readers : reader'[u].data = reader[u].data /\ reader'[u].size = reader[u].size
    BY <1>6, <1>8 DEF Untouched
  <2> QED BY <2>1, <1>5 DEF ReaderInv, Owned
<1> QED BY <1>7, <1>10, <1>11 DEF ReaderInv

(* Every step of a reader keeps the invariant. *)
LEMMA StepKeeps == ReaderInv /\ [Next]_vars => ReaderInv'
<1> SUFFICES ASSUME ReaderInv, [Next]_vars PROVE ReaderInv'
  OBVIOUS
<1>1. CASE UNCHANGED vars
  BY <1>1 DEF vars, ReaderInv, ReaderTypeOK, AllKept
<1>2. ASSUME NEW r \in Readers, NEW f \in Files, Open(r, f) PROVE ReaderInv'
  BY <1>2, OpenKeeps
<1>3. ASSUME NEW r \in Readers, Stat(r) PROVE ReaderInv'
  BY <1>3, StatKeeps
<1>4. ASSUME NEW r \in Readers, Map(r) PROVE ReaderInv'
  BY <1>4, MapKeeps
<1>5. ASSUME NEW r \in Readers, Destroy(r) PROVE ReaderInv'
  BY <1>5, DestroyKeeps
<1>6. ASSUME NEW r \in Readers, NEW from \in Readers, MoveConstruct(r, from)
      PROVE  ReaderInv'
  BY <1>6, MoveConstructKeeps
<1>7. ASSUME NEW r \in Readers, NEW from \in Readers, MoveAssign(r, from)
      PROVE  ReaderInv'
  <2>1. CASE r = from
    BY <2>1, <1>1, <1>7 DEF MoveAssign
  <2>2. CASE r # from
    BY <2>2, <1>7, MoveAssignKeeps
  <2> QED BY <2>1, <2>2
<1>8. ASSUME NEW r \in Readers, NEW whole \in BOOLEAN, NextMessage(r, whole)
      PROVE  ReaderInv'
  BY <1>8, NextMessageKeeps
<1>9. ASSUME NEW r \in Readers, AtEnd(r) PROVE ReaderInv'
  BY <1>9, <1>1 DEF AtEnd
<1> QED BY <1>1, <1>2, <1>3, <1>4, <1>5, <1>6, <1>7, <1>8, <1>9 DEF Next

(* It holds throughout. *)
LEMMA ReaderInvariant == Spec => []ReaderInv
BY InitKept, StepKeeps, PTL DEF Spec

-----------------------------------------------------------------------------
(* Whatever is constructed, moved, assigned and destroyed, and whichever   *)
(* of the constructor's system calls fail, every mapping has one owner and *)
(* no descriptor is left open.                                             *)
THEOREM MappingsOwnedOnce == Spec => []OwnedOnce
<1>1. ASSUME ReaderInv PROVE OwnedOnce
  <2>1. \A r \in Readers : fd[r] => life[r] \in {"opened", "sized"}
    BY <1>1 DEF ReaderInv, AllKept, Kept
  <2>2. \A r \in Readers : reader[r].data # Null => life[r] = "alive"
    BY <1>1 DEF ReaderInv, AllKept, Kept
  <2>3. ASSUME NEW a \in Addresses, mapped[a] > 0
        PROVE  \E r \in Readers : life[r] = "alive" /\ reader[r].data = a
    BY <1>1, <2>2, <2>3, ReaderAssumption DEF ReaderInv, Owned
  <2>4. \A r \in Readers : reader[r].data # Null =>
          /\ mapped[reader[r].data] = reader[r].size
          /\ \A u \in Readers : reader[u].data = reader[r].data => u = r
    BY <1>1 DEF ReaderInv, Owned
  <2> QED BY <2>1, <2>2, <2>3, <2>4 DEF OwnedOnce
<1> QED BY <1>1, ReaderInvariant, PTL

(* Across any moves between calls, the records of a file are answered in   *)
(* order, once, without the one the file's end cuts off, and only those    *)
(* are left out that decode() refuses.                                     *)
THEOREM RecordsComeInOrder == Spec => []RecordsInOrder
<1>1. ASSUME ReaderInv PROVE RecordsInOrder
  <2> DEFINE f(r) == file[r]
             d(r) == delivered[r]
             passed(r) == FrameAt(f(r), reader[r].offset) - 1
  <2> SUFFICES ASSUME NEW r \in Readers, reader[r].data # Null
               PROVE  /\ BytesUpTo(f(r), passed(r)) <= f(r).size
                      /\ Answered(f(r), d(r), passed(r))
    BY DEF RecordsInOrder, Answered
  <2>1. f(r) \in Files /\ Placed(f(r), reader[r], d(r))
    BY <1>1, KeptFacts DEF Kept
  <2>2. PICK p \in 0 .. Len(f(r).frames) :
          /\ reader[r].offset = BytesUpTo(f(r), p) /\ reader[r].offset <= f(r).size
          /\ Answered(f(r), d(r), p)
    BY <2>1 DEF Placed
  <2>3. passed(r) = p
    BY <2>1, <2>2, FrameAtIs
  <2> QED BY <2>2, <2>3
<1> QED BY <1>1, ReaderInvariant, PTL

(* The decoder's tables: at[f] is the offset and width of field f, and wl  *)
(* the length of the record.  The fields cover the bytes behind the letter *)
(* of the type, and no two of them share one.                              *)
Tiles(at, wl) ==
  /\ wl \in Nat /\ wl >= 12
  /\ \A f \in DOMAIN at : /\ at[f][1] \in Nat /\ at[f][2] \in Nat
                          /\ at[f][1] >= 1 /\ at[f][1] + at[f][2] <= wl
  /\ \A p \in 1 .. wl - 1 :
       \E f \in DOMAIN at : at[f][1] <= p /\ p < at[f][1] + at[f][2]
  /\ \A f, g \in DOMAIN at : \/ f = g
                             \/ at[f][1] + at[f][2] <= at[g][1]
                             \/ at[g][1] + at[g][2] <= at[f][1]

(* The fields in the order A of the encoder stand one behind the other     *)
(* where the decoder reads them, and none is left out.                     *)
Follows(at, wl, A) ==
  /\ Len(A) \in Nat /\ Len(A) >= 1
  /\ \A i \in 1 .. Len(A) : A[i][1] \in DOMAIN at /\ at[A[i][1]][2] = A[i][2]
  /\ at[A[1][1]][1] = 1
  /\ \A i \in 1 .. Len(A) - 1 : at[A[i + 1][1]][1] = at[A[i][1]][1] + A[i][2]
  /\ at[A[Len(A)][1]][1] + A[Len(A)][2] = wl
  /\ \A f \in DOMAIN at : \E i \in 1 .. Len(A) : A[i][1] = f

(* The types that generate() writes. *)
Written == MessageTypes \ {"OrderExecutedWithPrice"}

(* Every decoder reads a tiling of its record, every encoder appends the   *)
(* fields where they are read.                                             *)
LEMMA Tables ==
  ASSUME NEW t \in MessageTypes,
         NEW at, at = FieldsAt(t), NEW wl, wl = wire_length(t),
         NEW A, A = HeaderAppends \o Appends(t)
  PROVE  Tiles(at, wl) /\ (t \in Written => Follows(at, wl, A))
<1>1. CASE t = "SystemEvent"
  <2>1. /\ DOMAIN at = {"stock_locate", "tracking_number", "timestamp",
                          "event_code"}
        /\ at["stock_locate"] = <<1, 2>> /\ at["tracking_number"] = <<3, 2>>
        /\ at["timestamp"] = <<5, 6>> /\ at["event_code"] = <<11, 1>>
        /\ wl = 12
    BY <1>1 DEF FieldsAt, And, PayloadAt, HeaderAt, wire_length
  <2>2. \A f \in DOMAIN at : /\ at[f][1] \in Nat /\ at[f][2] \in Nat
                              /\ at[f][1] >= 1 /\ at[f][1] + at[f][2] <= wl
    BY ONLY <2>1
  <2>3. \A p \in 1 .. wl - 1 :
          \E f \in DOMAIN at : at[f][1] <= p /\ p < at[f][1] + at[f][2]
    BY ONLY <2>1
  <2>4. \A f, g \in DOMAIN at : \/ f = g
                                \/ at[f][1] + at[f][2] <= at[g][1]
                                \/ at[g][1] + at[g][2] <= at[f][1]
    BY ONLY <2>1
  <2>5. wl \in Nat /\ wl >= 12
    BY ONLY <2>1
  <2>6. Tiles(at, wl)
    BY ONLY <2>2, <2>3, <2>4, <2>5 DEF Tiles
  <2>7. /\ Len(A) = 4 /\ A[1] = <<"stock_locate", 2>>
        /\ A[2] = <<"tracking_number", 2>> /\ A[3] = <<"timestamp", 6>>
        /\ A[4] = <<"event_code", 1>>
    BY <1>1 DEF HeaderAppends, Appends
  <2>8. \A i \in 1 .. Len(A) : A[i][1] \in DOMAIN at /\ at[A[i][1]][2] = A[i][2]
    BY ONLY <2>1, <2>7
  <2>9. /\ Len(A) \in Nat /\ Len(A) >= 1
        /\ at[A[1][1]][1] = 1 /\ at[A[Len(A)][1]][1] + A[Len(A)][2] = wl
    BY ONLY <2>1, <2>7
  <2>10. \A i \in 1 .. Len(A) - 1 : at[A[i + 1][1]][1] = at[A[i][1]][1] + A[i][2]
    BY ONLY <2>1, <2>7
  <2>11. \A f \in DOMAIN at : \E i \in 1 .. Len(A) : A[i][1] = f
    BY ONLY <2>1, <2>7
  <2>12. Follows(at, wl, A)
    BY ONLY <2>8, <2>9, <2>10, <2>11 DEF Follows
  <2> QED BY ONLY <2>6, <2>12
<1>2. CASE t = "StockDirectory"
  <2>1. /\ DOMAIN at = {"stock_locate", "tracking_number", "timestamp",
                          "stock", "market_category",
                          "financial_status_indicator", "round_lot_size",
                          "round_lots_only", "issue_classification",
                          "issue_subtype", "authenticity",
                          "short_sale_threshold_indicator", "ipo_flag",
                          "luld_reference_price_tier", "etp_flag",
                          "etp_leverage_factor", "inverse_indicator"}
        /\ at["stock_locate"] = <<1, 2>> /\ at["tracking_number"] = <<3, 2>>
        /\ at["timestamp"] = <<5, 6>> /\ at["stock"] = <<11, 8>>
        /\ at["market_category"] = <<19, 1>>
        /\ at["financial_status_indicator"] = <<20, 1>>
        /\ at["round_lot_size"] = <<21, 4>>
        /\ at["round_lots_only"] = <<25, 1>>
        /\ at["issue_classification"] = <<26, 1>>
        /\ at["issue_subtype"] = <<27, 2>> /\ at["authenticity"] = <<29, 1>>
        /\ at["short_sale_threshold_indicator"] = <<30, 1>>
        /\ at["ipo_flag"] = <<31, 1>>
        /\ at["luld_reference_price_tier"] = <<32, 1>>
        /\ at["etp_flag"] = <<33, 1>> /\ at["etp_leverage_factor"] = <<34, 4>>
        /\ at["inverse_indicator"] = <<38, 1>>
        /\ wl = 39
    BY <1>2 DEF FieldsAt, And, PayloadAt, StockDirectoryAt, HeaderAt, wire_length
  <2>2. \A f \in DOMAIN at : /\ at[f][1] \in Nat /\ at[f][2] \in Nat
                              /\ at[f][1] >= 1 /\ at[f][1] + at[f][2] <= wl
    BY ONLY <2>1
  <2>3. \A p \in 1 .. wl - 1 :
          \E f \in DOMAIN at : at[f][1] <= p /\ p < at[f][1] + at[f][2]
    BY ONLY <2>1
  <2>4. \A f, g \in DOMAIN at : \/ f = g
                                \/ at[f][1] + at[f][2] <= at[g][1]
                                \/ at[g][1] + at[g][2] <= at[f][1]
    BY ONLY <2>1
  <2>5. wl \in Nat /\ wl >= 12
    BY ONLY <2>1
  <2>6. Tiles(at, wl)
    BY ONLY <2>2, <2>3, <2>4, <2>5 DEF Tiles
  <2>7. /\ Len(A) = 17 /\ A[1] = <<"stock_locate", 2>>
        /\ A[2] = <<"tracking_number", 2>> /\ A[3] = <<"timestamp", 6>>
        /\ A[4] = <<"stock", 8>> /\ A[5] = <<"market_category", 1>>
        /\ A[6] = <<"financial_status_indicator", 1>>
        /\ A[7] = <<"round_lot_size", 4>> /\ A[8] = <<"round_lots_only", 1>>
        /\ A[9] = <<"issue_classification", 1>>
        /\ A[10] = <<"issue_subtype", 2>> /\ A[11] = <<"authenticity", 1>>
        /\ A[12] = <<"short_sale_threshold_indicator", 1>>
        /\ A[13] = <<"ipo_flag", 1>>
        /\ A[14] = <<"luld_reference_price_tier", 1>>
        /\ A[15] = <<"etp_flag", 1>> /\ A[16] = <<"etp_leverage_factor", 4>>
        /\ A[17] = <<"inverse_indicator", 1>>
    BY <1>2 DEF HeaderAppends, Appends, StockDirectoryAppends
  <2>8. \A i \in 1 .. Len(A) : A[i][1] \in DOMAIN at /\ at[A[i][1]][2] = A[i][2]
    BY ONLY <2>1, <2>7
  <2>9. /\ Len(A) \in Nat /\ Len(A) >= 1
        /\ at[A[1][1]][1] = 1 /\ at[A[Len(A)][1]][1] + A[Len(A)][2] = wl
    BY ONLY <2>1, <2>7
  <2>10. \A i \in 1 .. Len(A) - 1 : at[A[i + 1][1]][1] = at[A[i][1]][1] + A[i][2]
    BY ONLY <2>1, <2>7
  <2>11. \A f \in DOMAIN at : \E i \in 1 .. Len(A) : A[i][1] = f
    BY ONLY <2>1, <2>7
  <2>12. Follows(at, wl, A)
    BY ONLY <2>8, <2>9, <2>10, <2>11 DEF Follows
  <2> QED BY ONLY <2>6, <2>12
<1>3. CASE t = "AddOrder"
  <2>1. /\ DOMAIN at = {"stock_locate", "tracking_number", "timestamp",
                          "order_reference_number", "buy_sell_indicator",
                          "shares", "stock", "price"}
        /\ at["stock_locate"] = <<1, 2>> /\ at["tracking_number"] = <<3, 2>>
        /\ at["timestamp"] = <<5, 6>>
        /\ at["order_reference_number"] = <<11, 8>>
        /\ at["buy_sell_indicator"] = <<19, 1>> /\ at["shares"] = <<20, 4>>
        /\ at["stock"] = <<24, 8>> /\ at["price"] = <<32, 4>>
        /\ wl = 36
    BY <1>3 DEF FieldsAt, And, PayloadAt, AddOrderAt, HeaderAt, wire_length
  <2>2. \A f \in DOMAIN at : /\ at[f][1] \in Nat /\ at[f][2] \in Nat
                              /\ at[f][1] >= 1 /\ at[f][1] + at[f][2] <= wl
    BY ONLY <2>1
  <2>3. \A p \in 1 .. wl - 1 :
          \E f \in DOMAIN at : at[f][1] <= p /\ p < at[f][1] + at[f][2]
    BY ONLY <2>1
  <2>4. \A f, g \in DOMAIN at : \/ f = g
                                \/ at[f][1] + at[f][2] <= at[g][1]
                                \/ at[g][1] + at[g][2] <= at[f][1]
    BY ONLY <2>1
  <2>5. wl \in Nat /\ wl >= 12
    BY ONLY <2>1
  <2>6. Tiles(at, wl)
    BY ONLY <2>2, <2>3, <2>4, <2>5 DEF Tiles
  <2>7. /\ Len(A) = 8 /\ A[1] = <<"stock_locate", 2>>
        /\ A[2] = <<"tracking_number", 2>> /\ A[3] = <<"timestamp", 6>>
        /\ A[4] = <<"order_reference_number", 8>>
        /\ A[5] = <<"buy_sell_indicator", 1>> /\ A[6] = <<"shares", 4>>
        /\ A[7] = <<"stock", 8>> /\ A[8] = <<"price", 4>>
    BY <1>3 DEF HeaderAppends, Appends, AddOrderAppends
  <2>8. \A i \in 1 .. Len(A) : A[i][1] \in DOMAIN at /\ at[A[i][1]][2] = A[i][2]
    BY ONLY <2>1, <2>7
  <2>9. /\ Len(A) \in Nat /\ Len(A) >= 1
        /\ at[A[1][1]][1] = 1 /\ at[A[Len(A)][1]][1] + A[Len(A)][2] = wl
    BY ONLY <2>1, <2>7
  <2>10. \A i \in 1 .. Len(A) - 1 : at[A[i + 1][1]][1] = at[A[i][1]][1] + A[i][2]
    BY ONLY <2>1, <2>7
  <2>11. \A f \in DOMAIN at : \E i \in 1 .. Len(A) : A[i][1] = f
    BY ONLY <2>1, <2>7
  <2>12. Follows(at, wl, A)
    BY ONLY <2>8, <2>9, <2>10, <2>11 DEF Follows
  <2> QED BY ONLY <2>6, <2>12
<1>4. CASE t = "AddOrderMPID"
  <2>1. /\ DOMAIN at = {"stock_locate", "tracking_number", "timestamp",
                          "order_reference_number", "buy_sell_indicator",
                          "shares", "stock", "price", "attribution"}
        /\ at["stock_locate"] = <<1, 2>> /\ at["tracking_number"] = <<3, 2>>
        /\ at["timestamp"] = <<5, 6>>
        /\ at["order_reference_number"] = <<11, 8>>
        /\ at["buy_sell_indicator"] = <<19, 1>> /\ at["shares"] = <<20, 4>>
        /\ at["stock"] = <<24, 8>> /\ at["price"] = <<32, 4>>
        /\ at["attribution"] = <<36, 4>>
        /\ wl = 40
    BY <1>4 DEF FieldsAt, And, PayloadAt, AddOrderAt, HeaderAt, wire_length
  <2>2. \A f \in DOMAIN at : /\ at[f][1] \in Nat /\ at[f][2] \in Nat
                              /\ at[f][1] >= 1 /\ at[f][1] + at[f][2] <= wl
    BY ONLY <2>1
  <2>3. \A p \in 1 .. wl - 1 :
          \E f \in DOMAIN at : at[f][1] <= p /\ p < at[f][1] + at[f][2]
    BY ONLY <2>1
  <2>4. \A f, g \in DOMAIN at : \/ f = g
                                \/ at[f][1] + at[f][2] <= at[g][1]
                                \/ at[g][1] + at[g][2] <= at[f][1]
    BY ONLY <2>1
  <2>5. wl \in Nat /\ wl >= 12
    BY ONLY <2>1
  <2>6. Tiles(at, wl)
    BY ONLY <2>2, <2>3, <2>4, <2>5 DEF Tiles
  <2>7. /\ Len(A) = 9 /\ A[1] = <<"stock_locate", 2>>
        /\ A[2] = <<"tracking_number", 2>> /\ A[3] = <<"timestamp", 6>>
        /\ A[4] = <<"order_reference_number", 8>>
        /\ A[5] = <<"buy_sell_indicator", 1>> /\ A[6] = <<"shares", 4>>
        /\ A[7] = <<"stock", 8>> /\ A[8] = <<"price", 4>>
        /\ A[9] = <<"attribution", 4>>
    BY <1>4 DEF HeaderAppends, Appends, AddOrderAppends
  <2>8. \A i \in 1 .. Len(A) : A[i][1] \in DOMAIN at /\ at[A[i][1]][2] = A[i][2]
    BY ONLY <2>1, <2>7
  <2>9. /\ Len(A) \in Nat /\ Len(A) >= 1
        /\ at[A[1][1]][1] = 1 /\ at[A[Len(A)][1]][1] + A[Len(A)][2] = wl
    BY ONLY <2>1, <2>7
  <2>10. \A i \in 1 .. Len(A) - 1 : at[A[i + 1][1]][1] = at[A[i][1]][1] + A[i][2]
    BY ONLY <2>1, <2>7
  <2>11. \A f \in DOMAIN at : \E i \in 1 .. Len(A) : A[i][1] = f
    BY ONLY <2>1, <2>7
  <2>12. Follows(at, wl, A)
    BY ONLY <2>8, <2>9, <2>10, <2>11 DEF Follows
  <2> QED BY ONLY <2>6, <2>12
<1>5. CASE t = "OrderExecuted"
  <2>1. /\ DOMAIN at = {"stock_locate", "tracking_number", "timestamp",
                          "order_reference_number", "executed_shares",
                          "match_number"}
        /\ at["stock_locate"] = <<1, 2>> /\ at["tracking_number"] = <<3, 2>>
        /\ at["timestamp"] = <<5, 6>>
        /\ at["order_reference_number"] = <<11, 8>>
        /\ at["executed_shares"] = <<19, 4>> /\ at["match_number"] = <<23, 8>>
        /\ wl = 31
    BY <1>5 DEF FieldsAt, And, PayloadAt, OrderExecutedAt, HeaderAt, wire_length
  <2>2. \A f \in DOMAIN at : /\ at[f][1] \in Nat /\ at[f][2] \in Nat
                              /\ at[f][1] >= 1 /\ at[f][1] + at[f][2] <= wl
    BY ONLY <2>1
  <2>3. \A p \in 1 .. wl - 1 :
          \E f \in DOMAIN at : at[f][1] <= p /\ p < at[f][1] + at[f][2]
    BY ONLY <2>1
  <2>4. \A f, g \in DOMAIN at : \/ f = g
                                \/ at[f][1] + at[f][2] <= at[g][1]
                                \/ at[g][1] + at[g][2] <= at[f][1]
    BY ONLY <2>1
  <2>5. wl \in Nat /\ wl >= 12
    BY ONLY <2>1
  <2>6. Tiles(at, wl)
    BY ONLY <2>2, <2>3, <2>4, <2>5 DEF Tiles
  <2>7. /\ Len(A) = 6 /\ A[1] = <<"stock_locate", 2>>
        /\ A[2] = <<"tracking_number", 2>> /\ A[3] = <<"timestamp", 6>>
        /\ A[4] = <<"order_reference_number", 8>>
        /\ A[5] = <<"executed_shares", 4>> /\ A[6] = <<"match_number", 8>>
    BY <1>5 DEF HeaderAppends, Appends
  <2>8. \A i \in 1 .. Len(A) : A[i][1] \in DOMAIN at /\ at[A[i][1]][2] = A[i][2]
    BY ONLY <2>1, <2>7
  <2>9. /\ Len(A) \in Nat /\ Len(A) >= 1
        /\ at[A[1][1]][1] = 1 /\ at[A[Len(A)][1]][1] + A[Len(A)][2] = wl
    BY ONLY <2>1, <2>7
  <2>10. \A i \in 1 .. Len(A) - 1 : at[A[i + 1][1]][1] = at[A[i][1]][1] + A[i][2]
    BY ONLY <2>1, <2>7
  <2>11. \A f \in DOMAIN at : \E i \in 1 .. Len(A) : A[i][1] = f
    BY ONLY <2>1, <2>7
  <2>12. Follows(at, wl, A)
    BY ONLY <2>8, <2>9, <2>10, <2>11 DEF Follows
  <2> QED BY ONLY <2>6, <2>12
<1>6. CASE t = "OrderExecutedWithPrice"
  <2>1. /\ DOMAIN at = {"stock_locate", "tracking_number", "timestamp",
                          "order_reference_number", "executed_shares",
                          "match_number", "printable", "execution_price"}
        /\ at["stock_locate"] = <<1, 2>> /\ at["tracking_number"] = <<3, 2>>
        /\ at["timestamp"] = <<5, 6>>
        /\ at["order_reference_number"] = <<11, 8>>
        /\ at["executed_shares"] = <<19, 4>> /\ at["match_number"] = <<23, 8>>
        /\ at["printable"] = <<31, 1>> /\ at["execution_price"] = <<32, 4>>
        /\ wl = 36
    BY <1>6 DEF FieldsAt, And, PayloadAt, OrderExecutedAt, HeaderAt, wire_length
  <2>2. \A f \in DOMAIN at : /\ at[f][1] \in Nat /\ at[f][2] \in Nat
                              /\ at[f][1] >= 1 /\ at[f][1] + at[f][2] <= wl
    BY ONLY <2>1
  <2>3. \A p \in 1 .. wl - 1 :
          \E f \in DOMAIN at : at[f][1] <= p /\ p < at[f][1] + at[f][2]
    BY ONLY <2>1
  <2>4. \A f, g \in DOMAIN at : \/ f = g
                                \/ at[f][1] + at[f][2] <= at[g][1]
                                \/ at[g][1] + at[g][2] <= at[f][1]
    BY ONLY <2>1
  <2>5. wl \in Nat /\ wl >= 12
    BY ONLY <2>1
  <2>6. Tiles(at, wl)
    BY ONLY <2>2, <2>3, <2>4, <2>5 DEF Tiles
  <2> QED BY <1>6, <2>6 DEF Written
<1>7. CASE t = "OrderCancel"
  <2>1. /\ DOMAIN at = {"stock_locate", "tracking_number", "timestamp",
                          "order_reference_number", "cancelled_shares"}
        /\ at["stock_locate"] = <<1, 2>> /\ at["tracking_number"] = <<3, 2>>
        /\ at["timestamp"] = <<5, 6>>
        /\ at["order_reference_number"] = <<11, 8>>
        /\ at["cancelled_shares"] = <<19, 4>>
        /\ wl = 23
    BY <1>7 DEF FieldsAt, And, PayloadAt, OrderCancelAt, HeaderAt, wire_length
  <2>2. \A f \in DOMAIN at : /\ at[f][1] \in Nat /\ at[f][2] \in Nat
                              /\ at[f][1] >= 1 /\ at[f][1] + at[f][2] <= wl
    BY ONLY <2>1
  <2>3. \A p \in 1 .. wl - 1 :
          \E f \in DOMAIN at : at[f][1] <= p /\ p < at[f][1] + at[f][2]
    BY ONLY <2>1
  <2>4. \A f, g \in DOMAIN at : \/ f = g
                                \/ at[f][1] + at[f][2] <= at[g][1]
                                \/ at[g][1] + at[g][2] <= at[f][1]
    BY ONLY <2>1
  <2>5. wl \in Nat /\ wl >= 12
    BY ONLY <2>1
  <2>6. Tiles(at, wl)
    BY ONLY <2>2, <2>3, <2>4, <2>5 DEF Tiles
  <2>7. /\ Len(A) = 5 /\ A[1] = <<"stock_locate", 2>>
        /\ A[2] = <<"tracking_number", 2>> /\ A[3] = <<"timestamp", 6>>
        /\ A[4] = <<"order_reference_number", 8>>
        /\ A[5] = <<"cancelled_shares", 4>>
    BY <1>7 DEF HeaderAppends, Appends
  <2>8. \A i \in 1 .. Len(A) : A[i][1] \in DOMAIN at /\ at[A[i][1]][2] = A[i][2]
    BY ONLY <2>1, <2>7
  <2>9. /\ Len(A) \in Nat /\ Len(A) >= 1
        /\ at[A[1][1]][1] = 1 /\ at[A[Len(A)][1]][1] + A[Len(A)][2] = wl
    BY ONLY <2>1, <2>7
  <2>10. \A i \in 1 .. Len(A) - 1 : at[A[i + 1][1]][1] = at[A[i][1]][1] + A[i][2]
    BY ONLY <2>1, <2>7
  <2>11. \A f \in DOMAIN at : \E i \in 1 .. Len(A) : A[i][1] = f
    BY ONLY <2>1, <2>7
  <2>12. Follows(at, wl, A)
    BY ONLY <2>8, <2>9, <2>10, <2>11 DEF Follows
  <2> QED BY ONLY <2>6, <2>12
<1>8. CASE t = "OrderDelete"
  <2>1. /\ DOMAIN at = {"stock_locate", "tracking_number", "timestamp",
                          "order_reference_number"}
        /\ at["stock_locate"] = <<1, 2>> /\ at["tracking_number"] = <<3, 2>>
        /\ at["timestamp"] = <<5, 6>>
        /\ at["order_reference_number"] = <<11, 8>>
        /\ wl = 19
    BY <1>8 DEF FieldsAt, And, PayloadAt, HeaderAt, wire_length
  <2>2. \A f \in DOMAIN at : /\ at[f][1] \in Nat /\ at[f][2] \in Nat
                              /\ at[f][1] >= 1 /\ at[f][1] + at[f][2] <= wl
    BY ONLY <2>1
  <2>3. \A p \in 1 .. wl - 1 :
          \E f \in DOMAIN at : at[f][1] <= p /\ p < at[f][1] + at[f][2]
    BY ONLY <2>1
  <2>4. \A f, g \in DOMAIN at : \/ f = g
                                \/ at[f][1] + at[f][2] <= at[g][1]
                                \/ at[g][1] + at[g][2] <= at[f][1]
    BY ONLY <2>1
  <2>5. wl \in Nat /\ wl >= 12
    BY ONLY <2>1
  <2>6. Tiles(at, wl)
    BY ONLY <2>2, <2>3, <2>4, <2>5 DEF Tiles
  <2>7. /\ Len(A) = 4 /\ A[1] = <<"stock_locate", 2>>
        /\ A[2] = <<"tracking_number", 2>> /\ A[3] = <<"timestamp", 6>>
        /\ A[4] = <<"order_reference_number", 8>>
    BY <1>8 DEF HeaderAppends, Appends
  <2>8. \A i \in 1 .. Len(A) : A[i][1] \in DOMAIN at /\ at[A[i][1]][2] = A[i][2]
    BY ONLY <2>1, <2>7
  <2>9. /\ Len(A) \in Nat /\ Len(A) >= 1
        /\ at[A[1][1]][1] = 1 /\ at[A[Len(A)][1]][1] + A[Len(A)][2] = wl
    BY ONLY <2>1, <2>7
  <2>10. \A i \in 1 .. Len(A) - 1 : at[A[i + 1][1]][1] = at[A[i][1]][1] + A[i][2]
    BY ONLY <2>1, <2>7
  <2>11. \A f \in DOMAIN at : \E i \in 1 .. Len(A) : A[i][1] = f
    BY ONLY <2>1, <2>7
  <2>12. Follows(at, wl, A)
    BY ONLY <2>8, <2>9, <2>10, <2>11 DEF Follows
  <2> QED BY ONLY <2>6, <2>12
<1>9. CASE t = "OrderReplace"
  <2>1. /\ DOMAIN at = {"stock_locate", "tracking_number", "timestamp",
                          "original_order_reference_number",
                          "new_order_reference_number", "shares", "price"}
        /\ at["stock_locate"] = <<1, 2>> /\ at["tracking_number"] = <<3, 2>>
        /\ at["timestamp"] = <<5, 6>>
        /\ at["original_order_reference_number"] = <<11, 8>>
        /\ at["new_order_reference_number"] = <<19, 8>>
        /\ at["shares"] = <<27, 4>> /\ at["price"] = <<31, 4>>
        /\ wl = 35
    BY <1>9 DEF FieldsAt, And, PayloadAt, OrderReplaceAt, HeaderAt, wire_length
  <2>2. \A f \in DOMAIN at : /\ at[f][1] \in Nat /\ at[f][2] \in Nat
                              /\ at[f][1] >= 1 /\ at[f][1] + at[f][2] <= wl
    BY ONLY <2>1
  <2>3. \A p \in 1 .. wl - 1 :
          \E f \in DOMAIN at : at[f][1] <= p /\ p < at[f][1] + at[f][2]
    BY ONLY <2>1
  <2>4. \A f, g \in DOMAIN at : \/ f = g
                                \/ at[f][1] + at[f][2] <= at[g][1]
                                \/ at[g][1] + at[g][2] <= at[f][1]
    BY ONLY <2>1
  <2>5. wl \in Nat /\ wl >= 12
    BY ONLY <2>1
  <2>6. Tiles(at, wl)
    BY ONLY <2>2, <2>3, <2>4, <2>5 DEF Tiles
  <2>7. /\ Len(A) = 7 /\ A[1] = <<"stock_locate", 2>>
        /\ A[2] = <<"tracking_number", 2>> /\ A[3] = <<"timestamp", 6>>
        /\ A[4] = <<"original_order_reference_number", 8>>
        /\ A[5] = <<"new_order_reference_number", 8>>
        /\ A[6] = <<"shares", 4>> /\ A[7] = <<"price", 4>>
    BY <1>9 DEF HeaderAppends, Appends
  <2>8. \A i \in 1 .. Len(A) : A[i][1] \in DOMAIN at /\ at[A[i][1]][2] = A[i][2]
    BY ONLY <2>1, <2>7
  <2>9. /\ Len(A) \in Nat /\ Len(A) >= 1
        /\ at[A[1][1]][1] = 1 /\ at[A[Len(A)][1]][1] + A[Len(A)][2] = wl
    BY ONLY <2>1, <2>7
  <2>10. \A i \in 1 .. Len(A) - 1 : at[A[i + 1][1]][1] = at[A[i][1]][1] + A[i][2]
    BY ONLY <2>1, <2>7
  <2>11. \A f \in DOMAIN at : \E i \in 1 .. Len(A) : A[i][1] = f
    BY ONLY <2>1, <2>7
  <2>12. Follows(at, wl, A)
    BY ONLY <2>8, <2>9, <2>10, <2>11 DEF Follows
  <2> QED BY ONLY <2>6, <2>12
<1>10. CASE t = "Trade"
  <2>1. /\ DOMAIN at = {"stock_locate", "tracking_number", "timestamp",
                          "order_reference_number", "buy_sell_indicator",
                          "shares", "stock", "price", "match_number"}
        /\ at["stock_locate"] = <<1, 2>> /\ at["tracking_number"] = <<3, 2>>
        /\ at["timestamp"] = <<5, 6>>
        /\ at["order_reference_number"] = <<11, 8>>
        /\ at["buy_sell_indicator"] = <<19, 1>> /\ at["shares"] = <<20, 4>>
        /\ at["stock"] = <<24, 8>> /\ at["price"] = <<32, 4>>
        /\ at["match_number"] = <<36, 8>>
        /\ wl = 44
    BY <1>10 DEF FieldsAt, And, PayloadAt, AddOrderAt, HeaderAt, wire_length
  <2>2. \A f \in DOMAIN at : /\ at[f][1] \in Nat /\ at[f][2] \in Nat
                              /\ at[f][1] >= 1 /\ at[f][1] + at[f][2] <= wl
    BY ONLY <2>1
  <2>3. \A p \in 1 .. wl - 1 :
          \E f \in DOMAIN at : at[f][1] <= p /\ p < at[f][1] + at[f][2]
    BY ONLY <2>1
  <2>4. \A f, g \in DOMAIN at : \/ f = g
                                \/ at[f][1] + at[f][2] <= at[g][1]
                                \/ at[g][1] + at[g][2] <= at[f][1]
    BY ONLY <2>1
  <2>5. wl \in Nat /\ wl >= 12
    BY ONLY <2>1
  <2>6. Tiles(at, wl)
    BY ONLY <2>2, <2>3, <2>4, <2>5 DEF Tiles
  <2>7. /\ Len(A) = 9 /\ A[1] = <<"stock_locate", 2>>
        /\ A[2] = <<"tracking_number", 2>> /\ A[3] = <<"timestamp", 6>>
        /\ A[4] = <<"order_reference_number", 8>>
        /\ A[5] = <<"buy_sell_indicator", 1>> /\ A[6] = <<"shares", 4>>
        /\ A[7] = <<"stock", 8>> /\ A[8] = <<"price", 4>>
        /\ A[9] = <<"match_number", 8>>
    BY <1>10 DEF HeaderAppends, Appends, AddOrderAppends
  <2>8. \A i \in 1 .. Len(A) : A[i][1] \in DOMAIN at /\ at[A[i][1]][2] = A[i][2]
    BY ONLY <2>1, <2>7
  <2>9. /\ Len(A) \in Nat /\ Len(A) >= 1
        /\ at[A[1][1]][1] = 1 /\ at[A[Len(A)][1]][1] + A[Len(A)][2] = wl
    BY ONLY <2>1, <2>7
  <2>10. \A i \in 1 .. Len(A) - 1 : at[A[i + 1][1]][1] = at[A[i][1]][1] + A[i][2]
    BY ONLY <2>1, <2>7
  <2>11. \A f \in DOMAIN at : \E i \in 1 .. Len(A) : A[i][1] = f
    BY ONLY <2>1, <2>7
  <2>12. Follows(at, wl, A)
    BY ONLY <2>8, <2>9, <2>10, <2>11 DEF Follows
  <2> QED BY ONLY <2>6, <2>12
<1> QED
  BY <1>1, <1>2, <1>3, <1>4, <1>5, <1>6, <1>7, <1>8, <1>9, <1>10 DEF MessageTypes

-----------------------------------------------------------------------------
(* The bytes of a number. *)

Byte == 0 .. ByteSpan - 1

(* How many values a field of so many bytes has. *)
ValuesOf(width) ==
  LET power[n \in 0 .. width] == IF n = 0 THEN 1 ELSE power[n - 1] * ByteSpan
  IN  power[width]

(* Two functions with the same start agree if they stay so. *)
LEMMA SameSteps ==
  ASSUME NEW N \in Nat, NEW f, NEW h, h[0] = f[0],
         \A k \in 1 .. N : h[k - 1] = f[k - 1] => h[k] = f[k]
  PROVE  \A n \in 0 .. N : h[n] = f[n]
<1> DEFINE U == {n \in Nat : n <= N /\ h[n] # f[n]}
<1>1. U = {}
  <2>1. SUFFICES ASSUME U # {} PROVE FALSE
    OBVIOUS
  <2>2. PICK n \in U : \A y \in U : n <= y
    BY <2>1, LeastNat
  <2>3. n \in 1 .. N
    BY <2>2
  <2>4. n - 1 \in Nat /\ n - 1 \notin U /\ n - 1 <= N
    BY <2>2, <2>3
  <2> QED BY <2>2, <2>3, <2>4
<1> QED BY <1>1

(* What read_be computes, byte by byte. *)
LEMMA ReadRec ==
  ASSUME NEW r, NEW offset \in Nat, NEW width \in Nat,
         \A k \in 1 .. width : r[offset + k] \in Byte
  PROVE  \E v \in [0 .. width -> Nat] :
           /\ v[0] = 0
           /\ \A k \in 1 .. width : v[k] = v[k - 1] * ByteSpan + r[offset + k]
           /\ read_be(r, offset, width) = v[width]
<1> DEFINE G == [x \in Nat \X (1 .. width) |-> x[1] * ByteSpan + r[offset + x[2]]]
           Rec(f) == [k \in 0 .. width |->
                        IF k = 0 THEN 0 ELSE f[k - 1] * ByteSpan + r[offset + k]]
           h == CHOOSE f : f = Rec(f)
<1>1. ByteSpan \in Nat
  BY CodecAssumption
<1>2. read_be(r, offset, width) = h[width]
  BY DEF read_be
<1>3. G \in [Nat \X (1 .. width) -> Nat]
  <2>1. ASSUME NEW x \in Nat \X (1 .. width)
        PROVE  x[1] * ByteSpan + r[offset + x[2]] \in Nat
    <3>1. x[1] * ByteSpan \in Nat /\ r[offset + x[2]] \in Nat
      BY <1>1 DEF Byte
    <3> QED BY <3>1
  <2> QED BY <2>1
<1>4. PICK f : Iterates(f, Nat, width, 0, G)
  <2> HIDE DEF G
  <2> QED BY ONLY <1>3, width \in Nat, 0 \in Nat, IterationExists
<1>5. f \in [0 .. width -> Nat] /\ f[0] = 0
  BY <1>4 DEF Iterates
<1>6. \A k \in 1 .. width : f[k] = f[k - 1] * ByteSpan + r[offset + k]
  <2> SUFFICES ASSUME NEW k \in 1 .. width
               PROVE  f[k] = f[k - 1] * ByteSpan + r[offset + k]
    OBVIOUS
  <2>1. f[k] = G[<<f[k - 1], k>>]
    BY <1>4 DEF Iterates
  <2>2. f[k - 1] \in Nat
    BY <1>5
  <2> QED BY <2>1, <2>2
<1>7. f = Rec(f)
  BY <1>5, <1>6
<1>8. h = Rec(h)
  BY <1>7
<1> HIDE DEF h
<1>9. \A k \in 0 .. width : h[k] = f[k]
  <2>1. h[0] = 0
    BY <1>8
  <2>2. ASSUME NEW k \in 1 .. width, h[k - 1] = f[k - 1]
        PROVE  h[k] = f[k]
    BY <1>6, <1>8, <2>2
  <2>3. h[0] = f[0] /\ width \in Nat
    BY <1>5, <2>1
  <2> QED BY ONLY <2>2, <2>3, SameSteps, Zenon
<1> QED BY <1>2, <1>5, <1>6, <1>9


(* What append_be writes, byte by byte. *)
LEMMA AppendRec ==
  ASSUME NEW v \in Nat, NEW width \in Nat
  PROVE  \E s \in [0 .. width -> Nat] :
           /\ s[0] = v
           /\ \A n \in 1 .. width : s[n] = s[n - 1] \div ByteSpan
           /\ append_be(v, width) = [k \in 1 .. width |-> s[width - k] % ByteSpan]
<1> DEFINE G == [x \in Nat \X (1 .. width) |-> x[1] \div ByteSpan]
           Rec(f) == [n \in 0 .. width |-> IF n = 0 THEN v ELSE f[n - 1] \div ByteSpan]
           h == CHOOSE f : f = Rec(f)
<1>1. ByteSpan \in Nat /\ ByteSpan > 0
  BY CodecAssumption
<1>2. append_be(v, width) = [k \in 1 .. width |-> h[width - k] % ByteSpan]
  BY DEF append_be
<1>3. G \in [Nat \X (1 .. width) -> Nat]
  <2>1. ASSUME NEW x \in Nat PROVE x \div ByteSpan \in Nat
    BY <1>1
  <2> QED BY <2>1
<1>4. PICK f : Iterates(f, Nat, width, v, G)
  <2> HIDE DEF G
  <2> QED BY ONLY <1>3, width \in Nat, v \in Nat, IterationExists
<1>5. f \in [0 .. width -> Nat] /\ f[0] = v
  BY <1>4 DEF Iterates
<1>6. \A n \in 1 .. width : f[n] = f[n - 1] \div ByteSpan
  <2> SUFFICES ASSUME NEW n \in 1 .. width
               PROVE  f[n] = f[n - 1] \div ByteSpan
    OBVIOUS
  <2>1. f[n] = G[<<f[n - 1], n>>]
    BY <1>4 DEF Iterates
  <2>2. f[n - 1] \in Nat
    BY <1>5
  <2> QED BY <2>1, <2>2
<1>7. f = Rec(f)
  BY <1>5, <1>6
<1>8. h = Rec(h)
  BY <1>7
<1> HIDE DEF h
<1>9. \A n \in 0 .. width : h[n] = f[n]
  <2>1. h[0] = v
    BY <1>8
  <2>2. ASSUME NEW n \in 1 .. width, h[n - 1] = f[n - 1]
        PROVE  h[n] = f[n]
    BY <1>6, <1>8, <2>2
  <2>3. h[0] = f[0] /\ width \in Nat
    BY <1>5, <2>1
  <2> QED BY ONLY <2>2, <2>3, SameSteps, Zenon
<1> QED BY <1>2, <1>5, <1>6, <1>9

(* How ValuesOf is computed. *)
LEMMA ValuesRec ==
  ASSUME NEW width \in Nat
  PROVE  \E p \in [0 .. width -> Nat] :
           /\ p[0] = 1
           /\ \A n \in 1 .. width : p[n] = p[n - 1] * ByteSpan
           /\ \A n \in 0 .. width : ValuesOf(n) = p[n]
<1> DEFINE G == [x \in Nat \X (1 .. width) |-> x[1] * ByteSpan]
           Rec(m, f) == [n \in 0 .. m |-> IF n = 0 THEN 1 ELSE f[n - 1] * ByteSpan]
           h(m) == CHOOSE f : f = Rec(m, f)
<1>1. ByteSpan \in Nat
  BY CodecAssumption
<1>2. \A m : ValuesOf(m) = h(m)[m]
  BY DEF ValuesOf
<1>3. G \in [Nat \X (1 .. width) -> Nat]
  BY <1>1
<1>4. PICK f : Iterates(f, Nat, width, 1, G)
  <2> HIDE DEF G
  <2> QED BY ONLY <1>3, width \in Nat, 1 \in Nat, IterationExists
<1>5. f \in [0 .. width -> Nat] /\ f[0] = 1
  BY <1>4 DEF Iterates
<1>6. \A n \in 1 .. width : f[n] = f[n - 1] * ByteSpan
  <2> SUFFICES ASSUME NEW n \in 1 .. width
               PROVE  f[n] = f[n - 1] * ByteSpan
    OBVIOUS
  <2>1. f[n] = G[<<f[n - 1], n>>]
    BY <1>4 DEF Iterates
  <2>2. f[n - 1] \in Nat
    BY <1>5
  <2> QED BY <2>1, <2>2
<1>7. ASSUME NEW m \in 0 .. width PROVE ValuesOf(m) = f[m]
  <2> DEFINE g == [n \in 0 .. m |-> f[n]]
  <2>1. g[0] = 1 /\ \A n \in 1 .. m : g[n] = g[n - 1] * ByteSpan
    BY <1>5, <1>6
  <2>2. g = Rec(m, g)
    BY <2>1, SMTT(30)
  <2>3. h(m) = Rec(m, h(m))
    BY <2>2
  <2> HIDE DEF h
  <2>4. h(m)[0] = 1 /\ m \in Nat
    BY <2>3
  <2>5. ASSUME NEW n \in 1 .. m, h(m)[n - 1] = g[n - 1]
        PROVE  h(m)[n] = g[n]
    <3>1. h(m)[n] = h(m)[n - 1] * ByteSpan
      <4>1. n \in 0 .. m /\ n # 0
        OBVIOUS
      <4> QED BY <2>3, <4>1
    <3> QED BY <2>1, <2>5, <3>1
  <2>6. \A n \in 0 .. m : h(m)[n] = g[n]
    <3> HIDE DEF g
    <3>1. h(m)[0] = g[0]
      BY <2>1, <2>4
    <3> QED BY ONLY <2>4, <2>5, <3>1, SameSteps, Zenon
  <2> QED BY <1>2, <2>6
<1> QED BY <1>5, <1>6, <1>7

(* One byte more, ByteSpan times as many values. *)
LEMMA ValuesFacts ==
  ASSUME NEW width \in Nat
  PROVE  /\ ValuesOf(width) \in Nat
         /\ ValuesOf(0) = 1
         /\ ValuesOf(width + 1) = ValuesOf(width) * ByteSpan
<1>0. width + 1 \in Nat
  OBVIOUS
<1>1. PICK p \in [0 .. width + 1 -> Nat] :
           /\ p[0] = 1
           /\ \A n \in 1 .. width + 1 : p[n] = p[n - 1] * ByteSpan
           /\ \A n \in 0 .. width + 1 : ValuesOf(n) = p[n]
  BY ONLY <1>0, ValuesRec, Zenon
<1>2. 0 \in 0 .. width + 1 /\ width \in 0 .. width + 1 /\ width + 1 \in 1 .. width + 1
      /\ (width + 1) - 1 = width
  OBVIOUS
<1> QED BY <1>1, <1>2

(* append_be writes as many bytes as it is told to. *)
LEMMA AppendType ==
  ASSUME NEW v \in Nat, NEW width \in Nat
  PROVE  /\ append_be(v, width) \in [1 .. width -> Byte]
         /\ append_be(v, width) \in Seq(Byte) /\ Len(append_be(v, width)) = width
<1>1. PICK s \in [0 .. width -> Nat] :
        append_be(v, width) = [k \in 1 .. width |-> s[width - k] % ByteSpan]
  BY AppendRec, ZenonT(40)
<1>2. ASSUME NEW k \in 1 .. width PROVE s[width - k] % ByteSpan \in Byte
  <2>1. s[width - k] \in Nat
    BY <1>1
  <2> QED BY <2>1, CodecAssumption DEF Byte
<1>3. append_be(v, width) \in [1 .. width -> Byte]
  BY <1>1, <1>2
<1> QED BY <1>3

(* A number that fits is read back from where its bytes were appended. *)
LEMMA NumberRoundTrip ==
  ASSUME NEW v \in Nat, NEW width \in Nat, v < ValuesOf(width),
         NEW r, NEW offset \in Nat,
         \A k \in 1 .. width : r[offset + k] = append_be(v, width)[k]
  PROVE  read_be(r, offset, width) = v
<1>0. ByteSpan \in Nat /\ ByteSpan > 0
  BY CodecAssumption
<1>1. PICK s \in [0 .. width -> Nat] :
        /\ s[0] = v
        /\ \A n \in 1 .. width : s[n] = s[n - 1] \div ByteSpan
        /\ append_be(v, width) = [k \in 1 .. width |-> s[width - k] % ByteSpan]
  BY AppendRec
<1>2. PICK p \in [0 .. width -> Nat] :
        /\ p[0] = 1
        /\ \A n \in 1 .. width : p[n] = p[n - 1] * ByteSpan
        /\ \A n \in 0 .. width : ValuesOf(n) = p[n]
  BY ValuesRec
<1>3. \A k \in 1 .. width : /\ r[offset + k] = s[width - k] % ByteSpan
                            /\ r[offset + k] \in Byte
  <2>1. append_be(v, width) \in [1 .. width -> Byte]
    BY AppendType
  <2>2. \A k \in 1 .. width : append_be(v, width)[k] = s[width - k] % ByteSpan
    BY <1>1
  <2> QED BY <2>1, <2>2
<1>4. PICK u \in [0 .. width -> Nat] :
        /\ u[0] = 0
        /\ \A k \in 1 .. width : u[k] = u[k - 1] * ByteSpan + r[offset + k]
        /\ read_be(r, offset, width) = u[width]
  BY <1>3, ReadRec
<1>5. s[width] = 0
  <2> DEFINE U == {n \in Nat : n <= width /\ ~(s[n] < p[width - n])}
  <2>1. U = {}
    <3>1. SUFFICES ASSUME U # {} PROVE FALSE
      OBVIOUS
    <3>2. PICK n \in U : \A y \in U : n <= y
      BY <3>1, LeastNat
    <3>3. n \in 1 .. width
      BY <1>1, <1>2, <3>2
    <3>4. n - 1 \in Nat /\ n - 1 \notin U /\ n - 1 <= width
      BY <3>2, <3>3
    <3> DEFINE x == s[n - 1]
               y == p[width - n]
    <3>5. /\ x \in Nat /\ y \in Nat /\ s[n] = x \div ByteSpan
          /\ p[width - (n - 1)] = y * ByteSpan
      BY <1>1, <1>2, <3>3
    <3>6. x < y * ByteSpan
      BY <3>4, <3>5
    <3>7. ~(x \div ByteSpan < y)
      BY <3>2, <3>5
    <3> HIDE DEF x, y
    <3>8. /\ x = ByteSpan * (x \div ByteSpan) + (x % ByteSpan)
          /\ x % ByteSpan \in Nat /\ x \div ByteSpan \in Int
      BY <3>5, <1>0, DivMod
    <3>9. ByteSpan * (x \div ByteSpan) >= y * ByteSpan
      BY <3>5, <3>7, <3>8, <1>0
    <3>10. y * ByteSpan \in Int /\ ByteSpan * (x \div ByteSpan) \in Int
      BY <3>5, <3>8, <1>0
    <3> DEFINE d == ByteSpan * (x \div ByteSpan)
               e == y * ByteSpan
               m == x % ByteSpan
    <3>12. /\ d \in Int /\ e \in Int /\ m \in Nat /\ x = d + m /\ d >= e /\ x < e
      BY <3>6, <3>8, <3>9, <3>10
    <3> HIDE DEF d, e, m
    <3> QED BY ONLY <3>12
  <2>2. width \notin U
    BY <2>1
  <2>3. width - width = 0 /\ width \in 0 .. width
    OBVIOUS
  <2> QED BY <1>1, <1>2, <2>2, <2>3
<1>6. \A k \in 0 .. width : u[k] = s[width - k]
  <2> DEFINE U == {k \in Nat : k <= width /\ u[k] # s[width - k]}
  <2>1. U = {}
    <3>1. SUFFICES ASSUME U # {} PROVE FALSE
      OBVIOUS
    <3>2. PICK k \in U : \A y \in U : k <= y
      BY <3>1, LeastNat
    <3>3. k \in 1 .. width
      <4>1. width - 0 = width
        OBVIOUS
      <4>2. k # 0
        BY <1>4, <1>5, <3>2, <4>1
      <4> QED BY <3>2, <4>2
    <3>4. k - 1 \in Nat /\ k - 1 \notin U /\ k - 1 <= width
      BY <3>2, <3>3
    <3> DEFINE x == s[width - k]
    <3>5. x \in Nat /\ s[width - (k - 1)] = x \div ByteSpan
      BY <1>1, <3>3
    <3>6. u[k] = u[k - 1] * ByteSpan + (x % ByteSpan) /\ u[k - 1] = x \div ByteSpan
      BY <1>3, <1>4, <3>3, <3>4, <3>5
    <3>7. u[k] = x
      <4> HIDE DEF x
      <4>1. x = ByteSpan * (x \div ByteSpan) + (x % ByteSpan) /\ x \div ByteSpan \in Int
        BY <3>5, <1>0, DivMod
      <4> QED BY <3>6, <4>1, <3>5, <1>0
    <3> QED BY <3>2, <3>7
  <2>2. ASSUME NEW k \in 0 .. width PROVE u[k] = s[width - k]
    <3>1. k \in Nat /\ k <= width
      OBVIOUS
    <3>2. k \notin U
      BY <2>1
    <3> QED BY <3>1, <3>2
  <2> QED BY <2>2
<1> QED BY <1>1, <1>4, <1>6

(* The same bytes are the same number. *)
LEMMA SameBytes ==
  ASSUME NEW r, NEW q, NEW offset \in Nat, NEW width \in Nat,
         \A k \in 1 .. width : r[offset + k] \in Byte /\ q[offset + k] = r[offset + k]
  PROVE  read_be(q, offset, width) = read_be(r, offset, width)
<1>1. PICK u :
        /\ u \in [0 .. width -> Nat]
        /\ u[0] = 0
        /\ \A k \in 1 .. width : u[k] = u[k - 1] * ByteSpan + r[offset + k]
        /\ read_be(r, offset, width) = u[width]
  <2>1. \E x \in [0 .. width -> Nat] :
          /\ x[0] = 0
          /\ \A k \in 1 .. width : x[k] = x[k - 1] * ByteSpan + r[offset + k]
          /\ read_be(r, offset, width) = x[width]
    BY ReadRec
  <2> QED BY ONLY <2>1, Zenon
<1>2. PICK w :
        /\ w \in [0 .. width -> Nat]
        /\ w[0] = 0
        /\ \A k \in 1 .. width : w[k] = w[k - 1] * ByteSpan + q[offset + k]
        /\ read_be(q, offset, width) = w[width]
  <2>1. \E x \in [0 .. width -> Nat] :
          /\ x[0] = 0
          /\ \A k \in 1 .. width : x[k] = x[k - 1] * ByteSpan + q[offset + k]
          /\ read_be(q, offset, width) = x[width]
    BY ReadRec
  <2> QED BY ONLY <2>1, Zenon
<1>3. w[0] = u[0]
  BY <1>1, <1>2
<1>4. ASSUME NEW k \in 1 .. width, w[k - 1] = u[k - 1] PROVE w[k] = u[k]
  BY <1>1, <1>2, <1>4
<1>5. \A k \in 0 .. width : w[k] = u[k]
  BY ONLY width \in Nat, <1>3, <1>4, SameSteps, Zenon
<1> QED BY <1>1, <1>2, <1>5

(* Another byte is another number. *)
LEMMA OtherByte ==
  ASSUME NEW r, NEW q, NEW offset \in Nat, NEW width \in Nat,
         \A k \in 1 .. width : r[offset + k] \in Byte /\ q[offset + k] \in Byte,
         NEW j \in 1 .. width, r[offset + j] # q[offset + j],
         \A k \in 1 .. width : k # j => r[offset + k] = q[offset + k]
  PROVE  read_be(r, offset, width) # read_be(q, offset, width)
<1>0. ByteSpan \in Nat /\ ByteSpan > 0
  BY CodecAssumption
<1>1. PICK u :
        /\ u \in [0 .. width -> Nat]
        /\ u[0] = 0
        /\ \A k \in 1 .. width : u[k] = u[k - 1] * ByteSpan + r[offset + k]
        /\ read_be(r, offset, width) = u[width]
  <2>1. \E x \in [0 .. width -> Nat] :
          /\ x[0] = 0
          /\ \A k \in 1 .. width : x[k] = x[k - 1] * ByteSpan + r[offset + k]
          /\ read_be(r, offset, width) = x[width]
    BY ReadRec
  <2> QED BY ONLY <2>1, Zenon
<1>2. PICK w :
        /\ w \in [0 .. width -> Nat]
        /\ w[0] = 0
        /\ \A k \in 1 .. width : w[k] = w[k - 1] * ByteSpan + q[offset + k]
        /\ read_be(q, offset, width) = w[width]
  <2>1. \E x \in [0 .. width -> Nat] :
          /\ x[0] = 0
          /\ \A k \in 1 .. width : x[k] = x[k - 1] * ByteSpan + q[offset + k]
          /\ read_be(q, offset, width) = x[width]
    BY ReadRec
  <2> QED BY ONLY <2>1, Zenon
<1>3. ASSUME NEW n \in Nat, n <= width,
             \A k \in 1 .. n : r[offset + k] = q[offset + k]
      PROVE  u[n] = w[n]
  <2>1. u[0] = w[0]
    BY <1>1, <1>2
  <2>2. ASSUME NEW k \in 1 .. n, u[k - 1] = w[k - 1] PROVE u[k] = w[k]
    BY <1>1, <1>2, <1>3, <2>2
  <2>3. \A k \in 0 .. n : u[k] = w[k]
    BY ONLY n \in Nat, <2>1, <2>2, SameSteps, SMTT(20)
  <2> QED BY <2>1, <2>3
<1>4. u[j - 1] = w[j - 1]
  <2>1. j - 1 \in Nat /\ j - 1 <= width /\ \A k \in 1 .. j - 1 : k \in 1 .. width /\ k # j
    OBVIOUS
  <2> QED BY <1>3, <2>1
<1>5. u[j] # w[j]
  <2>1. /\ u[j] = u[j - 1] * ByteSpan + r[offset + j] /\ r[offset + j] \in Int
        /\ w[j] = u[j - 1] * ByteSpan + q[offset + j] /\ q[offset + j] \in Int
        /\ u[j - 1] * ByteSpan \in Int
    <3>1. /\ u[j] = u[j - 1] * ByteSpan + r[offset + j]
          /\ w[j] = w[j - 1] * ByteSpan + q[offset + j]
          /\ u[j - 1] \in Nat
      BY <1>1, <1>2
    <3>2. r[offset + j] \in Byte /\ q[offset + j] \in Byte
      OBVIOUS
    <3> QED BY <1>0, <1>4, <3>1, <3>2 DEF Byte
  <2> QED BY <2>1
<1> DEFINE U == {n \in Nat : j <= n /\ n <= width /\ u[n] = w[n]}
<1>6. U = {}
  <2>1. SUFFICES ASSUME U # {} PROVE FALSE
    OBVIOUS
  <2>2. PICK n \in U : \A y \in U : n <= y
    BY <2>1, LeastNat
  <2>3. n \in 1 .. width /\ j < n
    BY <1>5, <2>2
  <2>4. n - 1 \in Nat /\ n - 1 \notin U /\ j <= n - 1 /\ n - 1 <= width
    BY <2>2, <2>3
  <2> DEFINE x == u[n - 1]
             y == w[n - 1]
             b == r[offset + n]
  <2>5. /\ u[n] = x * ByteSpan + b /\ w[n] = y * ByteSpan + b
        /\ x \in Nat /\ y \in Nat /\ x # y /\ b \in Int
    <3>1. n - 1 \in 0 .. width /\ r[offset + n] = q[offset + n]
      BY <2>3
    <3>2. r[offset + n] \in Int
      BY <2>3 DEF Byte
    <3> QED BY <1>1, <1>2, <2>3, <2>4, <3>1, <3>2
  <2>6. x * ByteSpan + b = y * ByteSpan + b
    BY <2>2, <2>5
  <2> HIDE DEF x, y, b
  <2>7. x * ByteSpan = y * ByteSpan
    <3>1. x * ByteSpan \in Int /\ y * ByteSpan \in Int
      BY <2>5, <1>0
    <3> QED BY <3>1, <2>5, <2>6
  <2>8. ASSUME NEW c \in Nat, NEW d \in Nat, c < d
        PROVE  c * ByteSpan < d * ByteSpan
    <3>1. PICK e \in Nat : d = c + 1 + e
      <4>1. d = c + 1 + (d - c - 1) /\ d - c - 1 \in Nat
        BY <2>8
      <4> QED BY <4>1
    <3>2. e * ByteSpan \in Nat /\ c * ByteSpan \in Nat
      BY <1>0
    <3>3. d * ByteSpan = c * ByteSpan + ByteSpan + e * ByteSpan
      BY <3>1, <1>0
    <3> QED BY <3>2, <3>3, <1>0
  <2>9. x < y \/ y < x
    BY <2>5
  <2>10. x * ByteSpan < y * ByteSpan \/ y * ByteSpan < x * ByteSpan
    BY <2>5, <2>8, <2>9
  <2>11. x * ByteSpan \in Int
    BY <2>5, <1>0
  <2> QED BY <2>7, <2>10, <2>11
<1>7. width \notin U /\ j <= width
  BY <1>6
<1> QED BY <1>1, <1>2, <1>7

-----------------------------------------------------------------------------
(* The decoder. *)

(* decode() accepts only records of a type it knows. *)
LEMMA KnownType ==
  ASSUME NEW b, wire_length(TypeOf(b)) # 0
  PROVE  TypeOf(b) \in MessageTypes
BY DEF TypeOf, wire_length, MessageTypes

RecordTypeOK == raw \in Seq(Byte)

(* A record is a sequence of bytes throughout. *)
LEMMA RecordTyped == RecordSpec => []RecordTypeOK
<1>1. RecordInit => RecordTypeOK
  BY DEF RecordInit, RecordTypeOK
<1>2. RecordTypeOK /\ [RecordNext]_raw => RecordTypeOK'
  <2> SUFFICES ASSUME RecordTypeOK, [RecordNext]_raw PROVE RecordTypeOK'
    OBVIOUS
  <2>0. ByteValues \subseteq Byte /\ 0 \in Byte /\ \A t \in MessageTypes : Letter[t] \in Byte
    BY CodecAssumption, RecordsAssumption DEF Byte
  <2>1. CASE UNCHANGED raw
    BY <2>1 DEF RecordTypeOK
  <2>2. ASSUME NEW b \in ByteValues \cup {Letter[t] : t \in MessageTypes}, Begin(b)
        PROVE  RecordTypeOK'
    BY <2>0, <2>2 DEF Begin, RecordTypeOK
  <2>3. ASSUME NEW i \in 2 .. Len(raw), NEW b \in ByteValues, SetByte(i, b)
        PROVE  RecordTypeOK'
    BY <2>0, <2>3 DEF SetByte, RecordTypeOK
  <2>4. CASE Lengthen
    BY <2>0, <2>4 DEF Lengthen, RecordTypeOK
  <2>5. CASE Shorten
    BY <2>5 DEF Shorten, RecordTypeOK
  <2> QED BY <2>1, <2>2, <2>3, <2>4, <2>5 DEF RecordNext
<1> QED BY <1>1, <1>2, PTL DEF RecordSpec

(* Whatever bytes decode() is given, and wherever they were cut: it reads  *)
(* none that is not there (decode_add_order and the other decoders behind  *)
(* the length check of decode).                                            *)
THEOREM DecoderReadsInside == RecordSpec => []ReadsInside
<1>1. ASSUME RecordTypeOK PROVE ReadsInside
  <2> SUFFICES ASSUME raw # <<>>, accepts(TypeOf(raw[1]), Len(raw)),
                      NEW f \in Fields(TypeOf(raw[1]))
               PROVE  LET at == FieldsAt(TypeOf(raw[1]))[f]
                      IN  at[1] >= 1 /\ at[1] + at[2] <= Len(raw)
    BY DEF ReadsInside
  <2> DEFINE t == TypeOf(raw[1])
             tab == FieldsAt(t)
             wl == wire_length(t)
  <2>1. t \in MessageTypes /\ Len(raw) >= wl
    BY KnownType DEF accepts
  <2>2. f \in DOMAIN tab
    BY DEF Fields
  <2> HIDE DEF t, tab, wl
  <2>3. Tiles(tab, wl)
    BY <2>1, Tables DEF tab, wl
  <2>4. Len(raw) \in Nat
    BY <1>1 DEF RecordTypeOK
  <2>5. tab[f][1] >= 1 /\ tab[f][1] + tab[f][2] <= Len(raw)
    BY <2>1, <2>2, <2>3, <2>4 DEF Tiles
  <2> QED BY <2>5 DEF tab, t
<1> QED BY <1>1, RecordTyped, PTL

(* A field changes with its own bytes and with no other. *)
LEMMA FieldChanges ==
  ASSUME NEW r \in Seq(Byte), NEW q \in Seq(Byte), Len(q) = Len(r),
         NEW i \in 1 .. Len(r), \A k \in 1 .. Len(r) : r[k] # q[k] <=> k = i,
         NEW at, NEW f, NEW o \in Nat, NEW w \in Nat,
         at[f][1] = o, at[f][2] = w, o + w <= Len(r)
  PROVE  ReadField(r, f, at) # ReadField(q, f, at) <=> o < i /\ i <= o + w
<1>1. /\ Len(r) \in Nat /\ q[i] # r[i]
      /\ \A k \in 1 .. Len(r) : k # i => q[k] = r[k]
  OBVIOUS
<1>2. \A k \in 1 .. w : o + k \in 1 .. Len(r)
  BY <1>1
<1>3. \A k \in 1 .. w : r[o + k] \in Byte /\ q[o + k] \in Byte
  BY <1>1, <1>2
<1>4. CASE f \in TextFields
  <2>1. /\ ReadField(r, f, at) = SubSeq(r, o + 1, o + w)
        /\ ReadField(q, f, at) = SubSeq(q, o + 1, o + w)
    BY <1>4 DEF ReadField, read_chars
  <2>2. CASE o < i /\ i <= o + w
    <3>1. /\ SubSeq(r, o + 1, o + w)[i - o] = r[i]
          /\ SubSeq(q, o + 1, o + w)[i - o] = q[i]
      BY <1>1, <2>2, SMTT(30)
    <3> QED BY <2>1, <2>2, <3>1, <1>1
  <2>3. CASE ~(o < i /\ i <= o + w)
    <3>1. \A k \in 1 .. w : r[o + k] = q[o + k]
      BY <1>1, <1>2, <2>3
    <3>2. SubSeq(r, o + 1, o + w) = SubSeq(q, o + 1, o + w)
      <4> DEFINE x == SubSeq(r, o + 1, o + w)
                 y == SubSeq(q, o + 1, o + w)
      <4>1. /\ x \in Seq(Byte) /\ y \in Seq(Byte) /\ Len(x) = w /\ Len(y) = w
            /\ \A k \in 1 .. w : x[k] = r[o + k] /\ y[k] = q[o + k]
        BY <1>1
      <4> HIDE DEF x, y
      <4>2. \A k \in 1 .. Len(x) : x[k] = y[k]
        BY <3>1, <4>1, SMTT(30)
      <4>3. x = y
        BY ONLY <4>1, <4>2, SeqEqual
      <4> QED BY <4>3 DEF x, y
    <3> QED BY <2>1, <2>3, <3>2
  <2> QED BY <2>2, <2>3
<1>5. CASE f \notin TextFields
  <2>1. /\ ReadField(r, f, at) = read_be(r, o, w)
        /\ ReadField(q, f, at) = read_be(q, o, w)
    BY <1>5 DEF ReadField
  <2>2. CASE o < i /\ i <= o + w
    <3> DEFINE j == i - o
    <3>1. /\ j \in 1 .. w /\ r[o + j] # q[o + j]
          /\ \A k \in 1 .. w : k # j => r[o + k] = q[o + k]
      BY <1>1, <1>2, <2>2
    <3> HIDE DEF j
    <3>2. read_be(r, o, w) # read_be(q, o, w)
      BY ONLY o \in Nat, w \in Nat, <1>3, <3>1, OtherByte
    <3> QED BY <2>1, <2>2, <3>2
  <2>3. CASE ~(o < i /\ i <= o + w)
    <3>1. \A k \in 1 .. w : r[o + k] = q[o + k]
      BY <1>1, <1>2, <2>3
    <3>2. read_be(r, o, w) = read_be(q, o, w)
      BY ONLY o \in Nat, w \in Nat, <1>3, <3>1, SameBytes, Zenon
    <3> QED BY <2>1, <2>3, <3>2
  <2> QED BY <2>2, <2>3
<1> QED BY <1>4, <1>5

(* Exactly one field has a given byte. *)
LEMMA OneFieldChanges ==
  ASSUME NEW r \in Seq(Byte), NEW q \in Seq(Byte), Len(q) = Len(r),
         NEW i \in 2 .. Len(r), \A k \in 1 .. Len(r) : r[k] # q[k] <=> k = i,
         Decoded(r), NEW t, t = TypeOf(r[1])
  PROVE  Cardinality({f \in Fields(t) : decode(r)[f] # decode(q)[f]})
           = IF i <= wire_length(t) THEN 1 ELSE 0
<1> DEFINE at == FieldsAt(t)
           wl == wire_length(t)
           changed == {f \in Fields(t) : decode(r)[f] # decode(q)[f]}
<1>1. /\ Len(r) \in Nat /\ i \in 1 .. Len(r) /\ r # <<>> /\ q # <<>> /\ q[1] = r[1]
  OBVIOUS
<1>2. accepts(t, Len(r))
  BY <1>1 DEF Decoded, decode
<1>3. t \in MessageTypes /\ wl <= Len(r)
  BY <1>2, KnownType DEF accepts
<1>4. Tiles(at, wl)
  BY <1>3, Tables
<1>5. Fields(t) = DOMAIN at
  BY DEF Fields
<1> HIDE DEF at, wl
<1>6. ASSUME NEW f \in Fields(t)
      PROVE  decode(r)[f] = ReadField(r, f, at) /\ decode(q)[f] = ReadField(q, f, at)
  <2>1. decode(r) = And([type |-> t], [g \in Fields(t) |-> ReadField(r, g, at)])
    BY <1>1, <1>2 DEF decode, at
  <2>2. decode(q) = And([type |-> t], [g \in Fields(t) |-> ReadField(q, g, at)])
    BY <1>1, <1>2 DEF decode, at
  <2> QED BY <2>1, <2>2 DEF And
<1>7. ASSUME NEW f \in DOMAIN at
      PROVE  f \in changed <=> at[f][1] < i /\ i <= at[f][1] + at[f][2]
  <2>1. at[f][1] \in Nat /\ at[f][2] \in Nat /\ at[f][1] + at[f][2] <= Len(r)
    BY <1>1, <1>3, <1>4 DEF Tiles
  <2>2. ReadField(r, f, at) # ReadField(q, f, at)
          <=> at[f][1] < i /\ i <= at[f][1] + at[f][2]
    BY <1>1, <2>1, FieldChanges
  <2> QED BY <1>5, <1>6, <2>2
<1>8. changed \subseteq DOMAIN at
  BY <1>5
<1> HIDE DEF changed
<1>9. CASE i <= wl
  <2>1. i - 1 \in 1 .. wl - 1
    BY <1>4, <1>9 DEF Tiles
  <2>2. PICK f \in DOMAIN at : at[f][1] <= i - 1 /\ i - 1 < at[f][1] + at[f][2]
    BY <1>4, <2>1 DEF Tiles
  <2>3. changed = {f}
    <3>1. f \in changed
      BY <1>4, <1>7, <2>2 DEF Tiles
    <3>2. ASSUME NEW g \in changed PROVE g = f
      <4>1. g \in DOMAIN at /\ at[g][1] < i /\ i <= at[g][1] + at[g][2]
        BY <1>7, <1>8
      <4>2. /\ at[f][1] \in Nat /\ at[f][2] \in Nat
            /\ at[g][1] \in Nat /\ at[g][2] \in Nat
            /\ \/ f = g
               \/ at[f][1] + at[f][2] <= at[g][1]
               \/ at[g][1] + at[g][2] <= at[f][1]
        BY ONLY <1>4, <2>2, <4>1 DEF Tiles
      <4> QED BY <2>2, <4>1, <4>2
    <3> QED BY <3>1, <3>2
  <2>4. Cardinality(changed) = 1
    BY <2>3, FS_Singleton
  <2> QED BY <1>9, <2>4 DEF changed, wl
<1>10. CASE ~(i <= wl)
  <2>1. changed = {}
    BY <1>4, <1>7, <1>8, <1>10 DEF Tiles
  <2>2. Cardinality(changed) = 0
    BY <2>1, FS_EmptySet
  <2> QED BY <1>10, <2>2 DEF changed, wl
<1> QED BY <1>9, <1>10

(* Every byte behind the letter counts for exactly one member of what      *)
(* decode() returns, and none behind the record for any: no decoder reads  *)
(* two fields from one byte or skips one.                                  *)
THEOREM DecoderReadsEachByteOnce == RecordSpec => OneByteOneField
<1>1. ASSUME RecordTypeOK, [RecordNext]_raw, raw' # raw, Len(raw') = Len(raw),
             Decoded(raw)
      PROVE  LET type    == TypeOf(raw[1])
                 byte    == CHOOSE i \in 1 .. Len(raw) : raw[i] # raw'[i]
                 changed == {f \in Fields(type) : decode(raw)[f] # decode(raw')[f]}
             IN  Cardinality(changed) = IF byte <= wire_length(type) THEN 1 ELSE 0
  <2> DEFINE t == TypeOf(raw[1])
             byte == CHOOSE i \in 1 .. Len(raw) : raw[i] # raw'[i]
             changed == {f \in Fields(t) : decode(raw)[f] # decode(raw')[f]}
  <2>1. raw \in Seq(Byte) /\ Len(raw) \in Nat
    BY <1>1 DEF RecordTypeOK
  <2>2. PICK i \in 2 .. Len(raw), b \in Byte : raw' = [raw EXCEPT ![i] = b]
    <3>1. ASSUME NEW b, Begin(b) PROVE FALSE
      BY <1>1, <3>1 DEF Begin
    <3>2. ASSUME Lengthen PROVE FALSE
      BY <1>1, <2>1, <3>2 DEF Lengthen
    <3>3. ASSUME Shorten PROVE FALSE
      <4>1. Len(raw) >= 1
        BY <2>1, <3>3 DEF Shorten
      <4> QED BY <1>1, <2>1, <3>3, <4>1 DEF Shorten
    <3>4. PICK i \in 2 .. Len(raw), b \in ByteValues : SetByte(i, b)
      BY <1>1, <3>1, <3>2, <3>3 DEF RecordNext
    <3> QED BY <3>4, RecordsAssumption DEF SetByte, Byte
  <2>3. \A k \in 1 .. Len(raw) : raw[k] # raw'[k] <=> k = i
    BY <1>1, <2>1, <2>2
  <2>4. byte = i
    BY <2>2, <2>3
  <2>5. raw' \in Seq(Byte)
    BY <2>1, <2>2
  <2>6. Cardinality(changed) = IF i <= wire_length(t) THEN 1 ELSE 0
    BY <1>1, <2>1, <2>2, <2>3, <2>5, OneFieldChanges, ZenonT(30)
  <2> QED BY <2>4, <2>6
<1>2. RecordTypeOK /\ [RecordNext]_raw =>
        [raw' # raw /\ Len(raw') = Len(raw) /\ Decoded(raw) =>
           LET type    == TypeOf(raw[1])
               byte    == CHOOSE i \in 1 .. Len(raw) : raw[i] # raw'[i]
               changed == {f \in Fields(type) : decode(raw)[f] # decode(raw')[f]}
           IN  Cardinality(changed) = IF byte <= wire_length(type) THEN 1 ELSE 0]_raw
  BY <1>1
<1> QED BY <1>2, RecordTyped, PTL DEF RecordSpec, OneByteOneField

-----------------------------------------------------------------------------
(* The encoder. *)

(* e[k] is what the first k of the texts b make when they are appended to  *)
(* one another.                                                            *)
Appended(e, b, N) ==
  /\ e \in [0 .. N -> Seq(Byte)]
  /\ e[0] = <<>>
  /\ \A k \in 1 .. N : e[k] = e[k - 1] \o b[k]

(* The encoder's texts one after the other. *)
LEMMA FlattenRec ==
  ASSUME NEW N \in Nat, N >= 1, NEW b \in [1 .. N -> Seq(Byte)]
  PROVE  \E e : Appended(e, b, N) /\ SeqExt!FlattenSeq(b) = e[N]
<1> DEFINE T == Seq(Byte)
           G == [x \in T \X (1 .. N) |-> x[1] \o b[x[2]]]
           Rec(f) == [i \in 1 .. N |-> IF i = 1 THEN b[i] ELSE f[i - 1] \o b[i]]
           h == CHOOSE f : f = Rec(f)
<1>1. Len(b) = N /\ b \in Seq(T)
  OBVIOUS
<1>2. SeqExt!FlattenSeq(b) = h[N]
  BY <1>1 DEF SeqExt!FlattenSeq
<1>3. G \in [T \X (1 .. N) -> T]
  OBVIOUS
<1>4. PICK e : Iterates(e, T, N, <<>>, G)
  <2>1. <<>> \in T
    OBVIOUS
  <2> HIDE DEF G, T
  <2> QED BY ONLY <1>3, <2>1, N \in Nat, IterationExists
<1>5. e \in [0 .. N -> T] /\ e[0] = <<>>
  BY <1>4 DEF Iterates
<1>6. ASSUME NEW k \in 1 .. N
      PROVE  e[k] = e[k - 1] \o b[k]
  <2>1. e[k] = G[<<e[k - 1], k>>]
    BY <1>4 DEF Iterates
  <2>2. e[k - 1] \in T
    BY <1>5
  <2> QED BY <2>1, <2>2
<1>7. Appended(e, b, N)
  BY <1>5, <1>6 DEF Appended
<1>8. e[1] = b[1]
  <2>1. e[1] = e[0] \o b[1] /\ b[1] \in T
    BY <1>6
  <2> QED BY <2>1, <1>5
<1>9. h = Rec(h)
  <2> DEFINE g == [i \in 1 .. N |-> e[i]]
  <2>1. ASSUME NEW i \in 1 .. N PROVE g[i] = IF i = 1 THEN b[i] ELSE g[i - 1] \o b[i]
    <3>1. CASE i = 1
      BY <1>8, <3>1
    <3>2. CASE i # 1
      <4>1. i - 1 \in 1 .. N /\ g[i] = e[i] /\ g[i - 1] = e[i - 1]
        BY <3>2
      <4> QED BY <1>6, <3>2, <4>1
    <3> QED BY <3>1, <3>2
  <2>2. g = Rec(g)
    <3> HIDE DEF G
    <3> QED BY <2>1
  <2> QED BY <2>2
<1> HIDE DEF h
<1>10. h[N] = e[N]
  <2> DEFINE U == {k \in Nat : k >= 1 /\ k <= N /\ h[k] # e[k]}
  <2>1. U = {}
    <3>1. SUFFICES ASSUME U # {} PROVE FALSE
      OBVIOUS
    <3>2. PICK k \in U : \A y \in U : k <= y
      BY <3>1, LeastNat
    <3>3. k \in 1 .. N /\ k # 1
      <4>1. h[1] = b[1]
        BY <1>9
      <4> QED BY <3>2, <1>8, <4>1
    <3>4. k - 1 \in Nat /\ k - 1 >= 1 /\ k - 1 <= N /\ k - 1 \notin U
      <4>1. k - 1 \in Nat /\ k - 1 >= 1 /\ k - 1 <= N /\ ~(k <= k - 1)
        BY <3>3
      <4> HIDE DEF U
      <4> QED BY <3>2, <4>1
    <3>5. h[k] = h[k - 1] \o b[k]
      BY <1>9, <3>3
    <3> QED BY <3>2, <3>3, <3>4, <3>5, <1>6
  <2>2. N \notin U
    BY <2>1
  <2> QED BY <2>2
<1> QED BY <1>2, <1>7, <1>10

(* Where the texts are in the whole. *)
LEMMA AppendedAt ==
  ASSUME NEW N \in Nat, NEW b \in [1 .. N -> Seq(Byte)], NEW e, Appended(e, b, N)
  PROVE  /\ \A i \in 0 .. N : Len(e[i]) \in Nat
         /\ Len(e[0]) = 0
         /\ \A i \in 1 .. N :
              /\ Len(e[i]) = Len(e[i - 1]) + Len(b[i])
              /\ \A k \in 1 .. Len(b[i]) : e[N][Len(e[i - 1]) + k] = b[i][k]
<1>1. \A n \in 0 .. N : e[n] \in Seq(Byte) /\ Len(e[n]) \in Nat
  BY DEF Appended
<1>2. e[0] = <<>> /\ Len(e[0]) = 0
  BY DEF Appended
<1>3. ASSUME NEW n \in 1 .. N
      PROVE  /\ e[n - 1] \in Seq(Byte) /\ b[n] \in Seq(Byte)
             /\ e[n] = e[n - 1] \o b[n] /\ Len(e[n]) = Len(e[n - 1]) + Len(b[n])
             /\ Len(e[n - 1]) \in Nat /\ Len(b[n]) \in Nat
  <2>1. n - 1 \in 0 .. N
    OBVIOUS
  <2>2. e[n - 1] \in Seq(Byte) /\ b[n] \in Seq(Byte) /\ e[n] = e[n - 1] \o b[n]
    BY <1>1, <2>1 DEF Appended
  <2> QED BY <2>2
<1>4. ASSUME NEW i \in 1 .. N, NEW k \in 1 .. Len(b[i])
      PROVE  e[N][Len(e[i - 1]) + k] = b[i][k]
  <2> DEFINE p == Len(e[i - 1]) + k
             U == {n \in Nat : i <= n /\ n <= N /\ ~(p <= Len(e[n]) /\ e[n][p] = b[i][k])}
  <2>1. p \in Nat /\ p >= 1
    BY <1>3
  <2>2. p <= Len(e[i]) /\ e[i][p] = b[i][k]
    BY <1>3
  <2>3. U = {}
    <3>1. SUFFICES ASSUME U # {} PROVE FALSE
      OBVIOUS
    <3>2. PICK n \in U : \A y \in U : n <= y
      BY <3>1, LeastNat
    <3>3. n \in 1 .. N /\ i < n
      BY <2>2, <3>2
    <3>4. n - 1 \in Nat /\ i <= n - 1 /\ n - 1 <= N /\ n - 1 \notin U
      BY <3>2, <3>3
    <3>5. p <= Len(e[n - 1]) /\ e[n - 1][p] = b[i][k]
      BY <3>4
    <3> HIDE DEF p
    <3>6. p <= Len(e[n]) /\ e[n][p] = e[n - 1][p]
      <4>1. /\ e[n - 1] \in Seq(Byte) /\ b[n] \in Seq(Byte) /\ e[n] = e[n - 1] \o b[n]
            /\ Len(e[n]) = Len(e[n - 1]) + Len(b[n])
            /\ Len(e[n - 1]) \in Nat /\ Len(b[n]) \in Nat
        BY <1>3, <3>3
      <4>2. ASSUME NEW x \in Seq(Byte), NEW y \in Seq(Byte), NEW z \in Nat, z >= 1,
                   z <= Len(x)
            PROVE  z <= Len(x \o y) /\ (x \o y)[z] = x[z]
        BY <4>2
      <4>3. e[n - 1] \in Seq(Byte) /\ b[n] \in Seq(Byte) /\ p \in Nat /\ p >= 1
        BY ONLY <4>1, <2>1
      <4>4. p <= Len(e[n - 1])
        BY ONLY <3>5
      <4>5. p <= Len(e[n - 1] \o b[n]) /\ (e[n - 1] \o b[n])[p] = e[n - 1][p]
        BY ONLY <4>2, <4>3, <4>4, Zenon
      <4> QED BY ONLY <4>1, <4>5, Zenon
    <3> QED BY <3>2, <3>5, <3>6
  <2>4. N \notin U /\ i <= N
    BY <2>3
  <2> QED BY <2>4
<1> QED BY <1>1, <1>2, <1>3, <1>4

(* Value v fits field f of so many bytes. *)
Fits(v, f, width) ==
  IF f \in TextFields THEN v \in [1 .. width -> Byte] ELSE v \in Nat /\ v < ValuesOf(width)

(* A message with a value that fits for every field of its type. *)
Fitting(msg) ==
  /\ msg.type \in Written
  /\ DOMAIN msg = {"type"} \cup Fields(msg.type)
  /\ msg = [x \in DOMAIN msg |-> msg[x]]
  /\ \A f \in Fields(msg.type) :
       Fits(msg[f], f, FieldsAt(msg.type)[f][2])

(* The bytes of one field. *)
FieldBytes(msg, f, width) ==
  IF f \in TextFields THEN append_str_padded(msg[f], width) ELSE append_be(msg[f], width)

(* A field is read back from wherever its bytes are found. *)
LEMMA FieldRoundTrip ==
  ASSUME NEW msg, NEW f, NEW width \in Nat, Fits(msg[f], f, width)
  PROVE  /\ FieldBytes(msg, f, width) \in Seq(Byte)
         /\ Len(FieldBytes(msg, f, width)) = width
         /\ \A at : \A r \in Seq(Byte), o \in Nat :
              (/\ at[f][1] = o /\ at[f][2] = width /\ o + width <= Len(r)
               /\ \A k \in 1 .. width : r[o + k] = FieldBytes(msg, f, width)[k])
              => ReadField(r, f, at) = msg[f]
<1>1. CASE f \in TextFields
  <2> DEFINE x == msg[f]
  <2>1. x \in [1 .. width -> Byte] /\ x \in Seq(Byte) /\ Len(x) = width
    BY <1>1 DEF Fits
  <2>2. FieldBytes(msg, f, width) = x
    <3>1. FieldBytes(msg, f, width) = append_str_padded(x, width)
      BY <1>1 DEF FieldBytes
    <3> HIDE DEF x
    <3>2. append_str_padded(x, width) = [i \in 1 .. width |-> x[i]]
      BY <2>1 DEF append_str_padded
    <3> QED BY <2>1, <3>1, <3>2
  <2>3. ASSUME NEW r \in Seq(Byte), NEW at, NEW o \in Nat,
               at[f][1] = o, at[f][2] = width, o + width <= Len(r),
               \A k \in 1 .. width : r[o + k] = x[k]
        PROVE  ReadField(r, f, at) = x
    <3>1. ReadField(r, f, at) = SubSeq(r, o + 1, o + width)
      BY <1>1, <2>3 DEF ReadField, read_chars
    <3> DEFINE y == SubSeq(r, o + 1, o + width)
    <3>2. /\ y \in Seq(Byte) /\ Len(y) = width
          /\ \A k \in 1 .. width : y[k] = r[o + k]
      BY <2>3
    <3> HIDE DEF y, x
    <3>3. \A k \in 1 .. Len(y) : y[k] = x[k]
      BY <2>3, <3>2
    <3>4. y = x
      BY ONLY <2>1, <3>2, <3>3, SeqEqual
    <3> QED BY <3>1, <3>4 DEF y
  <2> QED BY <2>1, <2>2, <2>3
<1>2. CASE f \notin TextFields
  <2> DEFINE v == msg[f]
  <2>1. v \in Nat /\ v < ValuesOf(width)
    BY <1>2 DEF Fits
  <2>2. FieldBytes(msg, f, width) = append_be(v, width)
    BY <1>2 DEF FieldBytes
  <2> HIDE DEF v
  <2>3. /\ append_be(v, width) \in Seq(Byte)
        /\ Len(append_be(v, width)) = width
    BY <2>1, AppendType
  <2>4. ASSUME NEW r \in Seq(Byte), NEW at, NEW o \in Nat,
               at[f][1] = o, at[f][2] = width,
               \A k \in 1 .. width : r[o + k] = append_be(v, width)[k]
        PROVE  ReadField(r, f, at) = v
    <3>1. ReadField(r, f, at) = read_be(r, o, width)
      BY <1>2, <2>4 DEF ReadField
    <3>2. read_be(r, o, width) = v
      BY ONLY <2>1, <2>4, width \in Nat, NumberRoundTrip
    <3> QED BY <3>1, <3>2
  <2> QED BY <2>2, <2>3, <2>4 DEF v
<1> QED BY <1>1, <1>2

(* What was encoded is what is decoded. *)
LEMMA RoundTrip ==
  ASSUME NEW msg, Fitting(msg), NEW rec, rec = encode(msg)
  PROVE  /\ rec \in Seq(Byte) /\ Len(rec) = wire_length(msg.type)
         /\ decode(rec) = msg
<1> DEFINE t == msg.type
           at == FieldsAt(t)
           wl == wire_length(t)
           A == HeaderAppends \o Appends(t)
           N == Len(A)
           b == [i \in 1 .. N |-> FieldBytes(msg, A[i][1], A[i][2])]
<1>1. t \in MessageTypes /\ t \in Written
  BY DEF Fitting, Written
<1>2. Tiles(at, wl) /\ Follows(at, wl, A)
  BY <1>1, Tables
<1>3. rec = <<Letter[t]>> \o SeqExt!FlattenSeq(b)
  BY DEF encode, FieldBytes
<1>4. Fields(t) = DOMAIN at
  BY DEF Fields
<1>5. \A f \in DOMAIN at : Fits(msg[f], f, at[f][2])
  BY <1>4 DEF Fitting
<1> HIDE DEF at, wl, A
<1>6. N \in Nat /\ N >= 1
  BY <1>2 DEF Follows
<1>7. ASSUME NEW i \in 1 .. N
      PROVE  /\ A[i][1] \in DOMAIN at /\ at[A[i][1]][2] = A[i][2]
             /\ A[i][2] \in Nat /\ b[i] = FieldBytes(msg, A[i][1], A[i][2])
             /\ b[i] \in Seq(Byte) /\ Len(b[i]) = A[i][2]
  <2>1. A[i][1] \in DOMAIN at /\ at[A[i][1]][2] = A[i][2]
    BY <1>2 DEF Follows
  <2>2. A[i][2] \in Nat
    BY <1>2, <2>1 DEF Tiles
  <2>3. Fits(msg[A[i][1]], A[i][1], A[i][2])
    BY <1>5, <2>1
  <2> DEFINE f == A[i][1]
             w == A[i][2]
  <2>4. b[i] = FieldBytes(msg, f, w)
    OBVIOUS
  <2> HIDE DEF f, w
  <2>5. FieldBytes(msg, f, w) \in Seq(Byte) /\ Len(FieldBytes(msg, f, w)) = w
    BY <2>2, <2>3, FieldRoundTrip DEF f, w
  <2> QED BY <2>1, <2>2, <2>4, <2>5 DEF f, w
<1>8. b \in [1 .. N -> Seq(Byte)]
  BY <1>7
<1> HIDE DEF b, N
<1>9. PICK e : Appended(e, b, N) /\ SeqExt!FlattenSeq(b) = e[N]
  BY ONLY <1>6, <1>8, FlattenRec
<1>10. /\ \A i \in 0 .. N : Len(e[i]) \in Nat
       /\ Len(e[0]) = 0
       /\ \A i \in 1 .. N :
            /\ Len(e[i]) = Len(e[i - 1]) + Len(b[i])
            /\ \A k \in 1 .. Len(b[i]) : e[N][Len(e[i - 1]) + k] = b[i][k]
  BY ONLY <1>6, <1>8, <1>9, AppendedAt, ZenonT(40)
<1>11. ASSUME NEW i \in 1 .. N
       PROVE  /\ Len(e[i]) = Len(e[i - 1]) + A[i][2]
              /\ Len(e[i - 1]) \in Nat /\ A[i][2] \in Nat
  <2>1. i - 1 \in 0 .. N
    BY <1>6
  <2>2. Len(b[i]) = A[i][2] /\ A[i][2] \in Nat
    BY <1>7
  <2>3. Len(e[i]) = Len(e[i - 1]) + Len(b[i]) /\ Len(e[i - 1]) \in Nat
    BY ONLY <1>10, <2>1, i \in 1 .. N
  <2> QED BY ONLY <2>2, <2>3
<1>12. \A i \in 1 .. N : at[A[i][1]][1] = 1 + Len(e[i - 1])
  <2> DEFINE U == {i \in Nat : i >= 1 /\ i <= N /\ at[A[i][1]][1] # 1 + Len(e[i - 1])}
  <2>1. U = {}
    <3>1. SUFFICES ASSUME U # {} PROVE FALSE
      OBVIOUS
    <3>2. PICK i \in U : \A y \in U : i <= y
      BY <3>1, LeastNat
    <3>3. i # 1
      <4>1. at[A[1][1]][1] = 1
        BY <1>2 DEF Follows
      <4> QED BY <3>2, <4>1, <1>10
    <3> DEFINE j == i - 1
    <3>4. j \in 1 .. N - 1 /\ j \in 1 .. N /\ j \in Nat /\ ~(i <= j) /\ i = j + 1
      BY <3>2, <3>3, <1>6
    <3>5. j \notin U
      <4> HIDE DEF U
      <4> QED BY <3>2, <3>4
    <3> HIDE DEF j
    <3>6. at[A[j][1]][1] = 1 + Len(e[j - 1])
      BY <3>4, <3>5
    <3>7. at[A[j + 1][1]][1] = at[A[j][1]][1] + A[j][2]
      BY <1>2, <3>4 DEF Follows, N
    <3>8. Len(e[j]) = Len(e[j - 1]) + A[j][2] /\ Len(e[j - 1]) \in Nat /\ A[j][2] \in Nat
      BY ONLY <1>11, <3>4
    <3>9. at[A[i][1]][1] = 1 + Len(e[i - 1])
      <4>1. i - 1 = j
        BY <3>4
      <4>2. at[A[i][1]][1] = at[A[j][1]][1] + A[j][2]
        BY ONLY <3>4, <3>7
      <4>3. at[A[i][1]][1] = 1 + Len(e[j])
        <5> DEFINE x == Len(e[j - 1])
                   y == A[j][2]
        <5>1. /\ x \in Nat /\ y \in Nat /\ Len(e[j]) = x + y
              /\ at[A[i][1]][1] = (1 + x) + y
          BY ONLY <3>6, <3>8, <4>2
        <5> HIDE DEF x, y
        <5> QED BY ONLY <5>1
      <4> QED BY ONLY <4>1, <4>3
    <3> QED BY <3>2, <3>9
  <2> QED BY <2>1
<1>13. e[N] \in Seq(Byte) /\ Letter[t] \in Byte
  BY <1>1, <1>6, <1>9, CodecAssumption DEF Appended, Byte
<1>14. /\ rec \in Seq(Byte) /\ Len(rec) = 1 + Len(e[N]) /\ rec[1] = Letter[t]
       /\ \A k \in 1 .. Len(e[N]) : rec[1 + k] = e[N][k]
  BY <1>3, <1>9, <1>13
<1>15. Len(rec) = wl
  <2>1. at[A[N][1]][1] + A[N][2] = wl /\ N \in 1 .. N
    BY <1>2, <1>6 DEF Follows, N
  <2>2. /\ at[A[N][1]][1] = 1 + Len(e[N - 1]) /\ Len(e[N]) = Len(e[N - 1]) + A[N][2]
        /\ Len(e[N - 1]) \in Nat /\ A[N][2] \in Nat
    BY ONLY <1>11, <1>12, <2>1
  <2> QED BY <1>14, <2>1, <2>2
<1>16. TypeOf(rec[1]) = t
  BY <1>1, <1>14, CodecAssumption DEF TypeOf
<1>17. ASSUME NEW f \in DOMAIN at PROVE ReadField(rec, f, at) = msg[f]
  <2>1. PICK i \in 1 .. N : A[i][1] = f
    BY <1>2 DEF Follows, N
  <2> DEFINE o == at[f][1]
             w == A[i][2]
  <2>2. /\ o = 1 + Len(e[i - 1]) /\ at[f][2] = w /\ w \in Nat /\ o \in Nat
        /\ b[i] = FieldBytes(msg, f, w) /\ Len(b[i]) = w /\ Len(e[i - 1]) \in Nat
    BY <1>7, <1>10, <1>12, <2>1
  <2>3. o + w <= Len(rec)
    BY <1>2, <1>15, <2>2 DEF Tiles
  <2>4. ASSUME NEW k \in 1 .. w PROVE rec[o + k] = FieldBytes(msg, f, w)[k]
    <3>1. e[N][Len(e[i - 1]) + k] = b[i][k]
      BY <1>10, <2>1, <2>2
    <3>2. Len(e[i - 1]) + k \in 1 .. Len(e[N]) /\ o + k = 1 + (Len(e[i - 1]) + k)
      BY <1>14, <2>2, <2>3, SMTT(30)
    <3> QED BY <1>14, <2>2, <3>1, <3>2
  <2>5. Fits(msg[f], f, w)
    BY <1>5, <2>2
  <2> HIDE DEF o, w
  <2>6. at[f][1] = o
    BY DEF o
  <2>7. \A y : \A r \in Seq(Byte), z \in Nat :
          (/\ y[f][1] = z /\ y[f][2] = w /\ z + w <= Len(r)
           /\ \A k \in 1 .. w : r[z + k] = FieldBytes(msg, f, w)[k])
          => ReadField(r, f, y) = msg[f]
    BY ONLY <2>2, <2>5, FieldRoundTrip, ZenonT(40)
  <2> QED BY ONLY <1>14, <2>2, <2>3, <2>4, <2>6, <2>7, Zenon
<1>18. decode(rec) = msg
  <2>1. accepts(t, Len(rec)) /\ rec # <<>>
    BY <1>2, <1>14, <1>15 DEF accepts, Tiles, wl
  <2>2. decode(rec) = And([type |-> t], [f \in Fields(t) |-> ReadField(rec, f, at)])
    BY <1>16, <2>1 DEF decode, at
  <2>3. DOMAIN msg = {"type"} \cup Fields(t) /\ msg = [x \in DOMAIN msg |-> msg[x]]
    BY DEF Fitting
  <2>4. "type" \notin Fields(t)
    BY <1>1 DEF Written, MessageTypes, Fields, FieldsAt, And, PayloadAt, HeaderAt,
       StockDirectoryAt, AddOrderAt, OrderExecutedAt, OrderCancelAt, OrderReplaceAt
  <2> HIDE DEF t
  <2>5. decode(rec) = [x \in {"type"} \cup Fields(t) |->
                         IF x \in Fields(t) THEN ReadField(rec, x, at) ELSE t]
    BY <2>2 DEF And
  <2>6. \A x \in {"type"} \cup Fields(t) :
          msg[x] = IF x \in Fields(t) THEN ReadField(rec, x, at) ELSE t
    BY <1>4, <1>17, <2>4 DEF t
  <2> QED BY <2>3, <2>5, <2>6
<1> QED BY <1>14, <1>15, <1>18 DEF wl

-----------------------------------------------------------------------------
(* The generator. *)

(* What the code's types are wide enough for: share counts and prices have *)
(* four bytes, order references eight, the lengths of records two, 'B' and *)
(* 'S' differ; and a book that has every price and a slot for every order  *)
(* that is added.                                                          *)
WideEnough ==
  /\ ShareSpan <= ValuesOf(4) /\ PriceSpan <= ValuesOf(4) /\ 100 < ValuesOf(4)
  /\ MaxRef < ValuesOf(8)
  /\ 44 < ValuesOf(2) /\ Letters.B # Letters.S
  /\ Prices = 0 .. PriceSpan - 1 /\ OrderCapacity >= NumOrders

(* The counters that grow with every message fit their fields: a timestamp *)
(* has six bytes, a match number eight.                                    *)
CountersFit == ts < ValuesOf(6) /\ next_match_number <= ValuesOf(8)

(* Values for the fields of a type behind the header. *)
Payload(type, p) ==
  /\ DOMAIN p = DOMAIN PayloadAt(type)
  /\ \A f \in DOMAIN p : Fits(p[f], f, PayloadAt(type)[f][2])

(* The members that append_header writes. *)
HeaderNames == {"stock_locate", "tracking_number", "timestamp"}

(* The message with that payload and number, sent at a time. *)
Built(type, locate, number, time, p) ==
  And([type |-> type, stock_locate |-> locate,
       tracking_number |-> number, timestamp |-> time], p)

(* What its members are. *)
IsBuilt(msg, type, locate, number, time, p) ==
  /\ DOMAIN msg = {"type"} \cup HeaderNames \cup DOMAIN p
  /\ msg = [x \in DOMAIN msg |-> msg[x]]
  /\ msg.type = type /\ msg.stock_locate = locate
  /\ msg.tracking_number = number /\ msg.timestamp = time
  /\ \A f \in DOMAIN p : msg[f] = p[f]

(* No payload has a member of the header. *)
LEMMA PayloadNames ==
  ASSUME NEW t \in Written
  PROVE  ("type" \notin DOMAIN PayloadAt(t)) /\ HeaderNames \cap DOMAIN PayloadAt(t) = {}
BY DEF Written, MessageTypes, PayloadAt, StockDirectoryAt, AddOrderAt, OrderExecutedAt,
       OrderCancelAt, OrderReplaceAt, And, HeaderNames

(* The members of a message that is built. *)
LEMMA BuiltFields ==
  ASSUME NEW t \in Written, NEW locate, NEW number, NEW time, NEW p, Payload(t, p),
         NEW msg, msg = Built(t, locate, number, time, p)
  PROVE  IsBuilt(msg, t, locate, number, time, p)
<1>1. "type" \notin DOMAIN p /\ HeaderNames \cap DOMAIN p = {}
  BY PayloadNames DEF Payload
<1> QED BY <1>1 DEF IsBuilt, Built, And, HeaderNames

(* The widths that the fields have. *)
LEMMA ValuesSmall ==
  /\ ValuesOf(1) = ByteSpan /\ ValuesOf(2) = ByteSpan * ByteSpan
  /\ ValuesOf(2) \in Nat /\ ValuesOf(4) \in Nat /\ ValuesOf(6) \in Nat
  /\ ValuesOf(8) \in Nat
<1>1. ByteSpan \in Nat
  BY CodecAssumption
<1>2. ValuesOf(0) = 1 /\ ValuesOf(0 + 1) = ValuesOf(0) * ByteSpan
      /\ ValuesOf(1 + 1) = ValuesOf(1) * ByteSpan
  BY ValuesFacts
<1>3. ValuesOf(2) \in Nat /\ ValuesOf(4) \in Nat /\ ValuesOf(6) \in Nat
      /\ ValuesOf(8) \in Nat
  BY ValuesFacts
<1> QED BY <1>1, <1>2, <1>3

(* A message that is built fits its fields. *)
LEMMA BuiltFits ==
  ASSUME NEW t \in Written, NEW locate \in Nat, locate < ValuesOf(2),
         NEW number \in Nat, number < ValuesOf(2),
         NEW time \in Nat, time < ValuesOf(6),
         NEW p, Payload(t, p), NEW msg, msg = Built(t, locate, number, time, p)
  PROVE  Fitting(msg)
<1>0. IsBuilt(msg, t, locate, number, time, p)
  BY BuiltFields
<1>1. /\ DOMAIN msg = {"type"} \cup HeaderNames \cup DOMAIN p
      /\ msg = [x \in DOMAIN msg |-> msg[x]]
      /\ msg.type = t /\ msg.stock_locate = locate
      /\ msg.tracking_number = number /\ msg.timestamp = time
      /\ \A f \in DOMAIN p : msg[f] = p[f]
  BY <1>0 DEF IsBuilt
<1>2. /\ DOMAIN p = DOMAIN PayloadAt(t) /\ HeaderNames \cap DOMAIN p = {}
  BY PayloadNames DEF Payload
<1>3. /\ Fields(t) = HeaderNames \cup DOMAIN p
      /\ \A f \in DOMAIN p : FieldsAt(t)[f] = PayloadAt(t)[f]
      /\ FieldsAt(t)["stock_locate"] = <<1, 2>> /\ FieldsAt(t)["tracking_number"] = <<3, 2>>
      /\ FieldsAt(t)["timestamp"] = <<5, 6>>
  BY <1>2 DEF Fields, FieldsAt, And, HeaderAt, HeaderNames
<1>4. DOMAIN msg = {"type"} \cup Fields(msg.type)
  BY <1>1, <1>3
<1>5. ASSUME NEW f \in Fields(t)
      PROVE  Fits(msg[f], f, FieldsAt(t)[f][2])
  <2>1. CASE f \in DOMAIN p
    BY <1>1, <1>3, <2>1 DEF Payload
  <2>2. CASE f \in HeaderNames
    <3>1. f \notin TextFields
      BY <2>2 DEF HeaderNames, TextFields
    <3> QED BY <1>1, <1>3, <2>2, <3>1 DEF HeaderNames, Fits
  <2> QED BY <1>3, <2>1, <2>2
<1> QED BY <1>1, <1>4, <1>5 DEF Fitting

(* Emit: the record can be read back, and the book gets the message meant. *)
LEMMA EmitReads ==
  ASSUME NEW t \in Written, NEW locate \in Nat, locate < ValuesOf(2),
         NEW p, Payload(t, p), Emit(t, locate, p),
         tracking \in 0 .. ByteSpan * ByteSpan - 1, ts \in Nat, WideEnough, CountersFit'
  PROVE  /\ WireExact'
         /\ \E msg : /\ IsBuilt(msg, t, locate, tracking, ts + 1000, p)
                      /\ book' = apply(book, BookMessage(msg))
         /\ tracking' \in 0 .. ByteSpan * ByteSpan - 1 /\ ts' \in Nat
<1> DEFINE msg == Built(t, locate, tracking, ts + 1000, p)
           rec == encode(msg)
<1>1. /\ meant' = msg /\ written' = write_framed(rec)
      /\ tracking' = (tracking + 1) % (ByteSpan * ByteSpan) /\ ts' = ts + 1000
      /\ book' = IF decode(rec) = NoMessage THEN book
                 ELSE apply(book, BookMessage(decode(rec)))
  BY DEF Emit, Built
<1>2. ts' < ValuesOf(6)
  BY DEF CountersFit
<1>3. Fitting(msg)
  <2> DEFINE number == tracking
             time == ts + 1000
  <2>1. number \in Nat /\ number < ValuesOf(2)
    <3>1. ByteSpan * ByteSpan \in Nat
      BY CodecAssumption
    <3> QED BY <3>1, ValuesSmall
  <2>2. time \in Nat /\ time < ValuesOf(6)
    BY <1>1, <1>2
  <2>3. msg = Built(t, locate, number, time, p)
    OBVIOUS
  <2> HIDE DEF number, time, msg
  <2> QED BY <2>1, <2>2, <2>3, BuiltFits
<1>4. /\ IsBuilt(msg, t, locate, tracking, ts + 1000, p)
      /\ msg.type = t /\ msg # NoMessage
  <2> DEFINE time == ts + 1000
  <2>1. msg = Built(t, locate, tracking, time, p)
    OBVIOUS
  <2> HIDE DEF time, msg
  <2>2. IsBuilt(msg, t, locate, tracking, time, p)
    BY <2>1, BuiltFields
  <2>3. msg.type = t
    BY <2>2 DEF IsBuilt
  <2> QED BY <2>2, <2>3 DEF NoMessage, Written, MessageTypes, time
<1> HIDE DEF msg
<1>5. /\ rec \in Seq(Byte) /\ Len(rec) = wire_length(t) /\ decode(rec) = msg
  BY <1>3, <1>4, RoundTrip
<1> HIDE DEF rec
<1>6. book' = apply(book, BookMessage(msg))
  BY <1>1, <1>4, <1>5
<1>7. /\ wire_length(t) \in Nat /\ wire_length(t) < ValuesOf(2)
  <2>1. wire_length(t) \in Nat /\ wire_length(t) <= 44
    BY DEF Written, MessageTypes, wire_length
  <2>2. 44 < ValuesOf(2) /\ ValuesOf(2) \in Nat
    BY ValuesSmall DEF WideEnough
  <2> QED BY <2>1, <2>2
<1>8. WireExact'
  <2> DEFINE n == Len(rec)
             pre == append_be(n, 2)
  <2>1. n \in Nat /\ n < ValuesOf(2)
    BY <1>5, <1>7
  <2> HIDE DEF n
  <2>2. pre \in Seq(Byte) /\ Len(pre) = 2
    BY <2>1, AppendType
  <2>3. written' = pre \o rec
    BY <1>1 DEF write_framed, n
  <2> HIDE DEF pre
  <2>4. /\ written' \in Seq(Byte) /\ Len(written') = 2 + n /\ Len(rec) = n
        /\ \A k \in 1 .. 2 : written'[0 + k] = pre[k]
        /\ \A k \in 1 .. n : written'[2 + k] = rec[k]
    <3>1. ASSUME NEW x \in Seq(Byte), NEW y \in Seq(Byte)
          PROVE  /\ x \o y \in Seq(Byte) /\ Len(x \o y) = Len(x) + Len(y)
                 /\ \A k \in 1 .. Len(x) : (x \o y)[0 + k] = x[k]
                 /\ \A k \in 1 .. Len(y) : (x \o y)[Len(x) + k] = y[k]
      BY ONLY x \in Seq(Byte), y \in Seq(Byte)
    <3>2. /\ pre \o rec \in Seq(Byte) /\ Len(pre \o rec) = Len(pre) + Len(rec)
          /\ \A k \in 1 .. Len(pre) : (pre \o rec)[0 + k] = pre[k]
          /\ \A k \in 1 .. Len(rec) : (pre \o rec)[Len(pre) + k] = rec[k]
      BY ONLY <1>5, <2>2, <3>1, Zenon
    <3>3. Len(rec) = n
      BY DEF n
    <3>4. Len(pre) = 2
      BY <2>2
    <3> QED BY ONLY <2>3, <3>2, <3>3, <3>4, Zenon
  <2>5. SubSeq(written', 3, Len(written')) = rec
    <3> DEFINE y == SubSeq(written', 3, Len(written'))
    <3>1. y \in Seq(Byte) /\ Len(y) = n /\ \A k \in 1 .. n : y[k] = written'[2 + k]
      BY <2>1, <2>4
    <3> HIDE DEF y
    <3>2. y = rec
      BY ONLY <1>5, <2>4, <3>1, SeqEqual
    <3> QED BY <3>2 DEF y
  <2>6. read_be(written', 0, 2) = n
    BY <2>1, <2>4, NumberRoundTrip DEF pre
  <2> QED BY <1>1, <1>4, <1>5, <2>4, <2>5, <2>6, ZenonT(30) DEF WireExact
<1>9. tracking' \in 0 .. ByteSpan * ByteSpan - 1 /\ ts' \in Nat
  <2>1. ByteSpan * ByteSpan \in Nat /\ ByteSpan * ByteSpan > 0
    BY CodecAssumption
  <2> QED BY <1>1, <2>1
<1> QED BY <1>4, <1>6, <1>8, <1>9

-----------------------------------------------------------------------------
(* The book follows the generator's list of live orders. *)

(* The book's name for a side of generate(). *)
SideOf(side) == IF side = "B" THEN "buy" ELSE "sell"

(* What generate() keeps of a live order. *)
LiveOrderType ==
  [symbol_index : SymbolIndices, remaining_shares : 1 .. ShareSpan - 1,
   price : 0 .. PriceSpan - 1, side : {"B", "S"}]

(* Live orders as generate() keeps them when next is the next reference. *)
KeptLive(os, next) ==
  DOMAIN os \subseteq 1 .. next - 1 /\ \A r \in DOMAIN os : os[r] \in LiveOrderType

(* The orders of book b are the live orders os. *)
Mirrors(b, os) ==
  /\ DOMAIN Orders(b) = DOMAIN os
  /\ \A r \in DOMAIN os : /\ Orders(b)[r].price = os[r].price
                          /\ Orders(b)[r].shares = os[r].remaining_shares
                          /\ Orders(b)[r].side = SideOf(os[r].side)

(* An order is in the book exactly if it is live for generate(). *)
LEMMA MirrorsLive ==
  ASSUME NEW b, NEW os, Mirrors(b, os), NEW ref \in Refs
  PROVE  /\ Live(b, ref) <=> ref \in DOMAIN os
         /\ ref \in DOMAIN os => /\ Orders(b)[ref] = OrderOf(b, ref)
                                 /\ OrderOf(b, ref).price = os[ref].price
                                 /\ OrderOf(b, ref).shares = os[ref].remaining_shares
                                 /\ OrderOf(b, ref).side = SideOf(os[ref].side)
<1>1. DOMAIN Orders(b) = {r \in Refs : Live(b, r)}
  BY DEF Orders
<1>2. Live(b, ref) => Orders(b)[ref] = OrderOf(b, ref)
  BY DEF Orders
<1> QED BY <1>1, <1>2 DEF Mirrors

(* No more than n orders are live. *)
FewLive(os, n) == IsFiniteSet(DOMAIN os) /\ Cardinality(DOMAIN os) <= n

(* A list with one order more, one less, and one in place of another. *)
LEMMA FewWith ==
  ASSUME NEW os, NEW n \in Nat, FewLive(os, n), NEW m, NEW x, DOMAIN m = DOMAIN os \cup {x}
  PROVE  FewLive(m, n + 1)
<1> DEFINE D == DOMAIN os
<1> HIDE DEF D
<1>1. IsFiniteSet(D) /\ Cardinality(D) \in Nat /\ Cardinality(D) <= n
  BY FS_CardinalityType DEF FewLive, D
<1>2. IsFiniteSet(D \cup {x}) /\ Cardinality(D \cup {x}) <= Cardinality(D) + 1
  <2>1. /\ IsFiniteSet(D \cup {x})
        /\ Cardinality(D \cup {x}) = IF x \in D THEN Cardinality(D) ELSE Cardinality(D) + 1
    BY <1>1, FS_AddElement
  <2> QED BY <1>1, <2>1
<1>3. Cardinality(D \cup {x}) \in Nat
  BY <1>2, FS_CardinalityType
<1> QED BY <1>1, <1>2, <1>3 DEF FewLive, D

LEMMA FewWithin ==
  ASSUME NEW os, NEW n \in Nat, FewLive(os, n), NEW m, DOMAIN m \subseteq DOMAIN os
  PROVE  FewLive(m, n)
<1> DEFINE D == DOMAIN os
           E == DOMAIN m
<1> HIDE DEF D, E
<1>1. IsFiniteSet(D) /\ Cardinality(D) \in Nat /\ Cardinality(D) <= n /\ E \subseteq D
  BY FS_CardinalityType DEF FewLive, D, E
<1>2. IsFiniteSet(E) /\ Cardinality(E) <= Cardinality(D)
  BY <1>1, FS_Subset
<1>3. Cardinality(E) \in Nat
  BY <1>2, FS_CardinalityType
<1> QED BY <1>1, <1>2, <1>3 DEF FewLive, E

LEMMA FewExchanged ==
  ASSUME NEW os, NEW n \in Nat, FewLive(os, n), NEW ref \in DOMAIN os,
         NEW m, NEW x, DOMAIN m = (DOMAIN os \ {ref}) \cup {x}
  PROVE  FewLive(m, n)
<1> DEFINE D == DOMAIN os
           u == [r \in D \ {ref} |-> os[r]]
<1>1. DOMAIN u = D \ {ref} /\ DOMAIN m = DOMAIN u \cup {x}
  OBVIOUS
<1>2. IsFiniteSet(D) /\ Cardinality(D) \in Nat /\ Cardinality(D) <= n
  BY FS_CardinalityType DEF FewLive
<1> HIDE DEF u
<1>3. IsFiniteSet(D \ {ref}) /\ Cardinality(D \ {ref}) = Cardinality(D) - 1
  BY <1>2, FS_RemoveElement
<1>4. Cardinality(D \ {ref}) \in Nat
  BY <1>3, FS_CardinalityType
<1>5. n - 1 \in Nat /\ FewLive(u, n - 1)
  BY <1>1, <1>2, <1>3, <1>4 DEF FewLive
<1>6. FewLive(m, (n - 1) + 1)
  BY <1>1, <1>5, FewWith
<1> QED BY <1>6

(* There is a slot for the next order: fewer than num_orders are live. *)
LEMMA SlotLeft ==
  ASSUME WideEnough, NEW b, BookInv(b), NEW os, Mirrors(b, os),
         NEW n \in Nat, n < NumOrders, FewLive(os, n)
  PROVE  b.free # <<>>
<1> DEFINE R == {r \in Refs : Live(b, r)}
<1>1. R = DOMAIN os
  BY DEF Mirrors, Orders
<1>2. NumOrders \in Nat /\ OrderCapacity \in Nat /\ OrderCapacity >= NumOrders
  BY SynthAssumption, CapacityAssumption DEF WideEnough
<1>3. b.free = <<>> <=> Cardinality(R) >= OrderCapacity
  BY PoolCount DEF BookInv, R
<1> HIDE DEF R
<1>4. Cardinality(R) <= n /\ Cardinality(R) \in Nat
  BY <1>1, FS_CardinalityType DEF FewLive
<1> QED BY <1>2, <1>3, <1>4

(* An add is accepted, and both sides have one order more. *)
LEMMA MirrorAdd ==
  ASSUME WideEnough, NEW b, BookInv(b), NEW os, Mirrors(b, os),
         NEW next \in Refs, KeptLive(os, next), NEW o \in LiveOrderType,
         NEW n \in Nat, n < NumOrders, FewLive(os, n),
         NEW c, c = add_order(b, next, o.price, o.remaining_shares, SideOf(o.side), 0).book
  PROVE  /\ BookInv(c) /\ Mirrors(c, With(os, next, o))
         /\ KeptLive(With(os, next, o), next + 1)
         /\ FewLive(With(os, next, o), n + 1)
<1> DEFINE price == o.price
           shares == o.remaining_shares
           d == SideOf(o.side)
           x == NewOrder(next, price, shares, d, 0)
           r == add_order(b, next, price, shares, d, 0)
           m == With(os, next, o)
<1>0. MaxRef \in Int /\ Refs = 1 .. MaxRef
  BY SynthAssumption
<1>1. /\ price \in 0 .. PriceSpan - 1 /\ price \in Prices
      /\ shares \in 0 .. ShareSpan - 1 /\ shares # 0
      /\ d \in Sides /\ 0 \in Traders
  BY TraderAssumption DEF LiveOrderType, SideOf, Sides, WideEnough
<1>2. next \notin DOMAIN os
  BY <1>0 DEF KeptLive
<1>3. ~Live(b, next) /\ b.free # <<>>
  BY <1>2, MirrorsLive, SlotLeft
<1>4. x.price = price /\ x.shares = shares /\ x.side = d
  BY DEF NewOrder
<1>5. c = r.book
  OBVIOUS
<1>6. /\ DOMAIN m = DOMAIN os \cup {next}
      /\ m[next] = o /\ \A y \in DOMAIN os : m[y] = os[y]
  BY <1>2 DEF With, And
<1> HIDE DEF price, shares, d, x, m
<1>7. BookInv(r.book) /\ Extends(Orders(r.book), Orders(b), next, x)
  <2> HIDE DEF r
  <2>1. r = add_order(b, next, price, shares, d, 0)
    BY DEF r
  <2>2. /\ BookInv(r.book)
        /\ r.ok <=> shares # 0 /\ ~Live(b, next) /\ b.free # <<>>
        /\ r.ok => Extends(Orders(r.book), Orders(b), next,
                           NewOrder(next, price, shares, d, 0))
    BY <1>1, <2>1, AddEffect
  <2> QED BY <1>1, <1>3, <2>2 DEF x
<1> HIDE DEF r
<1>8. Mirrors(c, m)
  <2>1. DOMAIN Orders(c) = DOMAIN m
    BY <1>5, <1>6, <1>7 DEF Extends, Mirrors
  <2>2. ASSUME NEW y \in DOMAIN os
        PROVE  Orders(c)[y] = Orders(b)[y] /\ m[y] = os[y]
    BY <1>5, <1>6, <1>7 DEF Extends, Mirrors
  <2>3. Orders(c)[next] = x /\ m[next] = o
    BY <1>5, <1>6, <1>7 DEF Extends
  <2> QED BY <1>4, <1>6, <2>1, <2>2, <2>3 DEF Mirrors, price, shares, d
<1>9. KeptLive(m, next + 1)
  BY <1>0, <1>6 DEF KeptLive
<1>10. FewLive(m, n + 1)
  BY <1>6, FewWith
<1> QED BY <1>5, <1>7, <1>8, <1>9, <1>10 DEF m

(* The live orders os when n shares of order ref are gone. *)
LeftOf(os, ref, n) ==
  IF n = os[ref].remaining_shares THEN Without(os, ref)
  ELSE [os EXCEPT ![ref].remaining_shares = @ - n]

(* An execution or a cancel of shares that are left is accepted. *)
LEMMA MirrorReduce ==
  ASSUME NEW b, BookInv(b), NEW os, Mirrors(b, os), NEW next \in Refs, KeptLive(os, next),
         NEW ref \in DOMAIN os, NEW n \in 1 .. os[ref].remaining_shares,
         NEW c, c = reduce_shares(b, ref, n).book,
         NEW m, m = LeftOf(os, ref, n)
  PROVE  BookInv(c) /\ Mirrors(c, m) /\ KeptLive(m, next)
<1> DEFINE r == reduce_shares(b, ref, n)
           o == OrderOf(b, ref)
<1>0. /\ MaxRef \in Nat /\ Refs = 1 .. MaxRef
      /\ next \in Nat /\ ref \in Refs
  BY SynthAssumption DEF KeptLive
<1>1. /\ os[ref] \in LiveOrderType /\ os[ref].remaining_shares \in 1 .. ShareSpan - 1
      /\ n \in Nat
  BY DEF KeptLive, LiveOrderType
<1>2. /\ Live(b, ref) /\ Orders(b)[ref] = o
      /\ o.price = os[ref].price /\ o.side = SideOf(os[ref].side)
      /\ o.shares = os[ref].remaining_shares
  BY <1>0, MirrorsLive
<1>3. c = r.book
  OBVIOUS
<1> HIDE DEF r, o
<1>4. /\ BookInv(c) /\ r.ok
      /\ n = o.shares => Extends(Orders(b), Orders(c), ref, o)
      /\ n # o.shares => Changes(Orders(c), Orders(b), ref,
                                 [o EXCEPT !.shares = o.shares - n])
  <2>1. /\ BookInv(r.book)
        /\ r.ok <=> Live(b, ref) /\ n \in 1 .. o.shares
        /\ r.ok /\ n = o.shares => Extends(Orders(b), Orders(r.book), ref, o)
        /\ r.ok /\ n # o.shares =>
             Changes(Orders(r.book), Orders(b), ref,
                     [o EXCEPT !.shares = o.shares - n])
    BY <1>0, <1>1, ReduceEffect DEF r, o
  <2>2. r.ok
    BY <1>2, <2>1
  <2> QED BY <1>3, <2>1, <2>2
<1>5. CASE n = os[ref].remaining_shares
  <2>1. Extends(Orders(b), Orders(c), ref, o)
    BY <1>2, <1>4, <1>5
  <2>2. DOMAIN m = DOMAIN os \ {ref} /\ \A y \in DOMAIN os \ {ref} : m[y] = os[y]
    BY <1>5 DEF LeftOf, Without
  <2>3. DOMAIN Orders(c) = DOMAIN os \ {ref}
        /\ \A y \in DOMAIN Orders(c) : Orders(c)[y] = Orders(b)[y]
    BY <2>1 DEF Extends, Mirrors
  <2>4. Mirrors(c, m)
    BY <2>2, <2>3 DEF Mirrors
  <2>5. KeptLive(m, next)
    BY <2>2 DEF KeptLive
  <2> QED BY <1>4, <2>4, <2>5
<1>6. CASE n # os[ref].remaining_shares
  <2> DEFINE v == [os[ref] EXCEPT !.remaining_shares = os[ref].remaining_shares - n]
             x == [o EXCEPT !.shares = o.shares - n]
  <2>1. Changes(Orders(c), Orders(b), ref, x)
    BY <1>2, <1>4, <1>6
  <2>2. /\ DOMAIN m = DOMAIN os /\ m[ref] = v
        /\ \A y \in DOMAIN os \ {ref} : m[y] = os[y]
    BY <1>6 DEF LeftOf
  <2>3. /\ v \in LiveOrderType /\ v.price = os[ref].price /\ v.side = os[ref].side
        /\ v.remaining_shares = os[ref].remaining_shares - n
    BY <1>1, <1>6, ShareAssumption DEF LiveOrderType
  <2>4. x.price = o.price /\ x.side = o.side /\ x.shares = o.shares - n
    <3>1. o \in Order
      BY <1>0, <1>2, LiveOrder DEF BookInv, o, OrderOf
    <3> QED BY <3>1 DEF Order
  <2> HIDE DEF v, x
  <2>5. /\ DOMAIN Orders(c) = DOMAIN os /\ Orders(c)[ref] = x
        /\ \A y \in DOMAIN os \ {ref} : Orders(c)[y] = Orders(b)[y]
    BY <2>1 DEF Changes, Mirrors
  <2>6. Mirrors(c, m)
    BY <1>2, <2>2, <2>3, <2>4, <2>5 DEF Mirrors
  <2>7. KeptLive(m, next)
    BY <2>2, <2>3 DEF KeptLive
  <2> QED BY <1>4, <2>6, <2>7
<1> QED BY <1>5, <1>6

(* A delete of a live order is accepted. *)
LEMMA MirrorDelete ==
  ASSUME NEW b, BookInv(b), NEW os, Mirrors(b, os), NEW next \in Refs, KeptLive(os, next),
         NEW ref \in DOMAIN os, NEW c, c = delete_order(b, ref).book
  PROVE  BookInv(c) /\ Mirrors(c, Without(os, ref)) /\ KeptLive(Without(os, ref), next)
<1> DEFINE r == delete_order(b, ref)
           m == Without(os, ref)
<1>1. ref \in Refs
  BY SynthAssumption DEF KeptLive
<1>2. Live(b, ref)
  BY <1>1, MirrorsLive
<1>3. BookInv(c) /\ Extends(Orders(b), Orders(c), ref, OrderOf(b, ref))
  BY <1>1, <1>2, DeleteEffect
<1>4. DOMAIN m = DOMAIN os \ {ref} /\ \A y \in DOMAIN os \ {ref} : m[y] = os[y]
  BY DEF Without
<1> HIDE DEF m
<1>5. DOMAIN Orders(c) = DOMAIN os \ {ref}
      /\ \A y \in DOMAIN Orders(c) : Orders(c)[y] = Orders(b)[y]
  BY <1>3 DEF Extends, Mirrors
<1>6. Mirrors(c, m)
  BY <1>4, <1>5 DEF Mirrors
<1>7. KeptLive(m, next)
  BY <1>4 DEF KeptLive
<1> QED BY <1>3, <1>6, <1>7 DEF m

(* A replace of a live order by a new reference is accepted. *)
LEMMA MirrorReplace ==
  ASSUME WideEnough, NEW b, BookInv(b), NEW os, Mirrors(b, os),
         NEW next \in Refs, KeptLive(os, next), NEW ref \in DOMAIN os,
         NEW o \in LiveOrderType, o.side = os[ref].side,
         NEW c, c = replace_order(b, ref, next, o.remaining_shares, o.price).book
  PROVE  /\ BookInv(c) /\ Mirrors(c, With(Without(os, ref), next, o))
         /\ KeptLive(With(Without(os, ref), next, o), next + 1)
<1> DEFINE r == replace_order(b, ref, next, o.remaining_shares, o.price)
           m == With(Without(os, ref), next, o)
           w == OrderOf(b, ref)
           x == NewOrder(next, o.price, o.remaining_shares, w.side, 0)
<1>0. /\ MaxRef \in Nat /\ Refs = 1 .. MaxRef /\ next \in Nat
      /\ ref \in Refs /\ ref # next /\ next \notin DOMAIN os
  BY SynthAssumption DEF KeptLive
<1>1. /\ o.price \in Prices /\ o.remaining_shares \in 0 .. ShareSpan - 1
      /\ o.remaining_shares # 0
  BY DEF LiveOrderType, WideEnough
<1>2. Live(b, ref) /\ ~Live(b, next) /\ w.side = SideOf(o.side)
  BY <1>0, MirrorsLive
<1>3. x.price = o.price /\ x.shares = o.remaining_shares /\ x.side = SideOf(o.side)
  BY <1>2 DEF NewOrder
<1>4. /\ DOMAIN m = (DOMAIN os \ {ref}) \cup {next} /\ m[next] = o
      /\ \A y \in DOMAIN os \ {ref} : m[y] = os[y]
  BY <1>0 DEF With, Without, And
<1> HIDE DEF m, w, x
<1>5. /\ BookInv(c)
      /\ \E u : Extends(Orders(b), u, ref, w) /\ Extends(Orders(c), u, next, x)
  <2>1. c = r.book
    OBVIOUS
  <2> DEFINE n == o.remaining_shares
             p == o.price
  <2>2. r = replace_order(b, ref, next, n, p) /\ n \in 0 .. ShareSpan - 1 /\ p \in Prices
        /\ x = NewOrder(next, p, n, w.side, 0) /\ w = OrderOf(b, ref) /\ n # 0
    BY <1>1 DEF w, x
  <2> HIDE DEF r, n, p
  <2>3. /\ BookInv(r.book)
        /\ r.ok <=> /\ Live(b, ref) /\ n # 0
                    /\ ref = next \/ ~Live(b, next)
        /\ r.ok => \E u : /\ Extends(Orders(b), u, ref, w)
                          /\ Extends(Orders(r.book), u, next,
                                     NewOrder(next, p, n, w.side, 0))
    BY <1>0, <2>2, ReplaceEffect
  <2>4. r.ok
    BY <1>2, <2>2, <2>3
  <2> QED BY <2>1, <2>2, <2>3, <2>4
<1>6. PICK u : Extends(Orders(b), u, ref, w) /\ Extends(Orders(c), u, next, x)
  BY <1>5
<1>7. /\ DOMAIN Orders(c) = (DOMAIN os \ {ref}) \cup {next} /\ Orders(c)[next] = x
      /\ \A y \in DOMAIN os \ {ref} : Orders(c)[y] = Orders(b)[y]
  BY <1>6 DEF Extends, Mirrors
<1>8. Mirrors(c, m)
  BY <1>0, <1>3, <1>4, <1>7 DEF Mirrors
<1>9. KeptLive(m, next + 1)
  BY <1>0, <1>4 DEF KeptLive
<1> QED BY <1>5, <1>8, <1>9 DEF m

-----------------------------------------------------------------------------
(* What generate() puts into its messages fits. *)

(* A character is a byte. *)
LEMMA ChrFits ==
  ASSUME NEW code \in Nat
  PROVE  Chr(code) \in Byte /\ Chr(code) \in Nat /\ Chr(code) < ValuesOf(1)
<1>1. ByteSpan \in Nat /\ ByteSpan > 0 /\ ValuesOf(1) = ByteSpan
  BY CodecAssumption, ValuesSmall
<1>2. code % ByteSpan \in 0 .. ByteSpan - 1
  BY <1>1
<1> QED BY <1>1, <1>2 DEF Chr, Byte

(* A padded text has its width. *)
LEMMA PaddedFits ==
  ASSUME NEW s \in Seq(Byte), NEW width \in Nat
  PROVE  append_str_padded(s, width) \in [1 .. width -> Byte]
BY CodecAssumption DEF append_str_padded, Byte

(* The texts of generate() have their widths. *)
LEMMA TextsFit ==
  /\ TextTest \in Seq(Byte) /\ TextEdgx \in [1 .. 4 -> Byte]
  /\ append_str_padded(<<>>, 2) \in [1 .. 2 -> Byte]
  /\ \A i \in SymbolIndices : SymbolText(i) \in [1 .. 8 -> Byte]
<1>1. ASSUME NEW c \in [1 .. 4 -> Nat]
      PROVE  Text(c) \in [1 .. 4 -> Byte] /\ Text(c) \in Seq(Byte)
  <2>1. Text(c) = [k \in 1 .. 4 |-> Chr(c[k])]
    BY DEF Text
  <2>2. \A k \in 1 .. 4 : Chr(c[k]) \in Byte
    BY ChrFits
  <2>3. Text(c) \in [1 .. 4 -> Byte]
    BY <2>1, <2>2
  <2>4. ASSUME NEW n \in Nat, NEW f \in [1 .. n -> Byte] PROVE f \in Seq(Byte)
    OBVIOUS
  <2> QED BY <2>3, <2>4
<1>2. <<84, 69, 83, 84>> \in [1 .. 4 -> Nat] /\ <<69, 68, 71, 88>> \in [1 .. 4 -> Nat]
  OBVIOUS
<1>3. TextTest \in Seq(Byte) /\ TextEdgx \in [1 .. 4 -> Byte]
  BY ONLY <1>1, <1>2 DEF TextTest, TextEdgx
<1>4. append_str_padded(<<>>, 2) \in [1 .. 2 -> Byte]
  <2>1. <<>> \in Seq(Byte)
    OBVIOUS
  <2> QED BY <2>1, PaddedFits
<1>5. ASSUME NEW i \in SymbolIndices PROVE SymbolText(i) \in [1 .. 8 -> Byte]
  <2> DEFINE s == IF Symbols = <<>> THEN TextTest ELSE Symbols[i + 1]
  <2>1. s \in Seq(Byte)
    <3>1. CASE Symbols = <<>>
      BY <1>3, <3>1
    <3>2. CASE Symbols # <<>>
      <4>1. Symbols \in Seq(Seq(Byte)) /\ i + 1 \in 1 .. Len(Symbols)
        BY <3>2, SynthAssumption DEF SymbolIndices, Byte
      <4>2. Symbols[i + 1] \in Seq(Byte)
        BY <4>1
      <4> QED BY <3>2, <4>2
    <3> QED BY <3>1, <3>2
  <2>2. SymbolText(i) = append_str_padded(s, 8)
    BY DEF SymbolText
  <2> HIDE DEF s
  <2> QED BY <2>1, <2>2, PaddedFits
<1> QED BY <1>3, <1>4, <1>5

(* A locate fits its two bytes. *)
LEMMA LocateFits ==
  ASSUME NEW i \in SymbolIndices
  PROVE  Locate(i) \in Nat /\ Locate(i) < ValuesOf(2)
<1>1. i \in Nat
  BY DEF SymbolIndices
<1>2. ByteSpan * ByteSpan \in Nat /\ ByteSpan * ByteSpan > 0
  <2>1. ByteSpan \in Nat /\ ByteSpan > 0
    BY CodecAssumption
  <2> QED BY <2>1
<1>3. ValuesOf(2) = ByteSpan * ByteSpan
  BY ValuesSmall
<1> DEFINE m == ByteSpan * ByteSpan
<1> HIDE DEF m
<1>4. (i + 1) % m \in Nat /\ (i + 1) % m < m
  BY <1>1, <1>2 DEF m
<1> QED BY <1>3, <1>4 DEF Locate, m

(* A reference fits its eight bytes. *)
LEMMA RefFits ==
  ASSUME WideEnough, NEW r \in Refs
  PROVE  r \in Nat /\ r < ValuesOf(8)
BY SynthAssumption, ValuesSmall DEF WideEnough

(* A share count fits its four bytes. *)
LEMMA ShareFits ==
  ASSUME WideEnough, NEW n \in 0 .. ShareSpan - 1
  PROVE  n \in Nat /\ n < ValuesOf(4)
BY ShareAssumption, ValuesSmall DEF WideEnough

(* A price fits its four bytes. *)
LEMMA PriceFits ==
  ASSUME WideEnough, NEW n \in 0 .. PriceSpan - 1
  PROVE  n \in Nat /\ n < ValuesOf(4)
BY PriceAssumption, ValuesSmall DEF WideEnough

(* The letter of a side fits its byte and gives the side again. *)
LEMMA LetterFits ==
  ASSUME WideEnough, NEW side \in {"B", "S"}
  PROVE  /\ Letters[side] \in Nat /\ Letters[side] < ValuesOf(1)
         /\ (IF Letters[side] = Letters.B THEN "B" ELSE "S") = side
<1>1. \A code \in Nat : Chr(code) \in Nat /\ Chr(code) < ValuesOf(1)
  BY ChrFits
<1>2. /\ Letters.B \in Nat /\ Letters.B < ValuesOf(1)
      /\ Letters.S \in Nat /\ Letters.S < ValuesOf(1)
  BY <1>1 DEF Letters
<1>3. Letters["B"] = Letters.B /\ Letters["S"] = Letters.S
  OBVIOUS
<1> QED BY <1>2, <1>3 DEF WideEnough

(* The payload of a System Event message. *)
LEMMA EventFits ==
  ASSUME NEW code \in Nat
  PROVE  Payload("SystemEvent", [event_code |-> Chr(code)])
<1>1. PayloadAt("SystemEvent") = [event_code |-> <<11, 1>>]
  BY DEF PayloadAt
<1>2. Chr(code) \in Nat /\ Chr(code) < ValuesOf(1)
  BY ChrFits
<1> DEFINE p == [event_code |-> Chr(code)]
           at == PayloadAt("SystemEvent")
<1>3. /\ DOMAIN p = {"event_code"} /\ DOMAIN at = {"event_code"}
      /\ p["event_code"] = Chr(code) /\ at["event_code"][2] = 1
  BY <1>1
<1> HIDE DEF p, at
<1>4. Payload("SystemEvent", p)
  BY <1>2, <1>3 DEF Payload, TextFields, Fits, at
<1> QED BY <1>4 DEF p

(* The payload of a Stock Directory message. *)
LEMMA DirectoryFits ==
  ASSUME WideEnough, NEW i \in SymbolIndices
  PROVE  Payload("StockDirectory",
                [stock |-> SymbolText(i), market_category |-> Chr(81),
                 financial_status_indicator |-> Chr(78), round_lot_size |-> 100,
                 round_lots_only |-> Chr(89), issue_classification |-> Chr(67),
                 issue_subtype |-> append_str_padded(<<>>, 2),
                 authenticity |-> Chr(80), short_sale_threshold_indicator |-> Chr(78),
                 ipo_flag |-> Chr(78), luld_reference_price_tier |-> Chr(49),
                 etp_flag |-> Chr(78), etp_leverage_factor |-> 0,
                 inverse_indicator |-> Chr(78)])
<1>1. PayloadAt("StockDirectory") = StockDirectoryAt
  BY DEF PayloadAt
<1>2. \A code \in Nat : Chr(code) \in Nat /\ Chr(code) < ValuesOf(1)
  BY ChrFits
<1>3. 100 < ValuesOf(4) /\ 0 < ValuesOf(4)
  BY ValuesSmall DEF WideEnough
<1>4. SymbolText(i) \in [1 .. 8 -> Byte] /\ append_str_padded(<<>>, 2) \in [1 .. 2 -> Byte]
  BY TextsFit
<1> DEFINE names == {"stock", "issue_subtype", "round_lot_size", "etp_leverage_factor"}
           codes == {"market_category", "financial_status_indicator", "round_lots_only",
                     "issue_classification", "authenticity",
                     "short_sale_threshold_indicator", "ipo_flag",
                     "luld_reference_price_tier", "etp_flag", "inverse_indicator"}
           p == [stock |-> SymbolText(i), market_category |-> Chr(81),
                 financial_status_indicator |-> Chr(78), round_lot_size |-> 100,
                 round_lots_only |-> Chr(89), issue_classification |-> Chr(67),
                 issue_subtype |-> append_str_padded(<<>>, 2),
                 authenticity |-> Chr(80), short_sale_threshold_indicator |-> Chr(78),
                 ipo_flag |-> Chr(78), luld_reference_price_tier |-> Chr(49),
                 etp_flag |-> Chr(78), etp_leverage_factor |-> 0,
                 inverse_indicator |-> Chr(78)]
           at == StockDirectoryAt
<1>5. DOMAIN p = names \cup codes /\ DOMAIN at = DOMAIN p
  BY DEF StockDirectoryAt
<1>6. \A f \in codes : /\ f \notin TextFields /\ at[f][2] = 1
                       /\ \E code \in Nat : p[f] = Chr(code)
  BY SMTT(30) DEF StockDirectoryAt, TextFields
<1>7. /\ p["stock"] = SymbolText(i) /\ at["stock"][2] = 8
      /\ p["issue_subtype"] = append_str_padded(<<>>, 2) /\ at["issue_subtype"][2] = 2
      /\ p["round_lot_size"] = 100 /\ at["round_lot_size"][2] = 4
      /\ p["etp_leverage_factor"] = 0 /\ at["etp_leverage_factor"][2] = 4
  BY DEF StockDirectoryAt
<1> HIDE DEF p, at, codes
<1>8. ASSUME NEW f \in DOMAIN p
      PROVE  Fits(p[f], f, at[f][2])
  <2>1. CASE f \in codes
    BY <1>2, <1>6, <2>1 DEF Fits
  <2>2. CASE f = "stock"
    BY <1>4, <1>7, <2>2 DEF TextFields, Fits
  <2>3. CASE f = "issue_subtype"
    BY <1>4, <1>7, <2>3 DEF TextFields, Fits
  <2>4. CASE f = "round_lot_size"
    BY <1>3, <1>7, <2>4 DEF TextFields, Fits
  <2>5. CASE f = "etp_leverage_factor"
    BY <1>3, <1>7, <2>5 DEF TextFields, Fits
  <2> QED BY <1>5, <2>1, <2>2, <2>3, <2>4, <2>5
<1>9. Payload("StockDirectory", p)
  BY <1>1, <1>5, <1>8 DEF Payload, at
<1> QED BY <1>9 DEF p

(* The payload of an add, which is also that of a trade. *)
AddPayload(ref, side, shares, i, price) ==
  [order_reference_number |-> ref, buy_sell_indicator |-> Letters[side],
   shares |-> shares, stock |-> SymbolText(i), price |-> price]

(* The payloads of both adds and of a trade. *)
LEMMA AddFits ==
  ASSUME WideEnough, NEW ref \in Refs, NEW side \in {"B", "S"},
         NEW shares \in 0 .. ShareSpan - 1, NEW i \in SymbolIndices,
         NEW price \in 0 .. PriceSpan - 1, NEW p, p = AddPayload(ref, side, shares, i, price)
  PROVE  /\ Payload("AddOrder", p)
         /\ Payload("AddOrderMPID", And(p, [attribution |-> TextEdgx]))
         /\ \A n \in Nat : n < ValuesOf(8) => Payload("Trade", And(p, [match_number |-> n]))
<1>1. /\ PayloadAt("AddOrder") = AddOrderAt
      /\ PayloadAt("AddOrderMPID") = And(AddOrderAt, [attribution |-> <<36, 4>>])
      /\ PayloadAt("Trade") = And(AddOrderAt, [match_number |-> <<36, 8>>])
  BY DEF PayloadAt
<1>2. /\ ref \in Nat /\ ref < ValuesOf(8) /\ shares \in Nat /\ shares < ValuesOf(4)
      /\ price \in Nat /\ price < ValuesOf(4)
      /\ Letters[side] \in Nat /\ Letters[side] < ValuesOf(1)
      /\ SymbolText(i) \in [1 .. 8 -> Byte] /\ TextEdgx \in [1 .. 4 -> Byte]
  BY RefFits, ShareFits, PriceFits, LetterFits, TextsFit
<1> DEFINE names == {"order_reference_number", "buy_sell_indicator", "shares", "stock", "price"}
           at == AddOrderAt
<1>3. DOMAIN p = names /\ DOMAIN at = names
  BY DEF AddPayload, AddOrderAt
<1>4. /\ p["order_reference_number"] = ref /\ at["order_reference_number"][2] = 8
      /\ p["buy_sell_indicator"] = Letters[side] /\ at["buy_sell_indicator"][2] = 1
      /\ p["shares"] = shares /\ at["shares"][2] = 4
      /\ p["stock"] = SymbolText(i) /\ at["stock"][2] = 8
      /\ p["price"] = price /\ at["price"][2] = 4
  BY DEF AddPayload, AddOrderAt
<1> HIDE DEF at
<1>5. ASSUME NEW f \in names
      PROVE  Fits(p[f], f, at[f][2])
  BY <1>2, <1>4 DEF TextFields, Fits
<1>6. Payload("AddOrder", p)
  BY <1>1, <1>3, <1>5 DEF Payload, at
<1>7. Payload("AddOrderMPID", And(p, [attribution |-> TextEdgx]))
  <2> DEFINE q == And(p, [attribution |-> TextEdgx])
             aq == And(at, [attribution |-> <<36, 4>>])
             x == "attribution"
  <2>1. x \notin names /\ Fits(TextEdgx, x, 4)
    BY <1>2 DEF Fits, TextFields
  <2>2. PayloadAt("AddOrderMPID") = aq
    BY <1>1 DEF at
  <2>3. /\ DOMAIN q = names \cup {x} /\ DOMAIN aq = names \cup {x}
        /\ q[x] = TextEdgx /\ aq[x][2] = 4
    BY <1>3 DEF And
  <2>4. \A f \in names : q[f] = p[f] /\ aq[f] = at[f]
    BY <1>3, <2>1 DEF And
  <2> HIDE DEF names, q, aq, x
  <2>5. Payload("AddOrderMPID", q)
    BY <1>5, <2>1, <2>2, <2>3, <2>4 DEF Payload
  <2> QED BY <2>5 DEF q
<1>8. ASSUME NEW n \in Nat, n < ValuesOf(8)
      PROVE  Payload("Trade", And(p, [match_number |-> n]))
  <2> DEFINE q == And(p, [match_number |-> n])
             aq == And(at, [match_number |-> <<36, 8>>])
             x == "match_number"
  <2>1. x \notin names /\ Fits(n, x, 8)
    BY <1>8 DEF Fits, TextFields
  <2>2. PayloadAt("Trade") = aq
    BY <1>1 DEF at
  <2>3. /\ DOMAIN q = names \cup {x} /\ DOMAIN aq = names \cup {x}
        /\ q[x] = n /\ aq[x][2] = 8
    BY <1>3 DEF And
  <2>4. \A f \in names : q[f] = p[f] /\ aq[f] = at[f]
    BY <1>3, <2>1 DEF And
  <2> HIDE DEF names, q, aq, x
  <2>5. Payload("Trade", q)
    BY <1>5, <2>1, <2>2, <2>3, <2>4 DEF Payload
  <2> QED BY <2>5 DEF q
<1> QED BY <1>6, <1>7, <1>8

(* The payload of an execution. *)
LEMMA ExecuteFits ==
  ASSUME WideEnough, NEW ref \in Refs, NEW n \in 0 .. ShareSpan - 1,
         NEW m \in Nat, m < ValuesOf(8)
  PROVE  Payload("OrderExecuted", [order_reference_number |-> ref, executed_shares |-> n,
                                   match_number |-> m])
<1>1. PayloadAt("OrderExecuted") = OrderExecutedAt
  BY DEF PayloadAt
<1> QED BY <1>1, RefFits, ShareFits DEF Payload, TextFields, Fits, OrderExecutedAt

(* The payload of a cancel. *)
LEMMA CancelFits ==
  ASSUME WideEnough, NEW ref \in Refs, NEW n \in 0 .. ShareSpan - 1
  PROVE  Payload("OrderCancel", [order_reference_number |-> ref, cancelled_shares |-> n])
<1>1. PayloadAt("OrderCancel") = OrderCancelAt
  BY DEF PayloadAt
<1> QED BY <1>1, RefFits, ShareFits DEF Payload, TextFields, Fits, OrderCancelAt

(* The payload of a delete. *)
LEMMA DeleteFits ==
  ASSUME WideEnough, NEW ref \in Refs
  PROVE  Payload("OrderDelete", [order_reference_number |-> ref])
<1>1. PayloadAt("OrderDelete") = [order_reference_number |-> <<11, 8>>]
  BY DEF PayloadAt
<1> QED BY <1>1, RefFits DEF Payload, TextFields, Fits

(* The payload of a replace. *)
LEMMA ReplaceFits ==
  ASSUME WideEnough, NEW ref \in Refs, NEW new \in Refs,
         NEW n \in 0 .. ShareSpan - 1, NEW price \in 0 .. PriceSpan - 1
  PROVE  Payload("OrderReplace",
                 [original_order_reference_number |-> ref,
                  new_order_reference_number |-> new, shares |-> n, price |-> price])
<1>1. PayloadAt("OrderReplace") = OrderReplaceAt
  BY DEF PayloadAt
<1> QED BY <1>1, RefFits, ShareFits, PriceFits DEF Payload, TextFields, Fits, OrderReplaceAt

-----------------------------------------------------------------------------
(* How the book reads a message that generate() has built. *)

(* An add is add_order with what was meant. *)
LEMMA AppliedAdd ==
  ASSUME NEW b, NEW t \in AddTypes, NEW locate, NEW number, NEW time, NEW p, NEW msg,
         IsBuilt(msg, t, locate, number, time, p),
         {"order_reference_number", "buy_sell_indicator", "shares", "price"} \subseteq DOMAIN p
  PROVE  apply(b, BookMessage(msg))
           = add_order(b, p.order_reference_number, p.price, p.shares,
                       SideOf(IF p.buy_sell_indicator = Letters.B THEN "B" ELSE "S"), 0).book
<1>1. /\ msg.type = t /\ msg.order_reference_number = p.order_reference_number
      /\ msg.buy_sell_indicator = p.buy_sell_indicator
      /\ msg.shares = p.shares /\ msg.price = p.price
  BY DEF IsBuilt
<1> DEFINE m == [type |-> t, ref |-> p.order_reference_number,
                 indicator |-> IF p.buy_sell_indicator = Letters.B THEN "B" ELSE "S",
                 shares |-> p.shares, price |-> p.price]
<1>2. BookMessage(msg) = m
  BY <1>1 DEF BookMessage, AddTypes
<1>3. m.type \in AddTypes
  OBVIOUS
<1>4. apply(b, m) = add_order(b, m.ref, m.price, m.shares,
                              IF m.indicator = "B" THEN "buy" ELSE "sell", 0).book
  <2> HIDE DEF m
  <2> QED BY <1>3 DEF apply, AddTypes, ExecuteTypes, NoOpTypes
<1> QED BY <1>2, <1>4 DEF SideOf

(* An execution and a cancel are reduce_shares with what was meant. *)
LEMMA AppliedReduce ==
  ASSUME NEW b, NEW t, NEW f, <<t, f>> \in {<<"OrderExecuted", "executed_shares">>,
                                            <<"OrderCancel", "cancelled_shares">>},
         NEW locate, NEW number, NEW time, NEW p, NEW msg,
         IsBuilt(msg, t, locate, number, time, p),
         {"order_reference_number", f} \subseteq DOMAIN p
  PROVE  apply(b, BookMessage(msg)) = reduce_shares(b, p.order_reference_number, p[f]).book
<1>1. /\ msg.type = t /\ msg.order_reference_number = p.order_reference_number
      /\ msg[f] = p[f]
  BY DEF IsBuilt
<1> DEFINE m == [type |-> t, ref |-> p.order_reference_number, shares |-> p[f]]
<1>2. BookMessage(msg) = m
  <2>1. CASE t = "OrderExecuted" /\ f = "executed_shares"
    BY <1>1, <2>1 DEF BookMessage, AddTypes
  <2>2. CASE t = "OrderCancel" /\ f = "cancelled_shares"
    BY <1>1, <2>2 DEF BookMessage, AddTypes
  <2> QED BY <2>1, <2>2
<1>3. m.type = t /\ m.ref = p.order_reference_number /\ m.shares = p[f]
  OBVIOUS
<1> HIDE DEF m
<1>4. apply(b, m) = reduce_shares(b, m.ref, m.shares).book
  <2>1. CASE t = "OrderExecuted"
    BY <1>3, <2>1 DEF apply, AddTypes, ExecuteTypes, NoOpTypes, execute_order
  <2>2. CASE t = "OrderCancel"
    BY <1>3, <2>2 DEF apply, AddTypes, ExecuteTypes, NoOpTypes, cancel_order
  <2> QED BY <2>1, <2>2
<1> QED BY <1>2, <1>3, <1>4

(* A delete is delete_order with what was meant. *)
LEMMA AppliedDelete ==
  ASSUME NEW b, NEW locate, NEW number, NEW time, NEW p, NEW msg,
         IsBuilt(msg, "OrderDelete", locate, number, time, p),
         "order_reference_number" \in DOMAIN p
  PROVE  apply(b, BookMessage(msg)) = delete_order(b, p.order_reference_number).book
<1>1. msg.type = "OrderDelete" /\ msg.order_reference_number = p.order_reference_number
  BY DEF IsBuilt
<1> DEFINE m == [type |-> "OrderDelete", ref |-> p.order_reference_number]
<1>2. BookMessage(msg) = m
  BY <1>1 DEF BookMessage, AddTypes
<1>3. apply(b, m) = delete_order(b, m.ref).book
  BY DEF apply, AddTypes, ExecuteTypes, NoOpTypes
<1> QED BY <1>2, <1>3

(* A replace is replace_order with what was meant. *)
LEMMA AppliedReplace ==
  ASSUME NEW b, NEW locate, NEW number, NEW time, NEW p, NEW msg,
         IsBuilt(msg, "OrderReplace", locate, number, time, p),
         {"original_order_reference_number", "new_order_reference_number", "shares", "price"}
           \subseteq DOMAIN p
  PROVE  apply(b, BookMessage(msg))
           = replace_order(b, p.original_order_reference_number,
                           p.new_order_reference_number, p.shares, p.price).book
<1>1. /\ msg.type = "OrderReplace"
      /\ msg.original_order_reference_number = p.original_order_reference_number
      /\ msg.new_order_reference_number = p.new_order_reference_number
      /\ msg.shares = p.shares /\ msg.price = p.price
  BY DEF IsBuilt
<1> DEFINE m == [type |-> "OrderReplace", ref |-> p.original_order_reference_number,
                 new_ref |-> p.new_order_reference_number, shares |-> p.shares,
                 price |-> p.price]
<1>2. BookMessage(msg) = m
  BY <1>1 DEF BookMessage, AddTypes
<1>3. apply(b, m) = replace_order(b, m.ref, m.new_ref, m.shares, m.price).book
  BY DEF apply, AddTypes, ExecuteTypes, NoOpTypes
<1> QED BY <1>2, <1>3

(* The other messages leave the book as it is. *)
LEMMA AppliedNothing ==
  ASSUME NEW b, NEW t \in NoOpTypes, NEW locate, NEW number, NEW time, NEW p, NEW msg,
         IsBuilt(msg, t, locate, number, time, p)
  PROVE  apply(b, BookMessage(msg)) = b
<1>1. msg.type = t
  BY DEF IsBuilt
<1>2. BookMessage(msg) = [type |-> t]
  BY <1>1 DEF BookMessage, AddTypes, NoOpTypes
<1> QED BY <1>2 DEF apply, AddTypes, ExecuteTypes, NoOpTypes

-----------------------------------------------------------------------------
(* The inductive invariant of the generator: what its counters and its     *)
(* list of live orders may be, and the book of the replayed stream.        *)
GenInv ==
  /\ listed \in 0 .. Len(Symbols)
  /\ tracking \in 0 .. ByteSpan * ByteSpan - 1 /\ ts \in Nat
  /\ next_match_number \in Nat
  /\ next_order_ref \in Nat \ {0} /\ orders_added \in 0 .. NumOrders
  /\ next_order_ref + (NumOrders - orders_added) <= MaxRef + 1
  /\ KeptLive(live_orders, next_order_ref) /\ FewLive(live_orders, orders_added)
  /\ WireExact /\ BookInv(book) /\ Mirrors(book, live_orders)

(* In the loop there is a reference left. *)
LEMMA NextRef ==
  ASSUME GenInv, InFlow
  PROVE  /\ next_order_ref \in Refs /\ NumOrders \in Nat /\ MaxRef \in Nat
         /\ orders_added + 1 \in 0 .. NumOrders
  BY SynthAssumption DEF GenInv, InFlow

(* A message that leaves the book alone. *)
LEMMA EmitNothing ==
  ASSUME WideEnough, CountersFit', GenInv, NEW t \in NoOpTypes,
         NEW locate \in Nat, locate < ValuesOf(2), NEW p, Payload(t, p), Emit(t, locate, p)
  PROVE  /\ WireExact' /\ book' = book
         /\ tracking' \in 0 .. ByteSpan * ByteSpan - 1 /\ ts' \in Nat
<1>1. t \in Written
  BY DEF NoOpTypes, Written, MessageTypes
<1>2. /\ WireExact'
      /\ \E msg : /\ IsBuilt(msg, t, locate, tracking, ts + 1000, p)
                  /\ book' = apply(book, BookMessage(msg))
      /\ tracking' \in 0 .. ByteSpan * ByteSpan - 1 /\ ts' \in Nat
  BY <1>1, EmitReads DEF GenInv
<1> QED BY <1>2, AppliedNothing

(* The first System Event message. *)
LEMMA StartStep ==
  ASSUME WideEnough, CountersFit', GenInv, Start
  PROVE  GenInv'
<1>1. 0 < ValuesOf(2)
  BY ValuesSmall DEF WideEnough
<1> DEFINE p == [event_code |-> Chr(79)]
<1>2. Payload("SystemEvent", p) /\ Emit("SystemEvent", 0, p)
  BY EventFits DEF Start
<1> HIDE DEF p
<1>3. /\ WireExact' /\ book' = book
      /\ tracking' \in 0 .. ByteSpan * ByteSpan - 1 /\ ts' \in Nat
  BY <1>1, <1>2, EmitNothing DEF NoOpTypes
<1> QED BY <1>3 DEF GenInv, Start

(* The last one. *)
LEMMA EndStep ==
  ASSUME WideEnough, CountersFit', GenInv, End
  PROVE  GenInv'
<1>1. 0 < ValuesOf(2)
  BY ValuesSmall DEF WideEnough
<1> DEFINE p == [event_code |-> Chr(67)]
<1>2. Payload("SystemEvent", p) /\ Emit("SystemEvent", 0, p)
  BY EventFits DEF End
<1> HIDE DEF p
<1>3. /\ WireExact' /\ book' = book
      /\ tracking' \in 0 .. ByteSpan * ByteSpan - 1 /\ ts' \in Nat
  BY <1>1, <1>2, EmitNothing DEF NoOpTypes
<1> QED BY <1>3 DEF GenInv, End

(* The Stock Directory messages. *)
LEMMA DirectoryStep ==
  ASSUME WideEnough, CountersFit', GenInv, Directory
  PROVE  GenInv'
<1> DEFINE p == [stock |-> SymbolText(listed), market_category |-> Chr(81),
                 financial_status_indicator |-> Chr(78), round_lot_size |-> 100,
                 round_lots_only |-> Chr(89), issue_classification |-> Chr(67),
                 issue_subtype |-> append_str_padded(<<>>, 2),
                 authenticity |-> Chr(80), short_sale_threshold_indicator |-> Chr(78),
                 ipo_flag |-> Chr(78), luld_reference_price_tier |-> Chr(49),
                 etp_flag |-> Chr(78), etp_leverage_factor |-> 0,
                 inverse_indicator |-> Chr(78)]
<1>1. /\ UNCHANGED <<next_order_ref, next_match_number, live_orders, orders_added>>
      /\ \/ listed < Len(Symbols) /\ Emit("StockDirectory", Locate(listed), p)
            /\ listed' = listed + 1
         \/ UNCHANGED <<listed, tracking, ts, meant, written, book>>
  BY DEF Directory
<1>2. CASE /\ listed < Len(Symbols) /\ listed' = listed + 1
           /\ Emit("StockDirectory", Locate(listed), p)
  <2>1. Len(Symbols) \in Nat /\ listed \in SymbolIndices
    <3>1. Len(Symbols) \in Nat /\ Symbols \in Seq(Seq(0 .. ByteSpan - 1))
      BY SynthAssumption
    <3>2. Symbols # <<>>
      BY <1>2, <3>1 DEF GenInv
    <3> QED BY <1>2, <3>1, <3>2 DEF GenInv, SymbolIndices
  <2>2. Payload("StockDirectory", p)
    BY <2>1, DirectoryFits
  <2>3. Locate(listed) \in Nat /\ Locate(listed) < ValuesOf(2)
    BY <2>1, LocateFits
  <2> HIDE DEF p
  <2>4. /\ WireExact' /\ book' = book
        /\ tracking' \in 0 .. ByteSpan * ByteSpan - 1 /\ ts' \in Nat
    BY <1>2, <2>2, <2>3, EmitNothing DEF NoOpTypes
  <2>5. listed' \in 0 .. Len(Symbols)
    BY <1>2, <2>1 DEF GenInv
  <2> QED BY <1>1, <2>4, <2>5 DEF GenInv
<1>3. CASE UNCHANGED <<listed, tracking, ts, meant, written, book>>
  BY <1>1, <1>3 DEF GenInv, WireExact
<1> QED BY <1>1, <1>2, <1>3

(* An add that is written, read and applied. *)
LEMMA EmitAdd ==
  ASSUME WideEnough, CountersFit', GenInv, NEW t \in AddTypes,
         NEW locate \in Nat, locate < ValuesOf(2), NEW p, Payload(t, p), Emit(t, locate, p),
         {"order_reference_number", "buy_sell_indicator", "shares", "price"} \subseteq DOMAIN p,
         NEW side \in {"B", "S"}, p.buy_sell_indicator = Letters[side]
  PROVE  /\ WireExact'
         /\ book' = add_order(book, p.order_reference_number, p.price, p.shares,
                              SideOf(side), 0).book
         /\ tracking' \in 0 .. ByteSpan * ByteSpan - 1 /\ ts' \in Nat
<1>1. t \in Written
  BY DEF AddTypes, Written, MessageTypes
<1>2. /\ WireExact'
      /\ \E msg : /\ IsBuilt(msg, t, locate, tracking, ts + 1000, p)
                  /\ book' = apply(book, BookMessage(msg))
      /\ tracking' \in 0 .. ByteSpan * ByteSpan - 1 /\ ts' \in Nat
  BY <1>1, EmitReads DEF GenInv
<1>3. PICK msg : /\ IsBuilt(msg, t, locate, tracking, ts + 1000, p)
                 /\ book' = apply(book, BookMessage(msg))
  BY <1>2
<1>4. book' = add_order(book, p.order_reference_number, p.price, p.shares,
                SideOf(IF p.buy_sell_indicator = Letters.B THEN "B" ELSE "S"), 0).book
  BY <1>3, AppliedAdd
<1>5. (IF p.buy_sell_indicator = Letters.B THEN "B" ELSE "S") = side
  BY LetterFits
<1> QED BY <1>2, <1>4, <1>5

(* A new order. *)
LEMMA AddStep ==
  ASSUME WideEnough, CountersFit', GenInv, NEW i \in SymbolIndices, NEW side \in {"B", "S"},
         NEW n \in ShareDraws, NEW j \in Jitters, NEW mpid \in BOOLEAN,
         AddOrder(i, side, n, j, mpid)
  PROVE  GenInv'
<1> DEFINE ref == next_order_ref
           price == (BasePrice + j) % PriceSpan
           p == AddPayload(ref, side, n, i, price)
           q == And(p, [attribution |-> TextEdgx])
           o == [symbol_index |-> i, remaining_shares |-> n, price |-> price, side |-> side]
<1>0. InFlow
  BY DEF AddOrder
<1>1. /\ IF mpid THEN Emit("AddOrderMPID", Locate(i), q) ELSE Emit("AddOrder", Locate(i), p)
      /\ live_orders' = With(live_orders, ref, o)
      /\ next_order_ref' = ref + 1 /\ orders_added' = orders_added + 1
      /\ UNCHANGED <<phase, listed, next_match_number>>
  BY DEF AddOrder, AddPayload, flowVars
<1>2. /\ ref \in Refs /\ NumOrders \in Nat /\ MaxRef \in Nat /\ ref \in Nat
      /\ orders_added + 1 \in 0 .. NumOrders
  BY <1>0, NextRef DEF GenInv
<1>3. /\ n \in 1 .. ShareSpan - 1 /\ n \in 0 .. ShareSpan - 1
      /\ price \in 0 .. PriceSpan - 1
  <2>1. BasePrice + j \in Int /\ PriceSpan \in Nat \ {0}
    BY SynthAssumption, PriceAssumption
  <2>2. price \in 0 .. PriceSpan - 1
    BY <2>1
  <2> QED BY <2>2, SynthAssumption
<1>4. Locate(i) \in Nat /\ Locate(i) < ValuesOf(2)
  BY LocateFits
<1> HIDE DEF price
<1>5. o \in LiveOrderType /\ o.price = price /\ o.remaining_shares = n /\ o.side = side
  BY <1>3 DEF LiveOrderType
<1> HIDE DEF o
<1>6. Payload("AddOrder", p) /\ Payload("AddOrderMPID", q)
  BY <1>2, <1>3, AddFits
<1>7. /\ {"order_reference_number", "buy_sell_indicator", "shares", "price"} \subseteq DOMAIN p
      /\ p.order_reference_number = ref /\ p.buy_sell_indicator = Letters[side]
      /\ p.shares = n /\ p.price = price
  BY DEF AddPayload
<1>8. /\ {"order_reference_number", "buy_sell_indicator", "shares", "price"} \subseteq DOMAIN q
      /\ q.order_reference_number = ref /\ q.buy_sell_indicator = Letters[side]
      /\ q.shares = n /\ q.price = price
  BY DEF AddPayload, And
<1> HIDE DEF p, q
<1>9. /\ WireExact' /\ book' = add_order(book, ref, price, n, SideOf(side), 0).book
      /\ tracking' \in 0 .. ByteSpan * ByteSpan - 1 /\ ts' \in Nat
  <2>1. CASE mpid
    BY <1>1, <1>4, <1>6, <1>8, <2>1, EmitAdd DEF AddTypes
  <2>2. CASE ~mpid
    BY <1>1, <1>4, <1>6, <1>7, <2>2, EmitAdd DEF AddTypes
  <2> QED BY <2>1, <2>2
<1>10. /\ BookInv(book') /\ Mirrors(book', live_orders') /\ KeptLive(live_orders', next_order_ref')
       /\ FewLive(live_orders', orders_added')
  <2>1. orders_added \in Nat /\ orders_added < NumOrders /\ FewLive(live_orders, orders_added)
    BY <1>0, <1>2 DEF GenInv, InFlow
  <2> QED BY <1>1, <1>2, <1>5, <1>9, <2>1, MirrorAdd DEF GenInv
<1>11. next_order_ref' + (NumOrders - orders_added') <= MaxRef + 1
  BY <1>1, <1>2 DEF GenInv
<1> QED BY <1>1, <1>2, <1>9, <1>10, <1>11 DEF GenInv

(* The lesser of what is left and what is drawn. *)
LEMMA MinOfTwo ==
  ASSUME NEW a \in Nat \ {0}, NEW b \in Nat \ {0}
  PROVE  Min({a, b}) \in 1 .. a
<1> DEFINE m == Min({a, b})
<1>1. m = CHOOSE y \in {a, b} : \A z \in {a, b} : y <= z
  BY DEF Min
<1> HIDE DEF m
<1>2. \E y \in {a, b} : \A z \in {a, b} : y <= z
  OBVIOUS
<1>3. m \in {a, b} /\ m <= a
  BY <1>1, <1>2
<1> QED BY <1>3 DEF m

(* An execution or a cancel that is written, read and applied. *)
LEMMA EmitReduce ==
  ASSUME WideEnough, CountersFit', GenInv,
         NEW t, NEW f, <<t, f>> \in {<<"OrderExecuted", "executed_shares">>,
                                     <<"OrderCancel", "cancelled_shares">>},
         NEW locate \in Nat, locate < ValuesOf(2), NEW p, Payload(t, p), Emit(t, locate, p),
         {"order_reference_number", f} \subseteq DOMAIN p
  PROVE  /\ WireExact'
         /\ book' = reduce_shares(book, p.order_reference_number, p[f]).book
         /\ tracking' \in 0 .. ByteSpan * ByteSpan - 1 /\ ts' \in Nat
<1>1. t \in Written
  BY DEF Written, MessageTypes
<1>2. /\ WireExact'
      /\ \E msg : /\ IsBuilt(msg, t, locate, tracking, ts + 1000, p)
                  /\ book' = apply(book, BookMessage(msg))
      /\ tracking' \in 0 .. ByteSpan * ByteSpan - 1 /\ ts' \in Nat
  BY <1>1, EmitReads DEF GenInv
<1>3. PICK msg : /\ IsBuilt(msg, t, locate, tracking, ts + 1000, p)
                 /\ book' = apply(book, BookMessage(msg))
  BY <1>2
<1>4. book' = reduce_shares(book, p.order_reference_number, p[f]).book
  BY <1>3, AppliedReduce
<1> QED BY <1>2, <1>4

(* What execute and cancel share. *)
LEMMA ReduceStep ==
  ASSUME GenInv, InFlow, NEW ref \in DOMAIN live_orders,
         NEW n \in 1 .. live_orders[ref].remaining_shares,
         book' = reduce_shares(book, ref, n).book, live_orders' = Left(ref, n),
         UNCHANGED <<listed, next_order_ref, orders_added>>,
         WireExact', tracking' \in 0 .. ByteSpan * ByteSpan - 1, ts' \in Nat,
         next_match_number' \in Nat
  PROVE  GenInv'
<1>1. next_order_ref \in Refs
  BY NextRef
<1>2. live_orders' = LeftOf(live_orders, ref, n)
  BY DEF Left, LeftOf
<1>3. BookInv(book') /\ Mirrors(book', live_orders') /\ KeptLive(live_orders', next_order_ref)
  BY <1>1, <1>2, MirrorReduce DEF GenInv
<1>4. FewLive(live_orders', orders_added)
  <2>1. DOMAIN live_orders' \subseteq DOMAIN live_orders
    BY <1>2 DEF LeftOf, Without
  <2>2. orders_added \in Nat
    BY SynthAssumption DEF GenInv
  <2> QED BY <2>1, <2>2, FewWithin DEF GenInv
<1> QED BY <1>3, <1>4 DEF GenInv

(* What is drawn for an order that is live. *)
LEMMA DrawFits ==
  ASSUME GenInv, InFlow, NEW ref \in DOMAIN live_orders, NEW draw \in ShareDraws,
         NEW n, n = Min({live_orders[ref].remaining_shares, draw})
  PROVE  /\ n \in 1 .. live_orders[ref].remaining_shares
         /\ n \in 0 .. ShareSpan - 1 /\ ref \in Refs
<1>1. ref \in Refs
  BY NextRef, SynthAssumption DEF GenInv, KeptLive
<1>2. live_orders[ref].remaining_shares \in 1 .. ShareSpan - 1
  BY DEF GenInv, KeptLive, LiveOrderType
<1>3. draw \in Nat \ {0} /\ ShareSpan \in Nat
  BY SynthAssumption, ShareAssumption
<1>4. n \in 1 .. live_orders[ref].remaining_shares
  BY <1>2, <1>3, MinOfTwo
<1> QED BY <1>1, <1>2, <1>3, <1>4

(* An execution. *)
LEMMA ExecuteStep ==
  ASSUME WideEnough, CountersFit', GenInv, NEW i \in SymbolIndices,
         NEW ref \in DOMAIN live_orders, NEW draw \in ShareDraws, Execute(i, ref, draw)
  PROVE  GenInv'
<1> DEFINE n == Min({live_orders[ref].remaining_shares, draw})
           p == [order_reference_number |-> ref, executed_shares |-> n,
                 match_number |-> next_match_number]
<1>0. InFlow
  BY DEF Execute
<1>1. /\ Emit("OrderExecuted", Locate(i), p)
      /\ next_match_number' = next_match_number + 1 /\ live_orders' = Left(ref, n)
      /\ UNCHANGED <<listed, next_order_ref, orders_added>>
  BY DEF Execute, flowVars
<1>2. /\ n \in 1 .. live_orders[ref].remaining_shares
      /\ n \in 0 .. ShareSpan - 1 /\ ref \in Refs
  BY <1>0, DrawFits
<1> HIDE DEF n
<1>3. /\ next_match_number \in Nat /\ next_match_number' \in Nat
      /\ next_match_number < ValuesOf(8)
  BY <1>1, ValuesSmall DEF GenInv, CountersFit
<1>4. Locate(i) \in Nat /\ Locate(i) < ValuesOf(2)
  BY LocateFits
<1>5. Payload("OrderExecuted", p)
  BY <1>2, <1>3, ExecuteFits
<1>6. /\ {"order_reference_number", "executed_shares"} \subseteq DOMAIN p
      /\ p.order_reference_number = ref /\ p["executed_shares"] = n
  OBVIOUS
<1> HIDE DEF p
<1>7. /\ WireExact' /\ book' = reduce_shares(book, ref, n).book
      /\ tracking' \in 0 .. ByteSpan * ByteSpan - 1 /\ ts' \in Nat
  BY <1>1, <1>4, <1>5, <1>6, EmitReduce
<1> QED BY <1>0, <1>1, <1>2, <1>3, <1>7, ReduceStep

(* A cancel. *)
LEMMA CancelStep ==
  ASSUME WideEnough, CountersFit', GenInv, NEW i \in SymbolIndices,
         NEW ref \in DOMAIN live_orders, NEW draw \in ShareDraws, Cancel(i, ref, draw)
  PROVE  GenInv'
<1> DEFINE n == Min({live_orders[ref].remaining_shares, draw})
           p == [order_reference_number |-> ref, cancelled_shares |-> n]
<1>0. InFlow
  BY DEF Cancel
<1>1. /\ Emit("OrderCancel", Locate(i), p) /\ live_orders' = Left(ref, n)
      /\ UNCHANGED <<listed, next_match_number, next_order_ref, orders_added>>
  BY DEF Cancel, flowVars
<1>2. /\ n \in 1 .. live_orders[ref].remaining_shares
      /\ n \in 0 .. ShareSpan - 1 /\ ref \in Refs
  BY <1>0, DrawFits
<1> HIDE DEF n
<1>3. next_match_number' \in Nat
  BY <1>1 DEF GenInv
<1>4. Locate(i) \in Nat /\ Locate(i) < ValuesOf(2)
  BY LocateFits
<1>5. Payload("OrderCancel", p)
  BY <1>2, CancelFits
<1>6. /\ {"order_reference_number", "cancelled_shares"} \subseteq DOMAIN p
      /\ p.order_reference_number = ref /\ p["cancelled_shares"] = n
  OBVIOUS
<1> HIDE DEF p
<1>7. /\ WireExact' /\ book' = reduce_shares(book, ref, n).book
      /\ tracking' \in 0 .. ByteSpan * ByteSpan - 1 /\ ts' \in Nat
  BY <1>1, <1>4, <1>5, <1>6, EmitReduce
<1> QED BY <1>0, <1>1, <1>2, <1>3, <1>7, ReduceStep

(* A delete. *)
LEMMA DeleteStep ==
  ASSUME WideEnough, CountersFit', GenInv, NEW i \in SymbolIndices,
         NEW ref \in DOMAIN live_orders, Delete(i, ref)
  PROVE  GenInv'
<1> DEFINE p == [order_reference_number |-> ref]
           t == "OrderDelete"
<1>0. InFlow
  BY DEF Delete
<1>1. /\ Emit(t, Locate(i), p) /\ live_orders' = Without(live_orders, ref)
      /\ UNCHANGED <<listed, next_match_number, next_order_ref, orders_added>>
  BY DEF Delete, flowVars
<1>2. next_order_ref \in Refs /\ ref \in Refs
  BY <1>0, NextRef, SynthAssumption DEF GenInv, KeptLive
<1>3. Locate(i) \in Nat /\ Locate(i) < ValuesOf(2) /\ t \in Written
  BY LocateFits DEF Written, MessageTypes
<1>4. Payload(t, p)
  BY <1>2, DeleteFits
<1>5. "order_reference_number" \in DOMAIN p /\ p.order_reference_number = ref
  OBVIOUS
<1> HIDE DEF p
<1>6. /\ WireExact'
      /\ \E msg : /\ IsBuilt(msg, t, Locate(i), tracking, ts + 1000, p)
                  /\ book' = apply(book, BookMessage(msg))
      /\ tracking' \in 0 .. ByteSpan * ByteSpan - 1 /\ ts' \in Nat
  <2> HIDE DEF t
  <2> QED BY <1>1, <1>3, <1>4, EmitReads DEF GenInv
<1>7. PICK msg : /\ IsBuilt(msg, t, Locate(i), tracking, ts + 1000, p)
                 /\ book' = apply(book, BookMessage(msg))
  BY <1>6
<1>8. book' = delete_order(book, ref).book
  BY <1>5, <1>7, AppliedDelete
<1>9. /\ BookInv(book') /\ Mirrors(book', live_orders') /\ KeptLive(live_orders', next_order_ref)
  BY <1>1, <1>2, <1>8, MirrorDelete DEF GenInv
<1>10. FewLive(live_orders', orders_added)
  <2>1. DOMAIN live_orders' \subseteq DOMAIN live_orders /\ orders_added \in Nat
    BY <1>1, SynthAssumption DEF GenInv, Without
  <2> QED BY <2>1, FewWithin DEF GenInv
<1> QED BY <1>1, <1>6, <1>9, <1>10 DEF GenInv

(* A replace. *)
LEMMA ReplaceStep ==
  ASSUME WideEnough, CountersFit', GenInv, NEW i \in SymbolIndices,
         NEW ref \in DOMAIN live_orders, NEW n \in ShareDraws, NEW j \in Jitters,
         Replace(i, ref, n, j)
  PROVE  GenInv'
<1> DEFINE new == next_order_ref
           price == (live_orders[ref].price + j) % PriceSpan
           p == [original_order_reference_number |-> ref,
                 new_order_reference_number |-> new, shares |-> n, price |-> price]
           o == [live_orders[ref] EXCEPT !.remaining_shares = n, !.price = price]
           t == "OrderReplace"
<1>0. InFlow /\ Spare
  BY DEF Replace
<1>1. /\ Emit(t, Locate(i), p)
      /\ live_orders' = With(Without(live_orders, ref), new, o)
      /\ next_order_ref' = new + 1
      /\ UNCHANGED <<listed, next_match_number, orders_added>>
  BY DEF Replace, flowVars
<1>2. /\ new \in Refs /\ ref \in Refs /\ new \in Nat
      /\ NumOrders \in Nat /\ MaxRef \in Nat
  BY <1>0, NextRef, SynthAssumption DEF GenInv, KeptLive
<1>3. live_orders[ref] \in LiveOrderType
  BY DEF GenInv, KeptLive
<1>4. /\ n \in 1 .. ShareSpan - 1 /\ n \in 0 .. ShareSpan - 1
      /\ price \in 0 .. PriceSpan - 1
  <2>1. live_orders[ref].price + j \in Int /\ PriceSpan \in Nat \ {0}
    BY <1>3, SynthAssumption, PriceAssumption DEF LiveOrderType
  <2>2. price \in 0 .. PriceSpan - 1
    BY <2>1
  <2> QED BY <2>2, SynthAssumption
<1> HIDE DEF price
<1>5. /\ o \in LiveOrderType /\ o.price = price /\ o.remaining_shares = n
      /\ o.side = live_orders[ref].side
  BY <1>3, <1>4 DEF LiveOrderType
<1> HIDE DEF o
<1>6. Locate(i) \in Nat /\ Locate(i) < ValuesOf(2) /\ t \in Written
  BY LocateFits DEF Written, MessageTypes
<1>7. Payload(t, p)
  BY <1>2, <1>4, ReplaceFits
<1>8. /\ {"original_order_reference_number", "new_order_reference_number", "shares", "price"}
           \subseteq DOMAIN p
      /\ p.original_order_reference_number = ref /\ p.new_order_reference_number = new
      /\ p.shares = n /\ p.price = price
  OBVIOUS
<1> HIDE DEF p
<1>9. /\ WireExact'
      /\ \E msg : /\ IsBuilt(msg, t, Locate(i), tracking, ts + 1000, p)
                  /\ book' = apply(book, BookMessage(msg))
      /\ tracking' \in 0 .. ByteSpan * ByteSpan - 1 /\ ts' \in Nat
  <2> HIDE DEF t
  <2> QED BY <1>1, <1>6, <1>7, EmitReads DEF GenInv
<1>10. PICK msg : /\ IsBuilt(msg, t, Locate(i), tracking, ts + 1000, p)
                  /\ book' = apply(book, BookMessage(msg))
  BY <1>9
<1>11. book' = replace_order(book, ref, new, n, price).book
  BY <1>8, <1>10, AppliedReplace
<1>12. /\ BookInv(book') /\ Mirrors(book', live_orders') /\ KeptLive(live_orders', next_order_ref')
  BY <1>1, <1>2, <1>5, <1>11, MirrorReplace DEF GenInv
<1>13. next_order_ref' + (NumOrders - orders_added') <= MaxRef + 1
  BY <1>0, <1>1, <1>2 DEF GenInv, Spare
<1>14. FewLive(live_orders', orders_added')
  <2>1. DOMAIN live_orders' = (DOMAIN live_orders \ {ref}) \cup {new}
    BY <1>1 DEF With, Without, And
  <2>2. orders_added \in Nat
    BY SynthAssumption DEF GenInv
  <2> QED BY <1>1, <2>1, <2>2, FewExchanged DEF GenInv
<1> QED BY <1>1, <1>2, <1>9, <1>12, <1>13, <1>14 DEF GenInv

(* A trade. *)
LEMMA TradeStep ==
  ASSUME WideEnough, CountersFit', GenInv, NEW i \in SymbolIndices,
         NEW ref \in DOMAIN live_orders, NEW side \in {"B", "S"}, NEW n \in ShareDraws,
         Trade(i, ref, side, n)
  PROVE  GenInv'
<1> DEFINE new == next_order_ref
           price == live_orders[ref].price
           m == next_match_number
           a == AddPayload(new, side, n, i, price)
           p == And(a, [match_number |-> m])
<1>0. InFlow /\ Spare
  BY DEF Trade
<1>1. /\ Emit("Trade", Locate(i), p)
      /\ next_order_ref' = new + 1 /\ next_match_number' = m + 1
      /\ UNCHANGED <<listed, live_orders, orders_added>>
  <2>1. p = [order_reference_number |-> new, buy_sell_indicator |-> Letters[side],
             shares |-> n, stock |-> SymbolText(i), price |-> price, match_number |-> m]
    BY DEF And, AddPayload
  <2> HIDE DEF p
  <2> QED BY <2>1 DEF Trade, flowVars
<1>2. /\ new \in Refs /\ new \in Nat /\ NumOrders \in Nat /\ MaxRef \in Nat
  BY <1>0, NextRef DEF GenInv
<1>3. /\ n \in 0 .. ShareSpan - 1 /\ price \in 0 .. PriceSpan - 1
      /\ m \in Nat /\ m < ValuesOf(8) /\ next_match_number' \in Nat
  <2>1. price \in 0 .. PriceSpan - 1
    BY DEF GenInv, KeptLive, LiveOrderType
  <2>2. m \in Nat /\ m < ValuesOf(8) /\ next_match_number' \in Nat
    BY <1>1, ValuesSmall DEF GenInv, CountersFit
  <2> QED BY <2>1, <2>2, SynthAssumption
<1>4. Locate(i) \in Nat /\ Locate(i) < ValuesOf(2)
  BY LocateFits
<1>5. Payload("Trade", p)
  BY <1>2, <1>3, AddFits
<1> HIDE DEF p
<1>6. /\ WireExact' /\ book' = book
      /\ tracking' \in 0 .. ByteSpan * ByteSpan - 1 /\ ts' \in Nat
  BY <1>1, <1>4, <1>5, EmitNothing DEF NoOpTypes
<1>7. KeptLive(live_orders', next_order_ref') /\ FewLive(live_orders', orders_added')
  BY <1>1, <1>2 DEF GenInv, KeptLive
<1>8. next_order_ref' + (NumOrders - orders_added') <= MaxRef + 1
  BY <1>0, <1>1, <1>2 DEF GenInv, Spare
<1>9. BookInv(book') /\ Mirrors(book', live_orders')
  BY <1>1, <1>6 DEF GenInv
<1>10. /\ listed' \in 0 .. Len(Symbols) /\ orders_added' \in 0 .. NumOrders
       /\ next_order_ref' \in Nat \ {0}
  BY <1>1, <1>2 DEF GenInv
<1> QED BY ONLY <1>3, <1>6, <1>7, <1>8, <1>9, <1>10 DEF GenInv

(* Before the first message. *)
LEMMA GenInit ==
  ASSUME SynthInit
  PROVE  GenInv
<1>1. Len(Symbols) \in Nat /\ NumOrders \in Nat /\ MaxRef \in Nat /\ NumOrders <= MaxRef
  BY SynthAssumption
<1>2. BookInv(book) /\ DOMAIN Orders(book) = {} /\ DOMAIN live_orders = {}
  BY InitInv DEF SynthInit
<1>3. 1 \in 0 .. ByteSpan * ByteSpan - 1
  BY CodecAssumption
<1>4. Mirrors(book, live_orders) /\ KeptLive(live_orders, next_order_ref)
      /\ FewLive(live_orders, 0)
  BY <1>2, FS_EmptySet DEF Mirrors, KeptLive, FewLive
<1>5. WireExact
  BY DEF SynthInit, WireExact
<1> QED BY <1>1, <1>2, <1>3, <1>4, <1>5 DEF GenInv, SynthInit

(* Every step of generate() keeps the invariant. *)
LEMMA GenStep ==
  ASSUME WideEnough, CountersFit', GenInv, [SynthNext]_synthVars
  PROVE  GenInv'
<1>1. CASE UNCHANGED synthVars
  BY <1>1 DEF GenInv, WireExact, synthVars
<1>2. CASE Start \/ Directory \/ End \/ Done
  BY <1>1, <1>2, StartStep, DirectoryStep, EndStep DEF Done
<1>3. ASSUME NEW i \in SymbolIndices, NEW side \in {"B", "S"}, NEW n \in ShareDraws,
             NEW j \in Jitters, NEW mpid \in BOOLEAN, AddOrder(i, side, n, j, mpid)
      PROVE  GenInv'
  BY <1>3, AddStep
<1>4. ASSUME NEW i \in SymbolIndices, NEW ref \in DOMAIN live_orders,
             NEW n \in ShareDraws, Execute(i, ref, n) \/ Cancel(i, ref, n)
      PROVE  GenInv'
  BY <1>4, ExecuteStep, CancelStep
<1>5. ASSUME NEW i \in SymbolIndices, NEW ref \in DOMAIN live_orders, Delete(i, ref)
      PROVE  GenInv'
  BY <1>5, DeleteStep
<1>6. ASSUME NEW i \in SymbolIndices, NEW ref \in DOMAIN live_orders,
             NEW n \in ShareDraws, NEW j \in Jitters, Replace(i, ref, n, j)
      PROVE  GenInv'
  BY <1>6, ReplaceStep
<1>7. ASSUME NEW i \in SymbolIndices, NEW ref \in DOMAIN live_orders,
             NEW side \in {"B", "S"}, NEW n \in ShareDraws, Trade(i, ref, side, n)
      PROVE  GenInv'
  BY <1>7, TradeStep
<1> QED BY <1>1, <1>2, <1>3, <1>4, <1>5, <1>6, <1>7 DEF SynthNext

(* What the invariant says of the book is StreamConsistent. *)
LEMMA GenConsistent ==
  ASSUME GenInv
  PROVE  StreamConsistent
<1> DEFINE R == {r \in Refs : Live(book, r)}
<1>1. R = DOMAIN live_orders
  BY DEF GenInv, Mirrors, Orders
<1>2. ASSUME NEW r \in R
      PROVE  /\ OrderOf(book, r).price = live_orders[r].price
             /\ OrderOf(book, r).shares = live_orders[r].remaining_shares
             /\ OrderOf(book, r).side
                  = IF live_orders[r].side = "B" THEN "buy" ELSE "sell"
  BY <1>1, MirrorsLive DEF GenInv, SideOf
<1> HIDE DEF R
<1>3. {<<r, OrderOf(book, r).price, OrderOf(book, r).shares, OrderOf(book, r).side>> : r \in R}
        = {<<r, live_orders[r].price, live_orders[r].remaining_shares,
             IF live_orders[r].side = "B" THEN "buy" ELSE "sell">> : r \in R}
  BY <1>2
<1> QED BY <1>1, <1>3 DEF StreamConsistent, Resting, R

(* The invariant holds as long as the counters fit. *)
LEMMA GenTyped ==
  ASSUME WideEnough
  PROVE  SynthSpec /\ []CountersFit => []GenInv
<1>1. SynthInit => GenInv
  BY GenInit
<1>2. GenInv /\ CountersFit' /\ [SynthNext]_synthVars => GenInv'
  BY GenStep
<1> QED BY <1>1, <1>2, PTL DEF SynthSpec

(* Every record that generate() writes is read back as the message it was  *)
(* built from: the two-byte prefix counts the bytes behind it, their       *)
(* number is the wire_length of the type, and decode() finds every field   *)
(* (append_header and its like, write_framed, decode), whatever the        *)
(* symbols, draws and number of orders, as long as the timestamp and the   *)
(* match number fit the bytes they have.                                   *)
THEOREM StreamReadsBack ==
  ASSUME WideEnough
  PROVE  SynthSpec /\ []CountersFit => []WireExact
<1>1. GenInv => WireExact
  BY DEF GenInv
<1> QED BY <1>1, GenTyped, PTL

(* Replaying the stream builds exactly the orders that generate() keeps in *)
(* live_orders: no message names an order that is not there, takes more    *)
(* shares than are left or finds the pool used up, for every length of the *)
(* stream.                                                                 *)
THEOREM StreamIsConsistent ==
  ASSUME WideEnough
  PROVE  SynthSpec /\ []CountersFit => []StreamConsistent
<1>1. GenInv => StreamConsistent
  BY GenConsistent
<1> QED BY <1>1, GenTyped, PTL
=============================================================================
