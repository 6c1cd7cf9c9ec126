------------------------- MODULE SaveArchiveProofs --------------------------
(***************************************************************************)
(* What SaveArchive keeps for any fields, other entries and values, proved  *)
(* with TLAPS.                                                              *)
(***************************************************************************)
EXTENDS SaveArchive, FiniteSetTheorems, TLAPS

-----------------------------------------------------------------------------
(* Induction over the naturals, from the least element of a set of them.    *)

LEMMA LeastNat ==
  ASSUME NEW T, T \subseteq Nat, T # {}
  PROVE  \E x \in T : \A y \in T : x <= y
<1> DEFINE R == OpToRel(<, Nat)
<1>1. IsWellFoundedOn(R, Nat)
  BY NatLessThanWellFounded
<1>2. \A y, x \in Nat : <<y, x>> \in R <=> y < x
  BY DEF OpToRel
<1> HIDE DEF R
<1>3. \E x \in T : \A y \in T : ~(<<y, x>> \in R)
  BY <1>1, WFMin
<1>4. PICK x \in T : \A y \in T : ~(<<y, x>> \in R)
  BY <1>3, Zenon
<1>5. \A y \in T : x \in Nat /\ y \in Nat /\ ~(y < x)
  BY <1>2, <1>4, Zenon
<1>6. QED
  BY <1>5

LEMMA NatSetInduction ==
  ASSUME NEW T, 0 \in T, \A n \in Nat : n \in T => n + 1 \in T
  PROVE  Nat \subseteq T
<1> SUFFICES ASSUME Nat \ T # {} PROVE FALSE
  OBVIOUS
<1>1. PICK x \in Nat \ T : \A y \in Nat \ T : x <= y
  BY LeastNat
<1>2. x # 0 /\ x - 1 \in Nat /\ x - 1 \notin Nat \ T
  BY <1>1
<1>3. QED
  BY <1>1, <1>2

LEMMA MinIs ==
  ASSUME NEW T, T \subseteq Nat, T # {}
  PROVE  Min(T) \in T /\ \A y \in T : Min(T) <= y
  BY LeastNat DEF Min

LEMMA MaxIs ==
  ASSUME NEW n \in Nat, NEW T, T \subseteq 1 .. n, T # {}
  PROVE  Max(T) \in T /\ \A y \in T : Max(T) >= y
<1> DEFINE Above == {m \in Nat : \A y \in T : y <= m}
<1>1. n \in Above
  OBVIOUS
<1>2. PICK m \in Above : \A k \in Above : m <= k
  BY <1>1, LeastNat
<1>3. m \in T
  <2> SUFFICES ASSUME m \notin T PROVE FALSE
    OBVIOUS
  <2>1. m \in Nat /\ \A y \in T : y \in 1 .. n /\ y <= m /\ y # m
    BY <1>2
  <2> HIDE DEF Above
  <2>2. m # 0
    <3>1. PICK y : y \in T
      OBVIOUS
    <3>2. y \in 1 .. n /\ y <= m /\ m \in Nat
      BY <2>1, <3>1
    <3>3. QED
      BY <3>2
  <2>3. m - 1 \in Nat /\ \A z \in T : z <= m - 1
    BY <2>1, <2>2
  <2>4. QED
    BY <1>2, <2>3 DEF Above
<1>4. QED
  BY <1>2, <1>3 DEF Max

-----------------------------------------------------------------------------
(* One field of a change, and the fold of Rewrite over the first fields.    *)

SetField(files, change, name) ==
  IF change[name] = None THEN files ELSE WriteEntry(files, name, change[name])

(* iter is what the fold computes for each set of the first n places.       *)
Folds(iter, files, change, n) ==
  iter = [s \in SUBSET (1 .. n) |->
            IF s = {} THEN files
            ELSE SetField(iter[s \ {Max(s)}], change, Fields[Max(s)])]

LEMMA FoldsExist ==
  ASSUME NEW files, NEW change
  PROVE  \A n \in Nat : \E iter : Folds(iter, files, change, n)
<1> DEFINE T == {n \in Nat : \E iter : Folds(iter, files, change, n)}
<1>1. 0 \in T
  <2>1. \A s \in SUBSET (1 .. 0) : s = {}
    OBVIOUS
  <2>2. Folds([s \in SUBSET (1 .. 0) |-> files], files, change, 0)
    BY <2>1 DEF Folds
  <2>3. QED
    BY <2>2
<1>2. ASSUME NEW n \in Nat, n \in T PROVE n + 1 \in T
  <2>1. PICK iter : Folds(iter, files, change, n)
    BY <1>2
  <2> DEFINE Value(s) ==
               IF n + 1 \in s THEN SetField(iter[s \ {n + 1}], change, Fields[n + 1]) ELSE iter[s]
             more == [s \in SUBSET (1 .. n + 1) |-> Value(s)]
  <2>2. ASSUME NEW s \in SUBSET (1 .. n + 1)
        PROVE  Value(s) = IF s = {} THEN files
                          ELSE SetField(more[s \ {Max(s)}], change, Fields[Max(s)])
    <3>1. CASE n + 1 \in s
      <4>1. Max(s) = n + 1
        <5>1. n + 1 \in Nat /\ s \subseteq 1 .. n + 1 /\ s # {}
          BY <3>1
        <5>2. Max(s) \in s /\ \A y \in s : Max(s) >= y
          BY <5>1, MaxIs
        <5>3. Max(s) \in 1 .. n + 1 /\ Max(s) >= n + 1
          BY <3>1, <5>1, <5>2
        <5>4. QED
          BY <5>3
      <4>2. s \ {n + 1} \in SUBSET (1 .. n + 1) /\ n + 1 \notin s \ {n + 1}
        OBVIOUS
      <4>3. more[s \ {n + 1}] = iter[s \ {n + 1}]
        BY <4>2
      <4>4. QED
        BY <3>1, <4>1, <4>3
    <3>2. CASE n + 1 \notin s
      <4>1. s \in SUBSET (1 .. n)
        BY <3>2
      <4>2. iter[s] = IF s = {} THEN files
                      ELSE SetField(iter[s \ {Max(s)}], change, Fields[Max(s)])
        BY <2>1, <4>1 DEF Folds
      <4>3. s \ {Max(s)} \in SUBSET (1 .. n + 1) /\ n + 1 \notin s \ {Max(s)}
        BY <3>2
      <4>4. more[s \ {Max(s)}] = iter[s \ {Max(s)}]
        BY <4>3
      <4>5. QED
        BY <3>2, <4>2, <4>4
    <3>3. QED
      BY <3>1, <3>2
  <2> HIDE DEF Value
  <2>3. more = [s \in SUBSET (1 .. n + 1) |->
                  IF s = {} THEN files
                  ELSE SetField(more[s \ {Max(s)}], change, Fields[Max(s)])]
    BY <2>2
  <2>4. Folds(more, files, change, n + 1)
    BY <2>3 DEF Folds
  <2>5. QED
    BY <2>4
<1> HIDE DEF T
<1>3. Nat \subseteq T
  BY <1>1, <1>2, NatSetInduction
<1>4. QED
  BY <1>3 DEF T

LEMMA FieldsTypes == Len(Fields) \in Nat /\ DOMAIN Fields = 1 .. Len(Fields)
  BY SaveArchiveAssumption

(* Rewrite as the last of the archives between the fields.                  *)
LEMMA RewriteSteps ==
  ASSUME NEW files, NEW change
  PROVE  \E between :
           /\ between[0] = files
           /\ \A n \in 1 .. Len(Fields) :
                between[n] = SetField(between[n - 1], change, Fields[n])
           /\ Rewrite(files, change) = between[Len(Fields)]
<1> DEFINE Is(f) == Folds(f, files, change, Len(Fields))
           iter == CHOOSE f : Is(f)
<1>1. Is(iter)
  <2>1. \E f : Is(f)
    BY FieldsTypes, FoldsExist
  <2> HIDE DEF Is
  <2>2. QED
    BY <2>1
<1>2. Rewrite(files, change) = iter[1 .. Len(Fields)]
  BY FieldsTypes DEF Rewrite, FoldLeft, MapThenFoldSet, SetField, Folds
<1> HIDE DEF iter
<1> DEFINE between == [n \in 0 .. Len(Fields) |-> iter[1 .. n]]
<1>3. between[0] = files
  <2>1. 1 .. 0 = {} /\ {} \in SUBSET (1 .. Len(Fields)) /\ 0 \in 0 .. Len(Fields)
    BY FieldsTypes
  <2>2. iter[{}] = files
    BY <1>1, <2>1 DEF Folds
  <2>3. QED
    BY <2>1, <2>2
<1>4. ASSUME NEW n \in 1 .. Len(Fields)
      PROVE  between[n] = SetField(between[n - 1], change, Fields[n])
  <2>1. /\ 1 .. n \in SUBSET (1 .. Len(Fields)) /\ 1 .. n # {}
        /\ n \in 0 .. Len(Fields) /\ n - 1 \in 0 .. Len(Fields)
        /\ (1 .. n) \ {n} = 1 .. n - 1
    <3>1. Len(Fields) \in Nat /\ n \in Int /\ 1 <= n /\ n <= Len(Fields)
      BY FieldsTypes
    <3>2. 1 .. n \subseteq 1 .. Len(Fields) /\ n \in 1 .. n
      BY <3>1
    <3>3. n \in 0 .. Len(Fields) /\ n - 1 \in 0 .. Len(Fields)
      BY <3>1
    <3>4. (1 .. n) \ {n} = 1 .. n - 1
      <4> HIDE DEF Is, between
      <4>1. QED
        BY <3>1
    <3>5. QED
      BY <3>2, <3>3, <3>4
  <2>2. Max(1 .. n) = n
    <3>1. n \in Nat /\ n \in 1 .. n
      BY FieldsTypes
    <3>2. Max(1 .. n) \in 1 .. n /\ Max(1 .. n) >= n
      BY <2>1, <3>1, MaxIs
    <3>3. QED
      BY <3>1, <3>2
  <2>3. iter[1 .. n] = SetField(iter[(1 .. n) \ {n}], change, Fields[n])
    BY <1>1, <2>1, <2>2 DEF Folds
  <2>4. QED
    BY <2>1, <2>3
<1>5. between[Len(Fields)] = iter[1 .. Len(Fields)]
  BY FieldsTypes
<1>6. QED
  BY <1>2, <1>3, <1>4, <1>5

-----------------------------------------------------------------------------
(* Reading and writing one entry of an archive with no name twice.          *)

Entries == [name : Names, data : Values \cup Broken]

Unique(files) == \A i, j \in DOMAIN files : files[i].name = files[j].name => i = j

LEMMA FindIs ==
  ASSUME NEW files \in Seq(Entries), NEW name
  PROVE  \/ /\ FindByName(files, name) = 0
            /\ \A i \in 1 .. Len(files) : files[i].name # name
         \/ /\ FindByName(files, name) \in 1 .. Len(files)
            /\ files[FindByName(files, name)].name = name
<1> DEFINE I == {i \in 1 .. Len(files) : files[i].name = name}
<1>1. FindByName(files, name) = IF I # {} THEN Min(I) ELSE 0
  BY DEF FindByName, SelectInSeq
<1>2. I # {} => Min(I) \in I
  <2>1. I \subseteq Nat
    OBVIOUS
  <2> HIDE DEF I
  <2>2. QED
    BY <2>1, MinIs
<1>3. QED
  BY <1>1, <1>2

LEMMA ReadIs ==
  ASSUME NEW files \in Seq(Entries), Unique(files), NEW name
  PROVE  /\ \A i \in 1 .. Len(files) :
              files[i].name = name => ReadEntry(files, name) = files[i].data
         /\ (\A i \in 1 .. Len(files) : files[i].name # name) => ReadEntry(files, name) = None
<1> DEFINE k == FindByName(files, name)
<1>1. DOMAIN files = 1 .. Len(files) /\ 0 \notin 1 .. Len(files)
  OBVIOUS
<1>2. \/ k = 0 /\ \A i \in 1 .. Len(files) : files[i].name # name
      \/ k \in 1 .. Len(files) /\ files[k].name = name
  BY FindIs
<1>3. ReadEntry(files, name) = IF k = 0 THEN None ELSE files[k].data
  BY DEF ReadEntry
<1> HIDE DEF k
<1>4. \A i \in 1 .. Len(files) : files[i].name = files[k].name /\ k \in 1 .. Len(files) => i = k
  BY <1>1 DEF Unique
<1>5. QED
  BY <1>1, <1>2, <1>3, <1>4

(* files without the one at place k.                                        *)
LEMMA RemovedIs ==
  ASSUME NEW files \in Seq(Entries), NEW k \in 1 .. Len(files)
  PROVE  /\ RemoveAt(files, k) \in Seq(Entries)
         /\ Len(RemoveAt(files, k)) = Len(files) - 1
         /\ \A i \in 1 .. Len(files) - 1 :
              RemoveAt(files, k)[i] = files[IF i < k THEN i ELSE i + 1]
<1>1. /\ SubSeq(files, 1, k - 1) \in Seq(Entries) /\ Len(SubSeq(files, 1, k - 1)) = k - 1
      /\ \A i \in 1 .. k - 1 : SubSeq(files, 1, k - 1)[i] = files[i]
  OBVIOUS
<1>2. /\ SubSeq(files, k + 1, Len(files)) \in Seq(Entries)
      /\ Len(SubSeq(files, k + 1, Len(files))) = Len(files) - k
      /\ \A i \in 1 .. Len(files) - k : SubSeq(files, k + 1, Len(files))[i] = files[k + i]
  <2>1. /\ Len(files) \in Nat /\ k + 1 \in 1 .. Len(files) + 1
        /\ \A i \in 1 .. Len(files) : files[i] \in Entries
    OBVIOUS
  <2>2. SubSeq(files, k + 1, Len(files)) = [i \in 1 .. Len(files) - k |-> files[k + i]]
    BY <2>1
  <2>3. \A i \in 1 .. Len(files) - k : k + i \in 1 .. Len(files)
    BY <2>1
  <2>4. Len(files) - k \in Nat
    BY <2>1
  <2>5. QED
    BY <2>1, <2>2, <2>3, <2>4
<1> DEFINE front == SubSeq(files, 1, k - 1)
           back == SubSeq(files, k + 1, Len(files))
<1>3. RemoveAt(files, k) = front \o back /\ Len(files) \in Nat
  BY DEF RemoveAt
<1>4. /\ front \in Seq(Entries) /\ Len(front) = k - 1
      /\ back \in Seq(Entries) /\ Len(back) = Len(files) - k
      /\ \A i \in 1 .. k - 1 : front[i] = files[i]
      /\ \A i \in 1 .. Len(files) - k : back[i] = files[k + i]
  BY <1>1, <1>2
<1> HIDE DEF front, back
<1>5. front \o back \in Seq(Entries) /\ Len(front \o back) = Len(files) - 1
  BY <1>3, <1>4
<1>6. ASSUME NEW i \in 1 .. Len(files) - 1
      PROVE  (front \o back)[i] = files[IF i < k THEN i ELSE i + 1]
  <2>1. CASE i < k
    <3>1. i \in 1 .. Len(front) /\ (front \o back)[i] = front[i]
      BY <1>3, <1>4, <2>1
    <3>2. QED
      BY <1>4, <2>1, <3>1
  <2>2. CASE ~(i < k)
    <3>1. i - (k - 1) \in 1 .. Len(files) - k /\ k + (i - (k - 1)) = i + 1
      BY <1>3, <2>2
    <3>2. (front \o back)[i] = back[i - (k - 1)]
      BY <1>3, <1>4, <2>2
    <3>3. QED
      BY <1>4, <2>2, <3>1, <3>2
  <2>3. QED
    BY <2>1, <2>2
<1>7. QED
  BY <1>3, <1>5, <1>6

LEMMA WriteIs ==
  ASSUME NEW files \in Seq(Entries), Unique(files), NEW name \in Names, NEW value \in Values
  PROVE  /\ WriteEntry(files, name, value) \in Seq(Entries)
         /\ Unique(WriteEntry(files, name, value))
         /\ ReadEntry(WriteEntry(files, name, value), name) = value
         /\ \A other \in Names \ {name} :
              ReadEntry(WriteEntry(files, name, value), other) = ReadEntry(files, other)
<1> DEFINE k == FindByName(files, name)
           rest == IF k = 0 THEN files ELSE RemoveAt(files, k)
           entry == [name |-> name, data |-> value]
           new == Append(rest, entry)
<1>1. WriteEntry(files, name, value) = new
  BY DEF WriteEntry
<1>2. \/ k = 0 /\ \A i \in 1 .. Len(files) : files[i].name # name
      \/ k \in 1 .. Len(files) /\ files[k].name = name
  BY FindIs
<1>3. entry \in Entries /\ entry.name = name /\ entry.data = value
  BY DEF Entries
<1>u. \A i, j \in 1 .. Len(files) : files[i].name = files[j].name => i = j
  BY DEF Unique
<1> HIDE DEF k, entry
<1>4. /\ rest \in Seq(Entries) /\ Unique(rest)
      /\ \A i \in 1 .. Len(rest) : rest[i].name # name
                                   /\ \E j \in 1 .. Len(files) : files[j] = rest[i]
      /\ \A j \in 1 .. Len(files) :
           files[j].name # name => \E i \in 1 .. Len(rest) : rest[i] = files[j]
  <2>1. CASE k = 0
    BY <1>2, <2>1 DEF Unique
  <2>2. CASE k \in 1 .. Len(files)
    <3>0. files[k].name = name /\ rest = RemoveAt(files, k)
      BY <1>2, <2>2
    <3> DEFINE At(i) == IF i < k THEN i ELSE i + 1
    <3>1. /\ rest \in Seq(Entries) /\ Len(rest) = Len(files) - 1 /\ DOMAIN rest = 1 .. Len(files) - 1
          /\ \A i \in 1 .. Len(files) - 1 : rest[i] = files[At(i)]
      BY <2>2, <3>0, RemovedIs
    <3> HIDE DEF rest
    <3>2. Len(files) \in Nat /\ k \in Nat
      BY <2>2
    <3>3. \A i \in 1 .. Len(files) - 1 : At(i) \in 1 .. Len(files) /\ At(i) # k
      BY <2>2, <3>2
    <3>4. \A i, j \in 1 .. Len(files) - 1 : At(i) = At(j) => i = j
      BY <2>2, <3>2
    <3>5. \A j \in 1 .. Len(files) : j # k => \E i \in 1 .. Len(files) - 1 : At(i) = j
      <4> SUFFICES ASSUME NEW j \in 1 .. Len(files), j # k
                   PROVE  \E i \in 1 .. Len(files) - 1 : At(i) = j
        OBVIOUS
      <4>1. CASE j < k
        <5>1. j \in 1 .. Len(files) - 1 /\ At(j) = j
          BY <2>2, <3>2, <4>1
        <5>2. QED
          BY <5>1
      <4>2. CASE j > k
        <5>1. j - 1 \in 1 .. Len(files) - 1 /\ At(j - 1) = j
          BY <2>2, <3>2, <4>2
        <5>2. QED
          BY <5>1
      <4>3. QED
        BY <3>2, <4>1, <4>2
    <3> HIDE DEF At
    <3>r. \A i \in DOMAIN rest : i \in 1 .. Len(files) - 1 /\ rest[i] = files[At(i)]
      BY <3>1
    <3>6. Unique(rest)
      <4> SUFFICES ASSUME NEW i \in DOMAIN rest, NEW j \in DOMAIN rest,
                          rest[i].name = rest[j].name
                   PROVE  i = j
        BY DEF Unique
      <4>1. files[At(i)].name = files[At(j)].name
        BY <3>r, Zenon
      <4>2. At(i) \in 1 .. Len(files) /\ At(j) \in 1 .. Len(files)
        BY <3>r, <3>3
      <4>3. At(i) = At(j)
        BY <1>u, <4>1, <4>2, Zenon
      <4>4. QED
        BY <3>r, <3>4, <4>3, Zenon
    <3>7. ASSUME NEW i \in 1 .. Len(rest)
          PROVE  rest[i].name # name /\ \E j \in 1 .. Len(files) : files[j] = rest[i]
      <4>1. i \in 1 .. Len(files) - 1
        BY <3>1, <3>2
      <4>2. At(i) \in 1 .. Len(files) /\ At(i) # k /\ files[At(i)] = rest[i]
        BY <3>1, <3>3, <4>1
      <4>3. files[At(i)].name # files[k].name
        BY <1>u, <2>2, <4>2, Zenon
      <4>4. QED
        BY <3>0, <4>2, <4>3
    <3>8. ASSUME NEW j \in 1 .. Len(files), files[j].name # name
          PROVE  \E i \in 1 .. Len(rest) : rest[i] = files[j]
      BY <3>0, <3>1, <3>5, <3>8
    <3>9. QED
      BY <3>1, <3>6, <3>7, <3>8
  <2>3. QED
    BY <1>2, <2>1, <2>2
<1> HIDE DEF rest
<1>5. /\ new \in Seq(Entries) /\ Len(new) = Len(rest) + 1 /\ Len(rest) \in Nat
      /\ DOMAIN new = 1 .. Len(rest) + 1 /\ DOMAIN rest = 1 .. Len(rest)
      /\ new[Len(rest) + 1] = entry
      /\ \A i \in 1 .. Len(rest) : new[i] = rest[i]
  BY <1>3, <1>4
<1> HIDE DEF new
<1>6. \A i \in 1 .. Len(new) : i = Len(new) \/ i \in 1 .. Len(rest)
  BY <1>5
<1>7. Unique(new)
  <2>1. \A i \in 1 .. Len(rest) : new[i].name # new[Len(new)].name
    BY <1>3, <1>4, <1>5
  <2>2. \A i, j \in 1 .. Len(rest) : new[i].name = new[j].name => i = j
    BY <1>4, <1>5 DEF Unique
  <2>3. DOMAIN new = 1 .. Len(new)
    BY <1>5
  <2>4. QED
    BY <1>6, <2>1, <2>2, <2>3 DEF Unique
<1>8. ReadEntry(new, name) = value
  <2>1. Len(new) \in 1 .. Len(new) /\ new[Len(new)].name = name /\ new[Len(new)].data = value
    BY <1>3, <1>5
  <2>2. QED
    BY <1>5, <1>7, <2>1, ReadIs
<1>9. ASSUME NEW other \in Names \ {name}
      PROVE  ReadEntry(new, other) = ReadEntry(files, other)
  <2>1. CASE \E j \in 1 .. Len(files) : files[j].name = other
    <3>1. PICK j \in 1 .. Len(files) : files[j].name = other
      BY <2>1
    <3>2. PICK i \in 1 .. Len(rest) : rest[i] = files[j]
      BY <1>4, <3>1
    <3>3. i \in 1 .. Len(new) /\ new[i] = files[j]
      BY <1>5, <3>2
    <3>4. ReadEntry(new, other) = new[i].data
      <4>1. new[i].name = other
        BY <3>1, <3>3
      <4>2. QED
        BY <1>5, <1>7, <3>3, <4>1, ReadIs
    <3>5. QED
      BY <3>1, <3>3, <3>4, ReadIs
  <2>2. CASE \A j \in 1 .. Len(files) : files[j].name # other
    <3>1. \A i \in 1 .. Len(new) : new[i].name # other
      <4> SUFFICES ASSUME NEW i \in 1 .. Len(new) PROVE new[i].name # other
        OBVIOUS
      <4>1. CASE i = Len(new)
        BY <1>3, <1>5, <4>1
      <4>2. CASE i \in 1 .. Len(rest)
        <5>1. \E j \in 1 .. Len(files) : files[j] = new[i]
          BY <1>4, <1>5, <4>2
        <5>2. QED
          BY <2>2, <5>1
      <4>3. QED
        BY <1>6, <4>1, <4>2
    <3>2. QED
      BY <1>5, <1>7, <2>2, <3>1, ReadIs
  <2>3. QED
    BY <2>1, <2>2
<1>10. QED
  BY <1>1, <1>5, <1>7, <1>8, <1>9

-----------------------------------------------------------------------------
(* Rewriting an archive.                                                    *)

LEMMA ChangeTypes ==
  ASSUME NEW change \in Change
  PROVE  /\ DOMAIN change = ToSet(Fields)
         /\ \A name \in ToSet(Fields) :
              name \in Names /\ (change[name] # None => change[name] \in Values)
  BY DEF Change, Names

LEMMA SetFieldIs ==
  ASSUME NEW files \in Seq(Entries), Unique(files), NEW change \in Change,
         NEW name \in ToSet(Fields)
  PROVE  /\ SetField(files, change, name) \in Seq(Entries)
         /\ Unique(SetField(files, change, name))
         /\ \A other \in Names :
              ReadEntry(SetField(files, change, name), other) =
                IF other = name /\ name \in Given(change) THEN change[name]
                ELSE ReadEntry(files, other)
<1>1. CASE change[name] = None
  BY <1>1, ChangeTypes DEF SetField, Given
<1>2. CASE change[name] # None
  <2>1. name \in Names /\ change[name] \in Values /\ name \in Given(change)
    BY <1>2, ChangeTypes DEF Given
  <2>2. SetField(files, change, name) = WriteEntry(files, name, change[name])
    BY <1>2 DEF SetField
  <2>3. QED
    BY <2>1, <2>2, WriteIs
<1>3. QED
  BY <1>1, <1>2

LEMMA RewriteIs ==
  ASSUME NEW files \in Seq(Entries), Unique(files), NEW change \in Change
  PROVE  /\ Rewrite(files, change) \in Seq(Entries)
         /\ Unique(Rewrite(files, change))
         /\ \A name \in Names :
              ReadEntry(Rewrite(files, change), name) =
                IF name \in Given(change) THEN change[name] ELSE ReadEntry(files, name)
<1>1. PICK between :
        /\ between[0] = files
        /\ \A n \in 1 .. Len(Fields) : between[n] = SetField(between[n - 1], change, Fields[n])
        /\ Rewrite(files, change) = between[Len(Fields)]
  BY RewriteSteps
<1> DEFINE SetBy(name, n) == name \in Given(change) /\ \E i \in 1 .. n : Fields[i] = name
           OK(n) == /\ between[n] \in Seq(Entries)
                    /\ Unique(between[n])
                    /\ \A name \in Names :
                         ReadEntry(between[n], name) =
                           IF SetBy(name, n) THEN change[name] ELSE ReadEntry(files, name)
           T == {n \in Nat : n <= Len(Fields) => OK(n)}
<1>2. 0 \in T
  <2>1. \A name : ~SetBy(name, 0)
    OBVIOUS
  <2>2. QED
    BY <1>1, <2>1
<1>3. ASSUME NEW n \in Nat, n \in T PROVE n + 1 \in T
  <2> SUFFICES ASSUME n + 1 <= Len(Fields) PROVE OK(n + 1)
    OBVIOUS
  <2>1. n + 1 \in 1 .. Len(Fields) /\ n <= Len(Fields) /\ (n + 1) - 1 = n
    BY FieldsTypes
  <2>2. Fields[n + 1] \in ToSet(Fields)
    BY <2>1, FieldsTypes DEF ToSet
  <2>3. OK(n)
    BY <1>3, <2>1
  <2>4. between[n + 1] = SetField(between[n], change, Fields[n + 1])
    BY <1>1, <2>1
  <2>5. \A name : SetBy(name, n + 1) <=>
                    SetBy(name, n) \/ (name = Fields[n + 1] /\ name \in Given(change))
    <3>1. \A i \in 1 .. n + 1 : i \in 1 .. n \/ i = n + 1
      OBVIOUS
    <3>2. \A i \in 1 .. n : i \in 1 .. n + 1
      OBVIOUS
    <3>3. QED
      BY <2>1, <3>1, <3>2
  <2> HIDE DEF SetBy
  <2>6. /\ between[n + 1] \in Seq(Entries) /\ Unique(between[n + 1])
        /\ \A name \in Names :
             ReadEntry(between[n + 1], name) =
               IF name = Fields[n + 1] /\ Fields[n + 1] \in Given(change)
               THEN change[Fields[n + 1]] ELSE ReadEntry(between[n], name)
    BY <2>2, <2>3, <2>4, SetFieldIs
  <2>7. ASSUME NEW name \in Names
        PROVE  ReadEntry(between[n + 1], name) =
                 IF SetBy(name, n + 1) THEN change[name] ELSE ReadEntry(files, name)
    BY <2>3, <2>5, <2>6
  <2>8. QED
    BY <2>6, <2>7
<1> HIDE DEF T
<1>4. Len(Fields) \in T
  BY <1>2, <1>3, NatSetInduction, FieldsTypes
<1>5. \A name : SetBy(name, Len(Fields)) <=> name \in Given(change)
  <2>1. \A name \in Given(change) : name \in ToSet(Fields)
    BY ChangeTypes DEF Given
  <2>2. \A name \in ToSet(Fields) : \E i \in 1 .. Len(Fields) : Fields[i] = name
    BY FieldsTypes DEF ToSet
  <2>3. QED
    BY <2>1, <2>2
<1> HIDE DEF SetBy
<1>6. OK(Len(Fields))
  BY <1>4, FieldsTypes DEF T
<1>7. QED
  BY <1>1, <1>5, <1>6

(* What a put makes of an archive, from which the theorems follow.          *)
LEMMA PutIs ==
  ASSUME archive \in Seq(Entries), NamesAreUnique, NEW change \in Change, Put(change)
  PROVE  /\ archive' \in Seq(Entries)
         /\ NamesAreUnique'
         /\ \A name \in Names :
              ReadEntry(archive', name) =
                IF name \in Given(change) THEN change[name]
                ELSE IF AllFieldsProvided(change) THEN None
                ELSE ReadEntry(archive, name)
<1>1. Unique(archive) /\ (Unique(archive') => NamesAreUnique')
  BY DEF NamesAreUnique, Unique
<1>2. NewArchive \in Seq(Entries) /\ Unique(NewArchive)
      /\ \A name : ReadEntry(NewArchive, name) = None
  <2>1. NewArchive \in Seq(Entries) /\ Len(NewArchive) = 0 /\ DOMAIN NewArchive = {}
    BY DEF NewArchive
  <2>2. Unique(NewArchive)
    BY <2>1 DEF Unique
  <2>3. ASSUME NEW name PROVE ReadEntry(NewArchive, name) = None
    <3>1. \A i \in 1 .. Len(NewArchive) : NewArchive[i].name # name
      BY <2>1
    <3>2. QED
      BY <2>1, <2>2, <3>1, ReadIs
  <2>4. QED
    BY <2>1, <2>2, <2>3
<1> DEFINE start == IF AllFieldsProvided(change) THEN NewArchive ELSE archive
<1>3. archive' = Rewrite(start, change)
  BY DEF Put
<1>4. start \in Seq(Entries) /\ Unique(start)
  BY <1>1, <1>2
<1>5. \A name : ReadEntry(start, name) =
                  IF AllFieldsProvided(change) THEN None ELSE ReadEntry(archive, name)
  BY <1>2
<1> HIDE DEF start
<1>6. QED
  BY <1>1, <1>3, <1>4, <1>5, RewriteIs

-----------------------------------------------------------------------------
ArchiveInv == archive \in Seq(Entries) /\ NamesAreUnique

LEMMA FieldsFinite == IsFiniteSet(ToSet(Fields))
<1> DEFINE f == [i \in 1 .. Len(Fields) |-> Fields[i]]
<1>1. f \in Surjection(1 .. Len(Fields), ToSet(Fields))
  BY FieldsTypes DEF Surjection, ToSet
<1>2. IsFiniteSet(1 .. Len(Fields))
  BY FieldsTypes, FS_Interval
<1> HIDE DEF f
<1>3. QED
  BY <1>1, <1>2, FS_Surjection

LEMMA ArchiveInit == Init => ArchiveInv
<1> SUFFICES ASSUME Init PROVE ArchiveInv
  OBVIOUS
<1>0. PICK S \in SUBSET Names :
        \E names : /\ names \in SetToSeqs(S)
                   /\ \E data \in [DOMAIN names -> Values \cup Broken] :
                        archive = [i \in DOMAIN names |-> [name |-> names[i], data |-> data[i]]]
  BY DEF Init
<1>n. PICK names :
        /\ names \in SetToSeqs(S)
        /\ \E data \in [DOMAIN names -> Values \cup Broken] :
             archive = [i \in DOMAIN names |-> [name |-> names[i], data |-> data[i]]]
  BY <1>0
<1>1. PICK data \in [DOMAIN names -> Values \cup Broken] :
        archive = [i \in DOMAIN names |-> [name |-> names[i], data |-> data[i]]]
  BY <1>n
<1>2. IsFiniteSet(Names)
  BY FieldsFinite, FS_Union, SaveArchiveAssumption DEF Names
<1>3. Cardinality(S) \in Nat
  BY <1>2, FS_Subset, FS_CardinalityType
<1>4. /\ names \in [1 .. Cardinality(S) -> S] /\ DOMAIN names = 1 .. Cardinality(S)
      /\ \A i, j \in 1 .. Cardinality(S) : i # j => names[i] # names[j]
  BY <1>n DEF SetToSeqs
<1>5. /\ archive \in [1 .. Cardinality(S) -> Entries]
      /\ \A i \in 1 .. Cardinality(S) : archive[i].name = names[i]
  BY <1>1, <1>4 DEF Entries
<1>6. archive \in Seq(Entries) /\ DOMAIN archive = 1 .. Cardinality(S)
  BY <1>3, <1>5
<1>7. NamesAreUnique
  BY <1>4, <1>5, <1>6 DEF NamesAreUnique
<1>8. QED
  BY <1>6, <1>7 DEF ArchiveInv

LEMMA ArchiveStep == ArchiveInv /\ [Next]_archive => ArchiveInv'
<1> SUFFICES ASSUME ArchiveInv, [Next]_archive PROVE ArchiveInv'
  OBVIOUS
<1>1. ASSUME NEW change \in Change, Put(change) PROVE ArchiveInv'
  BY <1>1, PutIs DEF ArchiveInv
<1>2. CASE UNCHANGED archive
  BY <1>2 DEF ArchiveInv, NamesAreUnique
<1>3. QED
  BY <1>1, <1>2 DEF Next

LEMMA ArchiveInvariant == Spec => []ArchiveInv
  BY ArchiveInit, ArchiveStep, PTL DEF Spec

(* However often a save is edited, no two files of its archive have one     *)
(* name, of which readers would see the older, if none did when it was      *)
(* uploaded (write_encrypted).                                              *)
THEOREM NamesCorrect == Spec => []NamesAreUnique
<1>1. ArchiveInv => NamesAreUnique
  BY DEF ArchiveInv
<1>2. QED
  BY <1>1, ArchiveInvariant, PTL

(* What a put gives is what the next get shows, for any number of fields    *)
(* and whatever single file, if any, was stored under each of their names   *)
(* (the set_* of handle_save_extension_put).                                *)
THEOREM ReadBackCorrect == Spec => PutReadsBack
<1>1. ASSUME ArchiveInv
      PROVE  \A change \in Change : Put(change) =>
               \A name \in Given(change) : ReadEntry(archive', name) = change[name]
  BY <1>1, PutIs, ChangeTypes DEF ArchiveInv, Given
<1>2. ArchiveInv /\ [Next]_archive =>
        [\A change \in Change : Put(change) =>
           \A name \in Given(change) : ReadEntry(archive', name) = change[name]]_archive
  BY <1>1
<1>3. QED
  BY <1>2, ArchiveInvariant, PTL DEF Spec, PutReadsBack

(* A put leaves the fields it does not give and the files the editor knows  *)
(* nothing of as they were, unless it gives all fields and starts anew.     *)
THEOREM KeepsTheRestCorrect == Spec => PutKeepsTheRest
<1> DEFINE Keeps(change) ==
             \A name \in Names \ Given(change) :
               ReadEntry(archive', name) =
                 IF Given(change) = DOMAIN change THEN None ELSE ReadEntry(archive, name)
<1>1. ASSUME ArchiveInv, NEW change \in Change, Put(change) PROVE Keeps(change)
  BY <1>1, PutIs, ChangeTypes DEF ArchiveInv, AllFieldsProvided
<1> HIDE DEF Keeps
<1>2. ArchiveInv /\ [Next]_archive => [\A change \in Change : Put(change) => Keeps(change)]_archive
  BY <1>1
<1>3. QED
  BY <1>2, ArchiveInvariant, PTL DEF Spec, PutKeepsTheRest, Keeps

(* A save the editor can show stays one through any edits, and a put of all *)
(* fields makes any save one (handle_save_extension_get finds all five).    *)
THEOREM KeepsShowingCorrect == Spec => PutKeepsShowing
<1> DEFINE Shows(change) ==
             Put(change) /\ (GetSucceeds(archive) \/ Given(change) = DOMAIN change)
               => GetSucceeds(archive')
<1>1. ASSUME ArchiveInv, NEW change \in Change PROVE Shows(change)
  <2> SUFFICES ASSUME Put(change), GetSucceeds(archive) \/ Given(change) = DOMAIN change,
                      NEW name \in ToSet(Fields)
               PROVE  ReadEntry(archive', name) \in Values
    BY DEF GetSucceeds
  <2>1. name \in Names /\ DOMAIN change = ToSet(Fields)
        /\ (name \in Given(change) => change[name] \in Values)
    BY ChangeTypes DEF Given
  <2>2. ReadEntry(archive', name) =
          IF name \in Given(change) THEN change[name]
          ELSE IF AllFieldsProvided(change) THEN None
          ELSE ReadEntry(archive, name)
    BY <1>1, <2>1, PutIs DEF ArchiveInv
  <2>3. QED
    BY <2>1, <2>2 DEF GetSucceeds, AllFieldsProvided
<1> HIDE DEF Shows
<1>2. ArchiveInv /\ [Next]_archive => [\A change \in Change : Shows(change)]_archive
  BY <1>1
<1>3. QED
  BY <1>2, ArchiveInvariant, PTL DEF Spec, PutKeepsShowing, Shows
=============================================================================
