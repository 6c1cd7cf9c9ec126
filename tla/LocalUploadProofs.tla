------------------------- MODULE LocalUploadProofs --------------------------
(***************************************************************************)
(* What a multipart upload of the local bucket stores, proved with TLAPS    *)
(* for any number of uploads, keys, parts and calls in flight.              *)
(***************************************************************************)
EXTENDS LocalUpload, SequenceTheorems, WellFoundedInduction, TLAPS

-----------------------------------------------------------------------------
(* Every list of numbers has an order: induction over its length, by the    *)
(* least number without a property.                                         *)

LEMMA LeastNat ==
  ASSUME NEW T, T \subseteq Nat, T # {}
  PROVE  \E x \in T : \A y \in T : x <= y
<1> DEFINE R == OpToRel(<, Nat)
<1>1. IsWellFoundedOn(R, Nat)
  BY NatLessThanWellFounded
<1>2. \A y, x \in Nat : <<y, x>> \in R <=> y < x
  BY DEF OpToRel
<1> HIDE DEF R
<1>3. \E x \in T : \A y \in T : ~(<<y, x>> \in R)
  BY <1>1, WFMin
<1>4. PICK x \in T : \A y \in T : ~(<<y, x>> \in R)
  BY <1>3, Zenon
<1>5. \A y \in T : x \in Nat /\ y \in Nat /\ ~(y < x)
  BY <1>2, <1>4, Zenon
<1>6. QED
  BY <1>5

LEMMA NatSetInduction ==
  ASSUME NEW T, 0 \in T, \A n \in Nat : n \in T => n + 1 \in T
  PROVE  Nat \subseteq T
<1> SUFFICES ASSUME Nat \ T # {} PROVE FALSE
  OBVIOUS
<1>1. PICK x \in Nat \ T : \A y \in Nat \ T : x <= y
  BY LeastNat
<1>2. x # 0 /\ x - 1 \in Nat /\ x - 1 \notin Nat \ T
  BY <1>1
<1>3. QED
  BY <1>1, <1>2

(* p puts the first n of s in order.                                        *)
PutsInOrder(p, s, n) ==
  /\ p \in [1 .. n -> 1 .. n]
  /\ \A i, j \in 1 .. n : p[i] = p[j] => i = j
  /\ \A v \in 1 .. n : \E i \in 1 .. n : p[i] = v
  /\ \A i, j \in 1 .. n : i < j => s[p[i]] <= s[p[j]]

(* p with the next place, m, inserted before its place j.                   *)
Inserted(p, j, m) ==
  [i \in 1 .. m |-> IF i < j THEN p[i] ELSE IF i = j THEN m ELSE p[i - 1]]

LEMMA InsertedIs ==
  ASSUME NEW n \in Nat, NEW s \in [1 .. n + 1 -> Nat], NEW p, PutsInOrder(p, s, n),
         NEW j \in 1 .. n + 1,
         \A i \in 1 .. n : IF i < j THEN s[p[i]] <= s[n + 1] ELSE s[n + 1] <= s[p[i]]
  PROVE  PutsInOrder(Inserted(p, j, n + 1), s, n + 1)
<1> DEFINE q == Inserted(p, j, n + 1)
<1>1. \A i \in 1 .. n + 1 : q[i] = IF i < j THEN p[i] ELSE IF i = j THEN n + 1 ELSE p[i - 1]
  BY DEF Inserted
<1>2. DOMAIN q = 1 .. n + 1 /\ q = [i \in DOMAIN q |-> q[i]]
  BY DEF Inserted
<1> HIDE DEF q
<1>3. /\ p \in [1 .. n -> 1 .. n]
      /\ \A i, k \in 1 .. n : p[i] = p[k] => i = k
      /\ \A v \in 1 .. n : \E i \in 1 .. n : p[i] = v
  BY DEF PutsInOrder
<1>a. \A i, k \in 1 .. n : i < k => s[p[i]] <= s[p[k]]
  BY DEF PutsInOrder
<1>4. \A i \in 1 .. n + 1 : /\ i < j => i \in 1 .. n
                            /\ i > j => i - 1 \in 1 .. n /\ i - 1 >= j
  OBVIOUS
<1>b. \A i \in 1 .. n : p[i] \in 1 .. n
  BY <1>3
<1>5. \A i \in 1 .. n + 1 : /\ i < j => q[i] \in 1 .. n /\ q[i] = p[i] /\ i \in 1 .. n
                            /\ i = j => q[i] = n + 1
                            /\ i > j => q[i] \in 1 .. n /\ q[i] = p[i - 1] /\ i - 1 \in 1 .. n
  <2> SUFFICES ASSUME NEW i \in 1 .. n + 1
               PROVE  /\ i < j => q[i] \in 1 .. n /\ q[i] = p[i] /\ i \in 1 .. n
                      /\ i = j => q[i] = n + 1
                      /\ i > j => q[i] \in 1 .. n /\ q[i] = p[i - 1] /\ i - 1 \in 1 .. n
    OBVIOUS
  <2>1. q[i] = IF i < j THEN p[i] ELSE IF i = j THEN n + 1 ELSE p[i - 1]
    BY <1>1
  <2>2. i < j => i \in 1 .. n /\ p[i] \in 1 .. n
    BY <1>b
  <2>3. i > j => i - 1 \in 1 .. n /\ p[i - 1] \in 1 .. n
    BY <1>b, <1>4
  <2>4. i = j => ~(i < j)
    OBVIOUS
  <2>5. i > j => ~(i < j) /\ i # j
    OBVIOUS
  <2>6. QED
    BY <2>1, <2>2, <2>3, <2>4, <2>5
<1>6. q \in [1 .. n + 1 -> 1 .. n + 1]
  <2>1. \A i \in 1 .. n + 1 : q[i] \in 1 .. n + 1
    BY <1>5
  <2>2. QED
    BY <1>2, <2>1
<1>7. \A i, k \in 1 .. n + 1 : q[i] = q[k] => i = k
  <2> SUFFICES ASSUME NEW i \in 1 .. n + 1, NEW k \in 1 .. n + 1, q[i] = q[k] PROVE i = k
    OBVIOUS
  <2>1. CASE i = j \/ k = j
    BY <1>5, <2>1
  <2>2. CASE i < j /\ k < j
    BY <1>3, <1>5, <2>2
  <2>3. CASE i > j /\ k > j
    <3>1. i - 1 = k - 1
      BY <1>3, <1>5, <2>3
    <3>2. QED
      BY <3>1
  <2>4. CASE i < j /\ k > j
    <3>1. i = k - 1
      BY <1>3, <1>5, <2>4
    <3>2. QED
      BY <2>4, <3>1
  <2>5. CASE i > j /\ k < j
    <3>1. i - 1 = k
      BY <1>3, <1>5, <2>5
    <3>2. QED
      BY <2>5, <3>1
  <2>6. QED
    BY <2>1, <2>2, <2>3, <2>4, <2>5
<1>8. \A v \in 1 .. n + 1 : \E i \in 1 .. n + 1 : q[i] = v
  <2> SUFFICES ASSUME NEW v \in 1 .. n + 1 PROVE \E i \in 1 .. n + 1 : q[i] = v
    OBVIOUS
  <2>1. CASE v = n + 1
    BY <1>5, <2>1
  <2>2. CASE v # n + 1
    <3>1. PICK i \in 1 .. n : p[i] = v
      BY <1>3, <2>2
    <3>2. CASE i < j
      <4>1. i \in 1 .. n + 1
        OBVIOUS
      <4>2. QED
        BY <1>1, <3>1, <3>2, <4>1
    <3>3. CASE i >= j
      <4>1. i + 1 \in 1 .. n + 1 /\ ~(i + 1 < j) /\ i + 1 # j /\ (i + 1) - 1 = i
        BY <3>3
      <4>2. q[i + 1] = p[i]
        BY <1>1, <4>1
      <4>3. QED
        BY <3>1, <4>1, <4>2
    <3>4. QED
      BY <3>2, <3>3
  <2>3. QED
    BY <2>1, <2>2
<1>9. \A i, k \in 1 .. n + 1 : i < k => s[q[i]] <= s[q[k]]
  <2> SUFFICES ASSUME NEW i \in 1 .. n + 1, NEW k \in 1 .. n + 1, i < k PROVE s[q[i]] <= s[q[k]]
    OBVIOUS
  <2>1. CASE k < j
    <3>1. i < j /\ q[i] = p[i] /\ q[k] = p[k] /\ i \in 1 .. n /\ k \in 1 .. n
      BY <1>5, <2>1
    <3>2. QED
      BY <1>a, <3>1
  <2>2. CASE k = j
    <3>1. i < j /\ q[i] = p[i] /\ q[k] = n + 1 /\ i \in 1 .. n
      BY <1>5, <2>2
    <3>2. QED
      BY <3>1
  <2>3. CASE i < j /\ k > j
    <3>1. k - 1 \in 1 .. n /\ i \in 1 .. n /\ (i < k - 1 \/ i = k - 1)
      BY <1>4, <2>3
    <3>2. s[p[i]] <= s[p[k - 1]]
      <4>1. CASE i < k - 1
        BY <1>a, <3>1, <4>1
      <4>2. CASE i = k - 1
        <5>1. p[i] = p[k - 1] /\ p[i] \in 1 .. n + 1
          BY <1>b, <3>1, <4>2
        <5>2. s[p[i]] \in Nat
          BY <5>1
        <5>3. QED
          BY <5>1, <5>2
      <4>3. QED
        BY <3>1, <4>1, <4>2
    <3>3. QED
      BY <1>5, <2>3, <3>2
  <2>4. CASE i = j
    <3>1. k - 1 \in 1 .. n /\ ~(k - 1 < j)
      BY <1>4, <2>4
    <3>2. QED
      BY <1>5, <2>4, <3>1
  <2>5. CASE i > j
    <3>1. /\ i - 1 \in 1 .. n /\ k - 1 \in 1 .. n /\ i - 1 < k - 1
          /\ q[i] = p[i - 1] /\ q[k] = p[k - 1]
      BY <1>4, <1>5, <2>5
    <3>2. QED
      BY <1>a, <3>1
  <2>6. QED
    BY <2>1, <2>2, <2>3, <2>4, <2>5
<1>10. QED
  BY <1>6, <1>7, <1>8, <1>9 DEF PutsInOrder, q

LEMMA OrderExists ==
  ASSUME NEW s \in Seq(Nat)
  PROVE  \E p : PutsInOrder(p, s, Len(s))
<1>1. Len(s) \in Nat /\ s \in [1 .. Len(s) -> Nat]
  OBVIOUS
<1> DEFINE T == {n \in Nat : n <= Len(s) => \E p : PutsInOrder(p, s, n)}
<1>2. 0 \in T
  <2>1. PutsInOrder([i \in 1 .. 0 |-> i], s, 0)
    BY DEF PutsInOrder
  <2>2. QED
    BY <2>1
<1>3. ASSUME NEW n \in Nat, n \in T PROVE n + 1 \in T
  <2> SUFFICES ASSUME n + 1 <= Len(s) PROVE \E p : PutsInOrder(p, s, n + 1)
    OBVIOUS
  <2>1. PICK p : PutsInOrder(p, s, n)
    BY <1>1, <1>3
  <2>2. p \in [1 .. n -> 1 .. n] /\ \A i, k \in 1 .. n : i < k => s[p[i]] <= s[p[k]]
    BY <2>1 DEF PutsInOrder
  <2> DEFINE Places == {j \in 1 .. n + 1 : j = n + 1 \/ s[n + 1] < s[p[j]]}
             t == [i \in 1 .. n + 1 |-> s[i]]
  <2>3. Places \subseteq Nat /\ Places # {}
    OBVIOUS
  <2>4. PICK j \in Places : \A k \in Places : j <= k
    BY <2>3, LeastNat
  <2>5. j \in 1 .. n + 1 /\ (j = n + 1 \/ s[n + 1] < s[p[j]])
    BY <2>4
  <2>a. \A i \in 1 .. n : s[p[i]] \in Nat /\ s[n + 1] \in Nat
    <3>1. \A i \in 1 .. n : p[i] \in 1 .. Len(s)
      <4>1. \A i \in 1 .. n : p[i] \in 1 .. n
        BY <2>2
      <4>2. QED
        BY <1>1, <4>1
    <3>2. QED
      BY <1>1, <3>1
  <2>6. ASSUME NEW i \in 1 .. n, i < j PROVE s[p[i]] <= s[n + 1]
    <3>1. i \notin Places /\ i \in 1 .. n + 1
      BY <2>4, <2>5, <2>6
    <3>2. ~(s[n + 1] < s[p[i]])
      BY <3>1
    <3>3. QED
      BY <2>a, <3>2
  <2>7. \A i \in 1 .. n : ~(i < j) => s[n + 1] <= s[p[i]]
    <3> SUFFICES ASSUME NEW i \in 1 .. n, ~(i < j) PROVE s[n + 1] <= s[p[i]]
      OBVIOUS
    <3>1. j \in 1 .. n /\ s[n + 1] < s[p[j]] /\ (i = j \/ j < i)
      BY <2>5
    <3>2. s[p[i]] \in Nat /\ s[p[j]] \in Nat /\ s[n + 1] \in Nat
      BY <2>a, <3>1
    <3>3. j < i => s[p[j]] <= s[p[i]]
      BY <2>2, <3>1
    <3>4. QED
      BY <3>1, <3>2, <3>3, SMTT(30)
  <2>8. t \in [1 .. n + 1 -> Nat] /\ \A i \in 1 .. n + 1 : t[i] = s[i]
    BY <1>1
  <2> HIDE DEF t, Places
  <2>b. \A i \in 1 .. n : p[i] \in 1 .. n + 1 /\ t[p[i]] = s[p[i]] /\ t[n + 1] = s[n + 1]
    <3>1. \A i \in 1 .. n : p[i] \in 1 .. n + 1
      BY <2>2
    <3>2. QED
      BY <2>8, <3>1
  <2>9. PutsInOrder(p, t, n)
    <3>1. \A i, k \in 1 .. n : i < k => t[p[i]] <= t[p[k]]
      BY <2>2, <2>b
    <3>2. QED
      BY <2>1, <3>1 DEF PutsInOrder
  <2>10. \A i \in 1 .. n : IF i < j THEN t[p[i]] <= t[n + 1] ELSE t[n + 1] <= t[p[i]]
    BY <2>6, <2>7, <2>b
  <2>11. PutsInOrder(Inserted(p, j, n + 1), t, n + 1)
    BY <2>5, <2>8, <2>9, <2>10, InsertedIs
  <2>12. PutsInOrder(Inserted(p, j, n + 1), s, n + 1)
    <3> DEFINE q == Inserted(p, j, n + 1)
    <3> HIDE DEF q
    <3>1. PutsInOrder(q, t, n + 1)
      BY <2>11 DEF q
    <3>2. \A i \in 1 .. n + 1 : q[i] \in 1 .. n + 1
      BY <3>1 DEF PutsInOrder
    <3>3. \A i \in 1 .. n + 1 : t[q[i]] = s[q[i]]
      BY <2>8, <3>2
    <3>4. \A i, k \in 1 .. n + 1 : i < k => s[q[i]] <= s[q[k]]
      BY <3>1, <3>3 DEF PutsInOrder
    <3>5. PutsInOrder(q, s, n + 1)
      BY <3>1, <3>4 DEF PutsInOrder
    <3>6. QED
      BY <3>5 DEF q
  <2>13. QED
    BY <2>12
<1> HIDE DEF T
<1>4. Nat \subseteq T
  BY <1>2, <1>3, NatSetInduction
<1>5. QED
  BY <1>1, <1>4 DEF T

Distinct(s) == \A i, j \in DOMAIN s : i # j => s[i] # s[j]

LEMMA SortedPartsIs ==
  ASSUME NEW s \in Seq(Parts)
  PROVE  /\ SortedParts(s) \in [1 .. Len(s) -> Parts]
         /\ \A i \in 1 .. Len(s) : SortedParts(s)[i] \in Elements(s)
         /\ \A i \in 1 .. Len(s) : \E j \in 1 .. Len(s) : SortedParts(s)[j] = s[i]
         /\ Distinct(s) => \A i, j \in 1 .. Len(s) : i < j => SortedParts(s)[i] < SortedParts(s)[j]
<1>1. Parts \subseteq Nat
  BY LocalUploadAssumption
<1>2. s \in Seq(Nat) /\ Len(s) \in Nat /\ DOMAIN s = 1 .. Len(s) /\ s \in [1 .. Len(s) -> Parts]
  <2>1. s \in [1 .. Len(s) -> Parts] /\ Len(s) \in Nat /\ DOMAIN s = 1 .. Len(s)
    OBVIOUS
  <2>2. s \in Seq(Nat)
    BY <1>1, SeqMonotonic, Zenon
  <2>3. QED
    BY <2>1, <2>2
<1>3. PICK o : PutsInOrder(o, s, Len(s))
  BY <1>2, OrderExists
<1>4. o \in Orders(s)
  <2>1. o \in [DOMAIN s -> DOMAIN s] /\ IsInjective(o)
    BY <1>2, <1>3 DEF PutsInOrder, IsInjective
  <2>2. \A v \in DOMAIN s : \E i \in DOMAIN s : o[i] = v
    BY <1>2, <1>3 DEF PutsInOrder
  <2>3. o \in Bijection(DOMAIN s, DOMAIN s)
    BY <2>1, <2>2 DEF Bijection, Injection, Surjection
  <2>4. \A i, j \in DOMAIN s : i < j => s[o[i]] <= s[o[j]]
    BY <1>2, <1>3 DEF PutsInOrder
  <2>5. QED
    BY <2>3, <2>4 DEF Orders
<1> DEFINE p == CHOOSE q \in Orders(s) : TRUE
<1>5. p \in Orders(s)
  BY <1>4, Zenon
<1>6. SortedParts(s) = [i \in DOMAIN s |-> s[p[i]]]
  BY DEF SortedParts
<1> HIDE DEF p
<1>7. /\ p \in [1 .. Len(s) -> 1 .. Len(s)]
      /\ \A i, j \in 1 .. Len(s) : p[i] = p[j] => i = j
      /\ \A v \in 1 .. Len(s) : \E i \in 1 .. Len(s) : p[i] = v
      /\ \A i, j \in 1 .. Len(s) : i < j => s[p[i]] <= s[p[j]]
  BY <1>2, <1>5 DEF Orders, Bijection, Injection, Surjection, IsInjective
<1>8. \A i \in 1 .. Len(s) : SortedParts(s)[i] = s[p[i]]
  BY <1>2, <1>6
<1>9. SortedParts(s) \in [1 .. Len(s) -> Parts]
  <2>1. \A i \in 1 .. Len(s) : p[i] \in 1 .. Len(s)
    BY <1>7
  <2>2. \A i \in 1 .. Len(s) : s[p[i]] \in Parts
    BY <1>2, <2>1
  <2>3. SortedParts(s) = [i \in 1 .. Len(s) |-> s[p[i]]]
    BY <1>2, <1>6
  <2>4. QED
    BY <2>2, <2>3
<1>10. \A i \in 1 .. Len(s) : \E j \in 1 .. Len(s) : SortedParts(s)[j] = s[i]
  <2>1. \A v \in 1 .. Len(s) : \E i \in 1 .. Len(s) : p[i] = v
    BY <1>7
  <2>2. QED
    BY <1>8, <2>1
<1>11. ASSUME Distinct(s), NEW i \in 1 .. Len(s), NEW j \in 1 .. Len(s), i < j
       PROVE  SortedParts(s)[i] < SortedParts(s)[j]
  <2>1. p[i] # p[j] /\ p[i] \in 1 .. Len(s) /\ p[j] \in 1 .. Len(s) /\ s[p[i]] <= s[p[j]]
    <3>1. i # j
      BY <1>11
    <3>2. QED
      BY <1>7, <1>11, <3>1
  <2>2. s[p[i]] # s[p[j]] /\ s[p[i]] \in Nat /\ s[p[j]] \in Nat
    BY <1>1, <1>2, <1>11, <2>1 DEF Distinct
  <2>3. QED
    BY <1>8, <2>1, <2>2
<1>12. \A i \in 1 .. Len(s) : SortedParts(s)[i] \in Elements(s)
  <2>1. \A i \in 1 .. Len(s) : p[i] \in DOMAIN s
    BY <1>2, <1>7
  <2>2. QED
    BY <1>8, <2>1 DEF Elements
<1>13. QED
  BY <1>9, <1>10, <1>11, <1>12

-----------------------------------------------------------------------------
(* Types.                                                                   *)

Bodies == Seq(Chunk \cup {None})

LEMMA NoneApart ==
  /\ None \notin Keys /\ None \notin Uploads /\ None \notin Chunk /\ None \notin StateFile
  BY LocalUploadAssumption DEF Chunk, StateFile

LEMMA CallIs ==
  ASSUME TypeOK, NEW r \in Requests, pc[r] # "idle"
  PROVE  /\ call[r] \in Call
         /\ call[r].upload \in Uploads /\ call[r].part \in Parts /\ call[r].parts \in Seq(Parts)
         /\ call[r].next \in Nat \ {0} /\ call[r].size \in Nat /\ Len(call[r].parts) \in Nat
<1>1. call[r] \in Call
  BY DEF TypeOK
<1>2. QED
  BY <1>1 DEF Call

LEMMA RecordedIs ==
  ASSUME TypeOK, NEW u \in Uploads, state_file[u] # None
  PROVE  /\ Recorded(u) = state_file[u].parts /\ Recorded(u) \in Seq(Parts)
         /\ state_file[u] \in StateFile
<1>1. state_file[u] \in StateFile
  BY DEF TypeOK
<1>2. QED
  BY <1>1 DEF StateFile, Recorded

LEMMA GotoIs ==
  ASSUME TypeOK, NEW r \in Requests, NEW label, Goto(r, label)
  PROVE  \A q \in Requests : pc'[q] = IF q = r THEN label ELSE pc[q]
  BY DEF TypeOK, Goto

LEMMA FinishIs ==
  ASSUME TypeOK, NEW r \in Requests, Finish(r)
  PROVE  \A q \in Requests : /\ pc'[q] = IF q = r THEN "idle" ELSE pc[q]
                             /\ call'[q] = IF q = r THEN None ELSE call[q]
  BY DEF TypeOK, Goto, Finish

LEMMA BeginIs ==
  ASSUME TypeOK, NEW r \in Requests, NEW u \in Uploads, NEW n \in Parts, NEW label,
         Begin(r, u, n, label)
  PROVE  /\ pc[r] = "idle" /\ Readable(u)
         /\ Recorded(u) = state_file[u].parts /\ Recorded(u) \in Seq(Parts)
         /\ \A q \in Requests :
              /\ pc'[q] = IF q = r THEN label ELSE pc[q]
              /\ call'[q] = IF q = r THEN [upload |-> u, part |-> n, parts |-> state_file[u].parts,
                                           next |-> 1, size |-> 0]
                            ELSE call[q]
         /\ UNCHANGED <<upload_key, state_file, parts_dir, part_file, objects, stored>>
<1>1. state_file[u] # None
  BY DEF Begin, Readable
<1>2. Recorded(u) = state_file[u].parts /\ Recorded(u) \in Seq(Parts)
  BY <1>1, RecordedIs
<1>3. call \in [Requests -> Call \cup {None}] /\ pc[r] = "idle" /\ Readable(u)
      /\ UNCHANGED <<upload_key, state_file, parts_dir, part_file, objects, stored>>
  BY DEF TypeOK, Begin, disk
<1>4. call' = [call EXCEPT ![r] = [upload |-> u, part |-> n, parts |-> state_file[u].parts,
                                   next |-> 1, size |-> 0]]
  BY <1>2, Zenon DEF Begin
<1>5. \A q \in Requests : pc'[q] = IF q = r THEN label ELSE pc[q]
  BY GotoIs DEF Begin
<1>6. QED
  BY <1>2, <1>3, <1>4, <1>5

LEMMA OverlayIs ==
  ASSUME NEW old \in StateFile, NEW parts \in Seq(Parts)
  PROVE  /\ Overlay(old, parts) \in StateFile
         /\ old = Truncated => Overlay(old, parts) = [parts |-> parts, valid |-> TRUE]
<1>1. Len(old.parts) \in Nat /\ Len(parts) \in Nat /\ old # None /\ old.parts \in Seq(Parts)
  BY NoneApart DEF StateFile
<1>2. Overlay(old, parts) = [parts |-> IF Len(old.parts) > Len(parts) THEN old.parts ELSE parts,
                             valid |-> Len(old.parts) <= Len(parts)]
  BY <1>1 DEF Overlay
<1>3. Overlay(old, parts) \in StateFile
  BY <1>1, <1>2 DEF StateFile
<1>4. ASSUME old = Truncated PROVE Overlay(old, parts) = [parts |-> parts, valid |-> TRUE]
  <2>1. old.parts = <<>> /\ Len(old.parts) = 0
    BY <1>4 DEF Truncated
  <2>2. ~(Len(old.parts) > Len(parts)) /\ (Len(old.parts) <= Len(parts)) = TRUE
    BY <1>1, <2>1
  <2>3. QED
    BY <1>2, <2>2
<1>5. QED
  BY <1>3, <1>4

LEMMA WriteAtIs ==
  ASSUME NEW s \in Bodies, NEW n \in Nat, NEW c \in Chunk
  PROVE  /\ WriteAt(s, n, c) \in Bodies
         /\ Len(s) = n => /\ Len(WriteAt(s, n, c)) = n + 1
                          /\ \A i \in 1 .. n : WriteAt(s, n, c)[i] = s[i]
                          /\ WriteAt(s, n, c)[n + 1] = c
<1> DEFINE m == IF Len(s) > n THEN Len(s) ELSE n + 1
           e(i) == IF i = n + 1 THEN c ELSE IF i <= Len(s) THEN s[i] ELSE None
<1>1. Len(s) \in Nat /\ m \in Nat /\ \A i \in 1 .. Len(s) : s[i] \in Chunk \cup {None}
  BY DEF Bodies
<1>2. \A i \in 1 .. m : e(i) \in Chunk \cup {None}
  BY <1>1
<1>3. WriteAt(s, n, c) = [i \in 1 .. m |-> e(i)]
  BY DEF WriteAt
<1>4. Len(s) = n => m = n + 1
  BY <1>1
<1>5. Len(s) = n => \A i \in 1 .. n : e(i) = s[i]
  BY <1>1
<1>6. e(n + 1) = c
  OBVIOUS
<1> HIDE DEF m, e
<1>7. [i \in 1 .. m |-> e(i)] \in Bodies /\ Len([i \in 1 .. m |-> e(i)]) = m
  BY <1>1, <1>2 DEF Bodies
<1>8. QED
  BY <1>3, <1>4, <1>5, <1>6, <1>7

(* Files and calls belong to uploads that were created, and a complete      *)
(* that copies has an object to copy to.                                    *)
KeysKnown ==
  /\ \A u \in Uploads : state_file[u] # None => upload_key[u] # None
  /\ \A r \in Requests : pc[r] # "idle" => upload_key[call[r].upload] # None
  /\ \A r \in Requests : pc[r] = "comp_copy" => objects[upload_key[call[r].upload]] \in Bodies

TypeInv == TypeOK /\ KeysKnown

LEMMA TypeInit == Init => TypeInv
<1> SUFFICES ASSUME Init PROVE TypeInv
  OBVIOUS
<1>1. TypeOK
  BY DEF Init, TypeOK
<1>2. KeysKnown
  BY DEF Init, KeysKnown
<1>3. QED
  BY <1>1, <1>2 DEF TypeInv

LEMMA KeyOf ==
  ASSUME TypeInv, NEW r \in Requests, pc[r] # "idle"
  PROVE  upload_key[call[r].upload] \in Keys
<1>1. call[r].upload \in Uploads
  BY CallIs DEF TypeInv
<1>2. QED
  BY <1>1 DEF TypeInv, TypeOK, KeysKnown

LEMMA TypeStep == TypeInv /\ [Next]_vars => TypeInv'
<1> SUFFICES ASSUME TypeInv, [Next]_vars PROVE TypeInv'
  OBVIOUS
<1>0. /\ TypeOK /\ KeysKnown
      /\ upload_key \in [Uploads -> Keys \cup {None}]
      /\ state_file \in [Uploads -> StateFile \cup {None}]
      /\ part_file \in [Uploads -> [Parts -> {"absent", "empty", "whole"}]]
      /\ objects \in [Keys -> Bodies \cup {None}]
      /\ acked \in [Uploads -> SUBSET Parts]
      /\ stored \in [Keys -> Uploads \cup {None}]
      /\ parts_dir \subseteq Uploads /\ disturbed \subseteq Uploads
  BY DEF TypeInv, TypeOK, Bodies
<1>a. /\ pc \in [Requests -> {"idle"} \cup PartLabels \cup CompleteLabels]
      /\ call \in [Requests -> Call \cup {None}]
      /\ \A r \in Requests : IF pc[r] = "idle" THEN call[r] = None ELSE call[r] \in Call
  BY DEF TypeInv, TypeOK
<1>b. /\ \A u \in Uploads : state_file[u] # None => upload_key[u] # None
      /\ \A r \in Requests : pc[r] # "idle" => upload_key[call[r].upload] # None
      /\ \A r \in Requests : pc[r] = "comp_copy" => objects[upload_key[call[r].upload]] \in Bodies
  BY DEF TypeInv, KeysKnown
<1> DEFINE Disk == /\ upload_key' \in [Uploads -> Keys \cup {None}]
                   /\ state_file' \in [Uploads -> StateFile \cup {None}]
                   /\ part_file' \in [Uploads -> [Parts -> {"absent", "empty", "whole"}]]
                   /\ objects' \in [Keys -> Bodies \cup {None}]
                   /\ parts_dir' \subseteq Uploads
           History == /\ acked' \in [Uploads -> SUBSET Parts]
                      /\ stored' \in [Keys -> Uploads \cup {None}]
                      /\ disturbed' \subseteq Uploads
           Calls == /\ pc' \in [Requests -> {"idle"} \cup PartLabels \cup CompleteLabels]
                    /\ call' \in [Requests -> Call \cup {None}]
                    /\ \A r \in Requests : IF pc'[r] = "idle" THEN call'[r] = None ELSE call'[r] \in Call
           Known == /\ \A u \in Uploads : state_file'[u] # None => upload_key'[u] # None
                    /\ \A r \in Requests : pc'[r] # "idle" => upload_key'[call'[r].upload] # None
                    /\ \A r \in Requests : pc'[r] = "comp_copy" =>
                         objects'[upload_key'[call'[r].upload]] \in Bodies
           Goal == Disk /\ History /\ Calls /\ Known
<1>c. ASSUME NEW r \in Requests, pc[r] # "idle"
      PROVE  /\ call[r] \in Call /\ call[r].upload \in Uploads /\ call[r].part \in Parts
             /\ call[r].parts \in Seq(Parts) /\ call[r].next \in Nat \ {0} /\ call[r].size \in Nat
             /\ Len(call[r].parts) \in Nat /\ upload_key[call[r].upload] \in Keys
  BY <1>0, <1>c, CallIs, KeyOf DEF TypeInv
(* A call that goes on, or ends, changing no object and no key.             *)
<1>d. ASSUME NEW r \in Requests, pc[r] # "idle", NEW label \in PartLabels \cup CompleteLabels,
             Goto(r, label), label # "comp_copy", UNCHANGED call
      PROVE  Calls
  <2>1. \A q \in Requests : pc'[q] = IF q = r THEN label ELSE pc[q]
    BY <1>0, <1>d, GotoIs
  <2>2. label # "idle" /\ pc' = [pc EXCEPT ![r] = label] /\ call' = call
    BY <1>d DEF PartLabels, CompleteLabels, Goto
  <2>3. QED
    BY <1>a, <1>c, <1>d, <2>1, <2>2
<1>e. ASSUME NEW r \in Requests, Finish(r)
      PROVE  Calls
  BY <1>0, <1>a, <1>e, FinishIs DEF Goto, Finish
<1>f. ASSUME NEW r \in Requests, pc[r] # "idle", NEW label,
             Goto(r, label), label # "comp_copy", UNCHANGED <<call, upload_key, objects>>,
             \A u \in Uploads : state_file'[u] # None => state_file[u] # None \/ u = call[r].upload
      PROVE  Known
  <2>1. \A q \in Requests : pc'[q] = IF q = r THEN label ELSE pc[q]
    BY <1>0, <1>f, GotoIs
  <2>2. QED
    BY <1>b, <1>f, <2>1
<1>g. ASSUME NEW r \in Requests, Finish(r), UNCHANGED <<upload_key, objects, state_file>>
      PROVE  Known
  <2>1. \A q \in Requests : /\ pc'[q] = IF q = r THEN "idle" ELSE pc[q]
                            /\ call'[q] = IF q = r THEN None ELSE call[q]
    BY <1>0, <1>g, FinishIs
  <2>2. QED
    BY <1>b, <1>g, <2>1
<1>h. \A r \in Requests : pc[r] \in PartLabels \cup CompleteLabels => pc[r] # "idle"
  BY DEF PartLabels, CompleteLabels
<1>1. ASSUME NEW u \in Uploads, NEW k \in Keys, CreateMultipartUpload(u, k) PROVE Goal
  <2>1. /\ upload_key[u] = None
        /\ upload_key' = [upload_key EXCEPT ![u] = k]
        /\ state_file' = [state_file EXCEPT ![u] = [parts |-> <<>>, valid |-> TRUE]]
        /\ UNCHANGED <<parts_dir, part_file, objects, pc, call, acked, disturbed, stored>>
    BY <1>1 DEF CreateMultipartUpload, history
  <2>2. [parts |-> <<>>, valid |-> TRUE] \in StateFile
    BY DEF StateFile
  <2>3. Disk /\ History /\ Calls
    BY <1>0, <1>a, <2>1, <2>2
  <2>4. \A v \in Uploads : upload_key'[v] = IF v = u THEN k ELSE upload_key[v]
    BY <1>0, <2>1
  <2>5. \A r \in Requests : pc[r] # "idle" => call[r].upload # u /\ call[r].upload \in Uploads
    BY <1>b, <1>c, <2>1
  <2>6. \A v \in Uploads : v # u => state_file'[v] = state_file[v]
    BY <1>0, <2>1
  <2>7. Known
    BY <1>b, <2>1, <2>4, <2>5, <2>6, NoneApart
  <2>8. QED
    BY <2>3, <2>7
<1>2. ASSUME NEW r \in Requests, NEW u \in Uploads, NEW n \in Parts, NEW label \in PartLabels \cup CompleteLabels,
             Begin(r, u, n, label), label # "comp_copy", History
      PROVE Goal
  <2>1. /\ pc[r] = "idle" /\ Readable(u) /\ state_file[u].parts \in Seq(Parts)
        /\ \A q \in Requests :
             /\ pc'[q] = IF q = r THEN label ELSE pc[q]
             /\ call'[q] = IF q = r THEN [upload |-> u, part |-> n, parts |-> state_file[u].parts,
                                          next |-> 1, size |-> 0]
                           ELSE call[q]
        /\ UNCHANGED <<upload_key, state_file, parts_dir, part_file, objects, stored>>
    BY <1>0, <1>2, BeginIs
  <2>2. [upload |-> u, part |-> n, parts |-> state_file[u].parts, next |-> 1, size |-> 0] \in Call
    BY <2>1 DEF Call
  <2>3. /\ pc' = [pc EXCEPT ![r] = label]
        /\ \E c : call' = [call EXCEPT ![r] = c]
    BY <1>2, Zenon DEF Begin, Goto
  <2>4. Calls
    BY <1>a, <2>1, <2>2, <2>3, <1>h
  <2>5. Disk
    BY <1>0, <2>1
  <2>6. state_file[u] # None
    BY <2>1 DEF Readable
  <2>7. Known
    BY <1>2, <1>b, <2>1, <2>6
  <2>8. QED
    BY <1>2, <2>4, <2>5, <2>7
<1>3. ASSUME NEW us \in SUBSET Uploads, Disturb(us), UNCHANGED stored PROVE History
  BY <1>0, <1>3 DEF Disturb
<1>4. ASSUME NEW r \in Requests, NEW u \in Uploads, NEW n \in Parts, PartLookup(r, u, n) PROVE Goal
  <2>1. Begin(r, u, n, "part_dir") /\ (Disturb({u}) \/ UNCHANGED <<disturbed, acked>>)
    BY <1>4 DEF PartLookup
  <2>2. UNCHANGED stored
    BY <2>1 DEF Begin
  <2>3. History
    BY <1>0, <1>3, <2>1, <2>2
  <2> HIDE DEF History, Goal
  <2>4. QED
    BY <1>2, <2>1, <2>3 DEF PartLabels
<1>5. ASSUME NEW r \in Requests, PartMakeDir(r) PROVE Goal
  <2>1. /\ pc[r] = "part_dir" /\ parts_dir' = parts_dir \cup {call[r].upload} /\ Goto(r, "part_create")
        /\ UNCHANGED <<upload_key, state_file, part_file, objects, call, acked, disturbed, stored>>
    BY <1>5 DEF PartMakeDir, history
  <2>2. Calls /\ Known
    BY <1>d, <1>f, <2>1 DEF PartLabels
  <2>3. QED
    BY <1>0, <1>c, <2>1, <2>2
<1>6. ASSUME NEW r \in Requests, PartCreate(r) PROVE Goal
  <2>1. /\ pc[r] = "part_create" /\ UNCHANGED <<upload_key, state_file, parts_dir, objects, acked, disturbed, stored>>
        /\ \/ /\ part_file' = [part_file EXCEPT ![call[r].upload][call[r].part] = "empty"]
              /\ Goto(r, "part_write") /\ UNCHANGED call
           \/ Finish(r) /\ UNCHANGED part_file
    BY <1>6 DEF PartCreate, history
  <2>2. Calls
    BY <1>d, <1>e, <2>1 DEF PartLabels
  <2>a. Known
    <3>1. CASE Goto(r, "part_write") /\ UNCHANGED call
      BY <1>f, <2>1, <3>1
    <3>2. CASE Finish(r)
      BY <1>g, <2>1, <3>2
    <3>3. QED
      BY <2>1, <3>1, <3>2
  <2>b. call[r].upload \in Uploads /\ call[r].part \in Parts
    BY <1>c, <2>1
  <2>3. part_file' \in [Uploads -> [Parts -> {"absent", "empty", "whole"}]]
    <3>1. part_file \in [Uploads -> [Parts -> {"absent", "empty", "whole"}]]
      BY <1>0
    <3>2. [part_file[call[r].upload] EXCEPT ![call[r].part] = "empty"] \in [Parts -> {"absent", "empty", "whole"}]
      BY <2>b, <3>1
    <3>3. QED
      BY <2>1, <2>b, <3>1, <3>2
  <2>4. QED
    BY <1>0, <2>1, <2>2, <2>a, <2>3
<1>7. ASSUME NEW r \in Requests, PartWrite(r) PROVE Goal
  <2>1. /\ pc[r] = "part_write" /\ UNCHANGED <<upload_key, state_file, parts_dir, objects, call, acked, disturbed, stored>>
        /\ \/ UNCHANGED part_file
           \/ part_file' = [part_file EXCEPT ![call[r].upload][call[r].part] = "whole"]
        /\ Goto(r, "part_truncate")
    BY <1>7 DEF PartWrite, history
  <2>2. Calls /\ Known
    BY <1>d, <1>f, <2>1 DEF PartLabels
  <2>b. call[r].upload \in Uploads /\ call[r].part \in Parts
    BY <1>c, <2>1
  <2>3. part_file' \in [Uploads -> [Parts -> {"absent", "empty", "whole"}]]
    <3>1. part_file \in [Uploads -> [Parts -> {"absent", "empty", "whole"}]]
      BY <1>0
    <3>2. [part_file[call[r].upload] EXCEPT ![call[r].part] = "whole"] \in [Parts -> {"absent", "empty", "whole"}]
      BY <2>b, <3>1
    <3>3. QED
      BY <2>1, <2>b, <3>1, <3>2
  <2>4. QED
    BY <1>0, <2>1, <2>2, <2>3
<1>8. ASSUME NEW r \in Requests, PartTruncateState(r) PROVE Goal
  <2>1. /\ pc[r] = "part_truncate" /\ state_file' = [state_file EXCEPT ![call[r].upload] = Truncated]
        /\ Goto(r, "part_save")
        /\ UNCHANGED <<upload_key, parts_dir, part_file, objects, call, acked, disturbed, stored>>
    BY <1>8 DEF PartTruncateState, history
  <2>2. \A u \in Uploads : u # call[r].upload => state_file'[u] = state_file[u]
    BY <1>0, <2>1
  <2>3. Calls /\ Known
    BY <1>d, <1>f, <2>1, <2>2 DEF PartLabels
  <2>4. Truncated \in StateFile
    BY DEF Truncated, StateFile
  <2>5. QED
    BY <1>0, <1>c, <2>1, <2>3, <2>4
<1>9. ASSUME NEW r \in Requests, PartSaveState(r) PROVE Goal
  <2>1. /\ pc[r] = "part_save"
        /\ state_file' = [state_file EXCEPT ![call[r].upload] =
             Overlay(state_file[call[r].upload], Append(call[r].parts, call[r].part))]
        /\ Goto(r, "part_reply")
        /\ UNCHANGED <<upload_key, parts_dir, part_file, objects, call, acked, disturbed, stored>>
    BY <1>0, <1>9 DEF PartSaveState, history
  <2>2. \A u \in Uploads : u # call[r].upload => state_file'[u] = state_file[u]
    BY <1>0, <2>1
  <2>3. Calls /\ Known
    BY <1>d, <1>f, <2>1, <2>2 DEF PartLabels
  <2>4. Append(call[r].parts, call[r].part) \in Seq(Parts)
    BY <1>c, <2>1
  <2>5. state_file[call[r].upload] \in StateFile \cup {None}
    BY <1>0, <1>c, <2>1
  <2>6. Overlay(state_file[call[r].upload], Append(call[r].parts, call[r].part)) \in StateFile \cup {None}
    <3>1. CASE state_file[call[r].upload] = None
      BY <3>1 DEF Overlay
    <3>2. CASE state_file[call[r].upload] \in StateFile
      BY <2>4, <3>2, OverlayIs
    <3>3. QED
      BY <2>5, <3>1, <3>2
  <2>7. QED
    BY <1>0, <1>c, <2>1, <2>3, <2>6
<1>10. ASSUME NEW r \in Requests, PartReply(r) PROVE Goal
  <2>1. /\ pc[r] = "part_reply"
        /\ \/ UNCHANGED acked
           \/ acked' = [acked EXCEPT ![call[r].upload] = acked[call[r].upload] \cup {call[r].part}]
        /\ Finish(r)
        /\ UNCHANGED <<upload_key, state_file, parts_dir, part_file, objects, disturbed, stored>>
    BY <1>0, <1>10 DEF PartReply, disk
  <2>2. Calls /\ Known
    BY <1>e, <1>g, <2>1
  <2>3. acked' \in [Uploads -> SUBSET Parts]
    BY <1>0, <1>c, <2>1
  <2>4. QED
    BY <1>0, <2>1, <2>2, <2>3
<1>11. ASSUME NEW r \in Requests, NEW u \in Uploads, CompleteLookup(r, u) PROVE Goal
  <2> DEFINE n == CHOOSE m \in Parts : TRUE
             rivals == {call[q].upload : q \in Completing(upload_key[u])}
  <2>1. n \in Parts
    BY LocalUploadAssumption, Zenon
  <2>2. Begin(r, u, n, "comp_create") /\ (Disturb(rivals \cup {u}) \/ UNCHANGED <<disturbed, acked>>)
    BY <1>11, Zenon DEF CompleteLookup
  <2>3. rivals \cup {u} \subseteq Uploads
    BY <1>c, <1>h DEF Completing
  <2> HIDE DEF n, rivals
  <2>4. UNCHANGED stored
    BY <2>2 DEF Begin
  <2>5. History
    BY <1>0, <1>3, <2>2, <2>3, <2>4
  <2> HIDE DEF History, Goal
  <2>6. QED
    BY <1>2, <2>1, <2>2, <2>5 DEF CompleteLabels
<1>12. ASSUME NEW r \in Requests, CompleteCreate(r) PROVE Goal
  <2> DEFINE k == upload_key[call[r].upload]
  <2>1. /\ pc[r] = "comp_create" /\ objects' = [objects EXCEPT ![k] = <<>>]
        /\ stored' = [stored EXCEPT ![k] = None] /\ Goto(r, "comp_copy")
        /\ UNCHANGED <<upload_key, state_file, parts_dir, part_file, call, acked, disturbed>>
    BY <1>12 DEF CompleteCreate
  <2>2. k \in Keys
    BY <1>c, <2>1
  <2> HIDE DEF k
  <2>3. <<>> \in Bodies
    BY DEF Bodies
  <2>4. Disk /\ History
    BY <1>0, <2>1, <2>2, <2>3
  <2>5. \A q \in Requests : pc'[q] = IF q = r THEN "comp_copy" ELSE pc[q]
    BY <1>0, <2>1, GotoIs
  <2>6. "comp_copy" \in CompleteLabels /\ pc' = [pc EXCEPT ![r] = "comp_copy"]
    BY <2>1 DEF CompleteLabels, Goto
  <2>7. Calls
    BY <1>a, <1>c, <2>1, <2>5, <2>6
  <2>8. \A l \in Keys : objects'[l] = IF l = k THEN <<>> ELSE objects[l]
    BY <1>0, <2>1
  <2>9. Known
    BY <1>b, <1>c, <2>1, <2>3, <2>5, <2>8 DEF k
  <2>10. QED
    BY <2>4, <2>7, <2>9
<1>13. ASSUME NEW r \in Requests, CompleteCopy(r) PROVE Goal
  <2> DEFINE k == upload_key[call[r].upload]
             n == SortedParts(call[r].parts)[call[r].next]
  <2>0. /\ pc[r] = "comp_copy" /\ call[r].next <= Len(call[r].parts)
        /\ UNCHANGED <<upload_key, state_file, parts_dir, part_file, acked, disturbed, stored>>
    BY <1>13 DEF CompleteCopy, history
  <2>1. \/ /\ objects' = [objects EXCEPT ![k] = WriteAt(objects[k], call[r].size, <<call[r].upload, n>>)]
           /\ call' = [call EXCEPT ![r].next = @ + 1, ![r].size = @ + 1]
           /\ UNCHANGED pc
        \/ /\ call' = [call EXCEPT ![r].next = @ + 1]
           /\ UNCHANGED <<objects, pc>>
        \/ Finish(r) /\ UNCHANGED objects
    BY <1>0, <1>13 DEF CompleteCopy
  <2>2. k \in Keys /\ objects[k] \in Bodies
    BY <1>b, <1>c, <2>0
  <2> HIDE DEF k, n
  <2>3. CASE /\ objects' = [objects EXCEPT ![k] = WriteAt(objects[k], call[r].size, <<call[r].upload, n>>)]
             /\ call' = [call EXCEPT ![r].next = @ + 1, ![r].size = @ + 1]
             /\ UNCHANGED pc
    <3>1. n \in Parts
      <4>1. SortedParts(call[r].parts) \in [1 .. Len(call[r].parts) -> Parts]
        BY <1>c, <2>0, SortedPartsIs
      <4>2. call[r].next \in 1 .. Len(call[r].parts)
        BY <1>c, <2>0
      <4>3. QED
        BY <4>1, <4>2 DEF n
    <3>2. WriteAt(objects[k], call[r].size, <<call[r].upload, n>>) \in Bodies
      <4>1. <<call[r].upload, n>> \in Chunk
        BY <1>c, <2>0, <3>1 DEF Chunk
      <4>2. QED
        BY <1>c, <2>0, <2>2, <4>1, WriteAtIs
    <3>3. [call[r] EXCEPT !.next = @ + 1, !.size = @ + 1] \in Call
      <4>1. call[r] \in Call /\ call[r].next + 1 \in Nat \ {0} /\ call[r].size + 1 \in Nat
        BY <1>c, <2>0
      <4>2. QED
        BY <4>1 DEF Call
    <3>4. call' = [call EXCEPT ![r] = [call[r] EXCEPT !.next = @ + 1, !.size = @ + 1]]
      BY <1>a, <2>3
    <3>5. Disk
      BY <1>0, <2>0, <2>2, <2>3, <3>2
    <3>6. Calls
      BY <1>a, <2>0, <2>3, <3>3, <3>4
    <3>7. \A q \in Requests : pc'[q] # "idle" => pc[q] # "idle" /\ call'[q].upload = call[q].upload
      BY <1>a, <1>c, <2>0, <2>3, <3>4
    <3>8. \A l \in Keys : l # k => objects'[l] = objects[l]
      BY <1>0, <2>3
    <3>9. objects'[k] \in Bodies
      BY <1>0, <2>2, <2>3, <3>2
    <3>10. Known
      <4>1. pc' = pc /\ upload_key' = upload_key /\ state_file' = state_file
        BY <2>0, <2>3
      <4>2. \A q \in Requests : pc'[q] # "idle" => upload_key'[call'[q].upload] # None
        BY <1>b, <3>7, <4>1
      <4>3. \A l \in Keys : objects[l] \in Bodies => objects'[l] \in Bodies
        BY <3>8, <3>9
      <4>4. \A q \in Requests : pc'[q] = "comp_copy" => objects'[upload_key'[call'[q].upload]] \in Bodies
        BY <1>b, <1>c, <3>7, <4>1, <4>3
      <4>5. QED
        BY <1>b, <4>1, <4>2, <4>4
    <3>11. QED
      BY <1>0, <2>0, <3>5, <3>6, <3>10
  <2>4. CASE call' = [call EXCEPT ![r].next = @ + 1] /\ UNCHANGED <<objects, pc>>
    <3>1. [call[r] EXCEPT !.next = @ + 1] \in Call
      BY <1>c, <2>0 DEF Call
    <3>2. call' = [call EXCEPT ![r] = [call[r] EXCEPT !.next = @ + 1]]
      BY <1>a, <2>4
    <3>3. Calls
      BY <1>a, <2>0, <2>4, <3>1, <3>2
    <3>4. \A q \in Requests : pc'[q] # "idle" => pc[q] # "idle" /\ call'[q].upload = call[q].upload
      BY <1>a, <1>c, <2>0, <2>4, <3>2
    <3>5. Known
      BY <1>b, <2>0, <2>4, <3>4
    <3>6. QED
      BY <1>0, <2>0, <2>4, <3>3, <3>5
  <2>5. CASE Finish(r) /\ UNCHANGED objects
    BY <1>0, <1>e, <1>g, <2>0, <2>5
  <2>6. QED
    BY <2>1, <2>3, <2>4, <2>5
<1>14. ASSUME NEW r \in Requests, CompleteRemoveParts(r) PROVE Goal
  <2> DEFINE u == call[r].upload
             emptied(S) == [n \in Parts |-> IF n \in S THEN "absent" ELSE part_file[u][n]]
  <2>1. /\ pc[r] = "comp_copy"
        /\ UNCHANGED <<upload_key, state_file, objects, acked, disturbed, stored>>
        /\ \/ /\ parts_dir' = parts_dir \ {u} /\ Goto(r, "comp_state") /\ UNCHANGED call
              /\ part_file' = [part_file EXCEPT ![u] = [n \in Parts |-> "absent"]]
           \/ /\ \E S \in SUBSET Parts : part_file' = [part_file EXCEPT ![u] = emptied(S)]
              /\ Finish(r) /\ UNCHANGED parts_dir
    BY <1>0, <1>c, <1>14 DEF CompleteRemoveParts, history
  <2>2. u \in Uploads
    BY <1>c, <2>1
  <2>3. \A S \in SUBSET Parts : emptied(S) \in [Parts -> {"absent", "empty", "whole"}]
    BY <1>0, <2>2
  <2>4. parts_dir' \subseteq Uploads /\ part_file' \in [Uploads -> [Parts -> {"absent", "empty", "whole"}]]
    <3> HIDE DEF emptied
    <3>1. QED
      BY <1>0, <2>1, <2>2, <2>3
  <2>5. Calls
    BY <1>d, <1>e, <2>1 DEF CompleteLabels
  <2>6. Known
    <3>1. CASE Goto(r, "comp_state") /\ UNCHANGED call
      BY <1>f, <2>1, <3>1
    <3>2. CASE Finish(r)
      BY <1>g, <2>1, <3>2
    <3>3. QED
      BY <2>1, <3>1, <3>2
  <2>7. QED
    BY <1>0, <2>1, <2>4, <2>5, <2>6
<1>15. ASSUME NEW r \in Requests, CompleteRemoveState(r) PROVE Goal
  <2>1. /\ pc[r] = "comp_state" /\ Goto(r, "comp_reply")
        /\ \/ UNCHANGED state_file
           \/ state_file' = [state_file EXCEPT ![call[r].upload] = None]
        /\ UNCHANGED <<upload_key, parts_dir, part_file, objects, call, acked, disturbed, stored>>
    BY <1>15 DEF CompleteRemoveState, history
  <2>2. Calls
    BY <1>d, <2>1 DEF CompleteLabels
  <2>3. \A u \in Uploads : state_file'[u] # None => state_file[u] # None
    BY <1>0, <1>c, <2>1
  <2>4. Known
    BY <1>f, <2>1, <2>3
  <2>5. QED
    BY <1>0, <2>1, <2>2, <2>4
<1>16. ASSUME NEW r \in Requests, CompleteReply(r) PROVE Goal
  <2>1. /\ pc[r] = "comp_reply" /\ Finish(r)
        /\ stored' = [stored EXCEPT ![upload_key[call[r].upload]] = call[r].upload]
        /\ UNCHANGED <<upload_key, state_file, parts_dir, part_file, objects, acked, disturbed>>
    BY <1>16 DEF CompleteReply, disk
  <2>2. Calls /\ Known
    BY <1>e, <1>g, <2>1
  <2>3. QED
    BY <1>0, <1>c, <2>1, <2>2
<1>17. ASSUME NEW r \in Requests, Abort(r) PROVE Goal
  <2>1. /\ pc[r] # "idle" /\ Finish(r)
        /\ UNCHANGED <<upload_key, state_file, parts_dir, part_file, objects, acked, disturbed, stored>>
    BY <1>17 DEF Abort, disk, history
  <2>2. Calls /\ Known
    BY <1>e, <1>g, <2>1
  <2>3. QED
    BY <1>0, <2>1, <2>2
<1>18. ASSUME UNCHANGED vars PROVE Goal
  <2>1. UNCHANGED <<upload_key, state_file, parts_dir, part_file, objects, pc, call, acked, disturbed, stored>>
    BY <1>18 DEF vars, disk, history
  <2>2. QED
    BY <1>0, <1>a, <1>b, <2>1
<1> HIDE DEF Goal
<1>19. Goal
  BY <1>1, <1>4, <1>5, <1>6, <1>7, <1>8, <1>9, <1>10, <1>11, <1>12, <1>13, <1>14, <1>15, <1>16, <1>17,
     <1>18 DEF Next, PartStep, CompleteStep
<1>20. QED
  BY <1>19 DEF Goal, TypeInv, TypeOK, KeysKnown, Bodies

(* What is on disk and what the calls hold have their types.                *)
THEOREM UploadsTypeCorrect == Spec => []TypeOK
<1>1. TypeInv => TypeOK
  BY DEF TypeInv
<1>2. QED
  BY <1>1, TypeInit, TypeStep, PTL DEF Spec

-----------------------------------------------------------------------------
(* What a step of call r, after its lookup, may touch.                      *)

Frame(r) ==
  /\ pc[r] # "idle"
  /\ pc'[r] # "idle" =>
       /\ call'[r].upload = call[r].upload /\ call'[r].part = call[r].part
       /\ call'[r].parts = call[r].parts
       /\ pc'[r] \in PartLabels <=> pc[r] \in PartLabels
       /\ pc'[r] \in CompleteLabels <=> pc[r] \in CompleteLabels
  /\ \A q \in Requests : q # r => pc'[q] = pc[q] /\ call'[q] = call[q]
  /\ upload_key' = upload_key /\ disturbed' = disturbed
  /\ \A v \in Uploads : v # call[r].upload =>
       state_file'[v] = state_file[v] /\ part_file'[v] = part_file[v] /\ acked'[v] = acked[v]
  /\ \A k \in Keys : k # upload_key[call[r].upload] => objects'[k] = objects[k] /\ stored'[k] = stored[k]
  /\ \A k \in Keys : stored'[k] \in {stored[k], None, call[r].upload}
  /\ pc[r] \in PartLabels => UNCHANGED <<objects, stored>>

LEMMA LabelsAre ==
  /\ \A label : label \in PartLabels => label # "idle" /\ label \notin CompleteLabels
  /\ \A label : label \in CompleteLabels => label # "idle" /\ label \notin PartLabels
  BY DEF PartLabels, CompleteLabels

LEMMA StepFrame ==
  ASSUME TypeInv, NEW r \in Requests, PartStep(r) \/ CompleteStep(r) \/ Abort(r)
  PROVE  Frame(r)
<1>0. /\ TypeOK
      /\ upload_key \in [Uploads -> Keys \cup {None}]
      /\ state_file \in [Uploads -> StateFile \cup {None}]
      /\ part_file \in [Uploads -> [Parts -> {"absent", "empty", "whole"}]]
      /\ objects \in [Keys -> Bodies \cup {None}]
      /\ acked \in [Uploads -> SUBSET Parts]
      /\ stored \in [Keys -> Uploads \cup {None}]
  BY DEF TypeInv, TypeOK, Bodies
<1>a. call \in [Requests -> Call \cup {None}] /\ pc \in [Requests -> {"idle"} \cup PartLabels \cup CompleteLabels]
  BY DEF TypeInv, TypeOK
(* A step that goes on or ends.                                             *)
<1> DEFINE On == \E label : /\ Goto(r, label) /\ UNCHANGED call
                            /\ \/ pc[r] \in PartLabels /\ label \in PartLabels
                               \/ pc[r] \in CompleteLabels /\ label \in CompleteLabels
           Calls == /\ pc'[r] # "idle" =>
                         /\ call'[r].upload = call[r].upload /\ call'[r].part = call[r].part
                         /\ call'[r].parts = call[r].parts
                         /\ pc'[r] \in PartLabels <=> pc[r] \in PartLabels
                         /\ pc'[r] \in CompleteLabels <=> pc[r] \in CompleteLabels
                    /\ \A q \in Requests : q # r => pc'[q] = pc[q] /\ call'[q] = call[q]
           Rest == /\ upload_key' = upload_key /\ disturbed' = disturbed
                   /\ \A v \in Uploads : v # call[r].upload =>
                        state_file'[v] = state_file[v] /\ part_file'[v] = part_file[v] /\ acked'[v] = acked[v]
                   /\ \A k \in Keys : k # upload_key[call[r].upload] =>
                        objects'[k] = objects[k] /\ stored'[k] = stored[k]
                   /\ \A k \in Keys : stored'[k] \in {stored[k], None, call[r].upload}
                   /\ \A k \in Keys : stored'[k] \in {stored[k], None, call[r].upload}
                   /\ pc[r] \in PartLabels => UNCHANGED <<objects, stored>>
<1>b. ASSUME On PROVE Calls
  <2>1. PICK label : /\ Goto(r, label) /\ UNCHANGED call
                     /\ \/ pc[r] \in PartLabels /\ label \in PartLabels
                        \/ pc[r] \in CompleteLabels /\ label \in CompleteLabels
    BY <1>b
  <2>2. \A q \in Requests : pc'[q] = IF q = r THEN label ELSE pc[q]
    BY <1>0, <2>1, GotoIs
  <2>3. QED
    BY <2>1, <2>2, LabelsAre
<1>c. ASSUME Finish(r) PROVE Calls
  BY <1>0, <1>c, FinishIs
<1>d. ASSUME pc[r] \in PartLabels \cup CompleteLabels
      PROVE  pc[r] # "idle" /\ call[r].upload \in Uploads /\ call[r].part \in Parts /\ upload_key[call[r].upload] \in Keys
  BY <1>0, <1>d, LabelsAre, CallIs, KeyOf
<1>e. ASSUME pc[r] # "idle", Calls, Rest PROVE Frame(r)
  BY <1>e DEF Frame
<1> HIDE DEF Calls
<1>1. CASE PartMakeDir(r)
  <2>1. pc[r] \in PartLabels /\ On
    BY <1>1 DEF PartMakeDir, PartLabels
  <2>2. Rest
    BY <1>1 DEF PartMakeDir, history
  <2>3. QED
    BY <1>b, <1>d, <1>e, <2>1, <2>2
<1>2. CASE PartCreate(r)
  <2>1. pc[r] \in PartLabels /\ (On \/ Finish(r))
    BY <1>2 DEF PartCreate, PartLabels
  <2>2. Rest
    BY <1>0, <1>2 DEF PartCreate, history
  <2>3. QED
    BY <1>b, <1>c, <1>d, <1>e, <2>1, <2>2
<1>3. CASE PartWrite(r)
  <2>1. pc[r] \in PartLabels /\ On
    BY <1>3 DEF PartWrite, PartLabels
  <2>2. Rest
    BY <1>0, <1>3 DEF PartWrite, history
  <2>3. QED
    BY <1>b, <1>d, <1>e, <2>1, <2>2
<1>4. CASE PartTruncateState(r)
  <2>1. pc[r] \in PartLabels /\ On
    BY <1>4 DEF PartTruncateState, PartLabels
  <2>2. Rest
    BY <1>0, <1>4 DEF PartTruncateState, history
  <2>3. QED
    BY <1>b, <1>d, <1>e, <2>1, <2>2
<1>5. CASE PartSaveState(r)
  <2>1. pc[r] \in PartLabels /\ On
    BY <1>5 DEF PartSaveState, PartLabels
  <2>2. Rest
    BY <1>0, <1>5 DEF PartSaveState, history
  <2>3. QED
    BY <1>b, <1>d, <1>e, <2>1, <2>2
<1>6. CASE PartReply(r)
  <2>1. pc[r] \in PartLabels /\ Finish(r)
    BY <1>6 DEF PartReply, PartLabels
  <2>2. Rest
    BY <1>0, <1>6 DEF PartReply, disk
  <2>3. QED
    BY <1>c, <1>d, <1>e, <2>1, <2>2
<1>7. CASE CompleteCreate(r)
  <2>1. pc[r] \in CompleteLabels /\ On
    BY <1>7 DEF CompleteCreate, CompleteLabels
  <2>2. Rest
    BY <1>0, <1>7, <2>1, LabelsAre DEF CompleteCreate
  <2>3. QED
    BY <1>b, <1>d, <1>e, <2>1, <2>2
<1>8. CASE CompleteCopy(r)
  <2> DEFINE k == upload_key[call[r].upload]
  <2>1. pc[r] \in CompleteLabels /\ UNCHANGED <<upload_key, state_file, parts_dir, part_file, acked, disturbed, stored>>
    BY <1>8 DEF CompleteCopy, CompleteLabels, history
  <2>2. /\ \/ UNCHANGED objects
           \/ \E o : objects' = [objects EXCEPT ![k] = o]
        /\ \/ UNCHANGED pc /\ \E c : call' = [call EXCEPT ![r] = c] /\ c.upload = call[r].upload
                                     /\ c.part = call[r].part /\ c.parts = call[r].parts
           \/ Finish(r)
    <3>1. call[r] \in Call
      BY <1>0, <2>1, LabelsAre, CallIs
    <3>2. ASSUME call' = [call EXCEPT ![r].next = @ + 1, ![r].size = @ + 1] \/ call' = [call EXCEPT ![r].next = @ + 1]
          PROVE  \E c : call' = [call EXCEPT ![r] = c] /\ c.upload = call[r].upload
                                     /\ c.part = call[r].part /\ c.parts = call[r].parts
      <4> DEFINE c == [call[r] EXCEPT !.next = @ + 1, !.size = @ + 1]
                 d == [call[r] EXCEPT !.next = @ + 1]
      <4>1. /\ c.upload = call[r].upload /\ c.part = call[r].part /\ c.parts = call[r].parts
            /\ d.upload = call[r].upload /\ d.part = call[r].part /\ d.parts = call[r].parts
        BY <3>1 DEF Call
      <4>2. call' = [call EXCEPT ![r] = c] \/ call' = [call EXCEPT ![r] = d]
        BY <1>a, <3>2
      <4> HIDE DEF c, d
      <4>3. QED
        BY <4>1, <4>2
    <3>3. \/ call' = [call EXCEPT ![r].next = @ + 1, ![r].size = @ + 1] /\ UNCHANGED pc
          \/ call' = [call EXCEPT ![r].next = @ + 1] /\ UNCHANGED pc
          \/ Finish(r)
      BY <1>8 DEF CompleteCopy
    <3>4. UNCHANGED objects \/ \E o : objects' = [objects EXCEPT ![k] = o]
      BY <1>8 DEF CompleteCopy
    <3>5. QED
      BY <3>2, <3>3, <3>4
  <2>3. Calls
    <3>1. CASE UNCHANGED pc /\ \E c : call' = [call EXCEPT ![r] = c] /\ c.upload = call[r].upload
                                      /\ c.part = call[r].part /\ c.parts = call[r].parts
      BY <1>a, <3>1 DEF Calls
    <3>2. QED
      BY <1>c, <2>2, <3>1
  <2>4. \A l \in Keys : l # k => objects'[l] = objects[l]
    BY <1>0, <2>2
  <2>5. Rest
    BY <2>1, <2>4, LabelsAre
  <2>6. QED
    BY <1>d, <1>e, <2>1, <2>3, <2>5
<1>9. CASE CompleteRemoveParts(r)
  <2>1. pc[r] \in CompleteLabels /\ (On \/ Finish(r))
    BY <1>9 DEF CompleteRemoveParts, CompleteLabels
  <2>2. UNCHANGED <<upload_key, state_file, objects, acked, disturbed, stored>>
    BY <1>9 DEF CompleteRemoveParts, history
  <2>3. \E f : part_file' = [part_file EXCEPT ![call[r].upload] = f]
    BY <1>9 DEF CompleteRemoveParts
  <2>4. Rest
    BY <1>0, <2>2, <2>3
  <2>5. QED
    BY <1>b, <1>c, <1>d, <1>e, <2>1, <2>4
<1>10. CASE CompleteRemoveState(r)
  <2>1. pc[r] \in CompleteLabels /\ On
    BY <1>10 DEF CompleteRemoveState, CompleteLabels
  <2>2. Rest
    BY <1>0, <1>10 DEF CompleteRemoveState, history
  <2>3. QED
    BY <1>b, <1>d, <1>e, <2>1, <2>2
<1>11. CASE CompleteReply(r)
  <2>1. pc[r] \in CompleteLabels /\ Finish(r)
    BY <1>11 DEF CompleteReply, CompleteLabels
  <2>2. Rest
    BY <1>0, <1>11, <2>1, LabelsAre DEF CompleteReply, disk
  <2>3. QED
    BY <1>c, <1>d, <1>e, <2>1, <2>2
<1>12. CASE Abort(r)
  <2>1. pc[r] # "idle" /\ Finish(r)
    BY <1>12 DEF Abort
  <2>2. Rest
    BY <1>12 DEF Abort, disk, history
  <2>3. QED
    BY <1>c, <1>e, <2>1, <2>2
<1>13. QED
  BY <1>1, <1>2, <1>3, <1>4, <1>5, <1>6, <1>7, <1>8, <1>9, <1>10, <1>11, <1>12
   DEF PartStep, CompleteStep

-----------------------------------------------------------------------------
(* An upload that is over stays so.                                         *)

LEMMA ClosedStep ==
  TypeInv /\ [Next]_vars => \A u \in Uploads : Closed(u) => Closed(u)'
<1> SUFFICES ASSUME TypeInv, [Next]_vars, NEW u \in Uploads, Closed(u) PROVE Closed(u)'
  OBVIOUS
<1>0. /\ TypeOK /\ upload_key[u] # None /\ state_file[u] = None
      /\ \A q \in Requests : pc[q] = "idle" \/ call[q].upload # u
  BY DEF TypeInv, Closed, Busy
<1>a. /\ upload_key \in [Uploads -> Keys \cup {None}]
      /\ state_file \in [Uploads -> StateFile \cup {None}]
  BY DEF TypeInv, TypeOK
<1> DEFINE Goal == /\ upload_key'[u] # None /\ state_file'[u] = None
                   /\ \A q \in Requests : pc'[q] = "idle" \/ call'[q].upload # u
<1>1. ASSUME NEW v \in Uploads, NEW k \in Keys, CreateMultipartUpload(v, k) PROVE Goal
  <2>1. /\ upload_key[v] = None /\ UNCHANGED <<pc, call>>
        /\ upload_key' = [upload_key EXCEPT ![v] = k]
        /\ state_file' = [state_file EXCEPT ![v] = [parts |-> <<>>, valid |-> TRUE]]
    BY <1>1 DEF CreateMultipartUpload
  <2>2. QED
    BY <1>0, <1>a, <2>1
<1>2. ASSUME NEW r \in Requests, NEW v \in Uploads, NEW n \in Parts, NEW label, Begin(r, v, n, label)
      PROVE Goal
  <2>1. /\ Readable(v) /\ UNCHANGED <<upload_key, state_file>>
        /\ \A q \in Requests : q # r => pc'[q] = pc[q] /\ call'[q] = call[q]
        /\ call'[r].upload = v
    <3>1. /\ Readable(v) /\ UNCHANGED <<upload_key, state_file, parts_dir, part_file, objects, stored>>
          /\ \A q \in Requests :
               /\ pc'[q] = IF q = r THEN label ELSE pc[q]
               /\ call'[q] = IF q = r THEN [upload |-> v, part |-> n, parts |-> state_file[v].parts,
                                            next |-> 1, size |-> 0]
                             ELSE call[q]
      BY <1>0, <1>2, BeginIs, ZenonT(60)
    <3>2. call'[r] = [upload |-> v, part |-> n, parts |-> state_file[v].parts, next |-> 1, size |-> 0]
      BY <3>1
    <3>3. call'[r].upload = v
      BY <3>2
    <3>4. \A q \in Requests : q # r => pc'[q] = pc[q] /\ call'[q] = call[q]
      BY <3>1
    <3>5. QED
      BY <3>1, <3>3, <3>4
  <2>2. v # u
    BY <1>0, <2>1 DEF Readable
  <2>3. QED
    BY <1>0, <2>1, <2>2
<1>3. ASSUME NEW r \in Requests, PartStep(r) \/ CompleteStep(r) \/ Abort(r) PROVE Goal
  BY <1>0, <1>3, StepFrame DEF Frame
<1>4. ASSUME UNCHANGED vars PROVE Goal
  BY <1>0, <1>4 DEF vars, disk
<1>5. ASSUME NEW r \in Requests, NEW v \in Uploads, CompleteLookup(r, v) PROVE Goal
  <2> DEFINE n == CHOOSE m \in Parts : TRUE
  <2>1. n \in Parts
    BY LocalUploadAssumption, Zenon
  <2>2. Begin(r, v, n, "comp_create")
    BY <1>5, Zenon DEF CompleteLookup
  <2> HIDE DEF n
  <2>3. QED
    BY <1>2, <2>1, <2>2
<1>6. ASSUME NEW r \in Requests, NEW v \in Uploads, NEW n \in Parts, PartLookup(r, v, n) PROVE Goal
  BY <1>2, <1>6 DEF PartLookup
<1> HIDE DEF Goal
<1>7. Goal
  BY <1>1, <1>3, <1>4, <1>5, <1>6 DEF Next
<1>8. QED
  BY <1>7 DEF Goal, Closed, Busy

(* An upload whose state file is gone, with no call on it in flight, is     *)
(* never found again by a call, so nothing truncates the object it stored.  *)
THEOREM ClosedCorrect == Spec => ClosedForGood
<1>1. TypeInv /\ [Next]_vars => [\A u \in Uploads : Closed(u) => Closed(u)']_vars
  BY ClosedStep
<1>2. QED
  BY <1>1, TypeInit, TypeStep, PTL DEF Spec, ClosedForGood

-----------------------------------------------------------------------------
(* What an upload that is not disturbed has stored.                         *)

(* The parts a list names are told apart, include those that were answered  *)
(* for, and none of their files is waiting for its bytes.                   *)
KeptParts(u, parts) ==
  /\ Distinct(parts)
  /\ acked[u] \subseteq Elements(parts)
  /\ \A n \in Elements(parts) : part_file[u][n] # "empty"

(* object is the first n parts, in order.                                   *)
Copied(u, parts, object, n) ==
  /\ object \in Bodies /\ Len(object) = n
  /\ \A i \in 1 .. n : object[i] = <<u, SortedParts(parts)[i]>>

RecordOK(u) == u \notin disturbed /\ Readable(u) => KeptParts(u, state_file[u].parts)

(* A part that is under way is new to the state file, and its own call is   *)
(* the one that has written it last.                                        *)
PartOK(r) ==
  /\ KeptParts(call[r].upload, call[r].parts)
  /\ call[r].part \notin Elements(call[r].parts)
  /\ stored[upload_key[call[r].upload]] # call[r].upload
  /\ pc[r] \in {"part_dir", "part_create", "part_write", "part_truncate"} =>
       state_file[call[r].upload].parts = call[r].parts
  /\ pc[r] = "part_save" => state_file[call[r].upload] = Truncated
  /\ pc[r] = "part_reply" => state_file[call[r].upload].parts = Append(call[r].parts, call[r].part)
  /\ pc[r] \in {"part_truncate", "part_save", "part_reply"} =>
       part_file[call[r].upload][call[r].part] # "empty"

CompleteOK(r) ==
  /\ KeptParts(call[r].upload, call[r].parts)
  /\ pc[r] = "comp_create" => call[r].next = 1 /\ call[r].size = 0
  /\ pc[r] = "comp_copy" =>
       /\ call[r].size = call[r].next - 1 /\ call[r].next <= Len(call[r].parts) + 1
       /\ Copied(call[r].upload, call[r].parts, objects[upload_key[call[r].upload]], call[r].size)
  /\ pc[r] \in {"comp_state", "comp_reply"} =>
       Copied(call[r].upload, call[r].parts, objects[upload_key[call[r].upload]], Len(call[r].parts))

CallOK(r) ==
  call[r].upload \notin disturbed =>
    /\ pc[r] \in PartLabels => PartOK(r)
    /\ pc[r] \in CompleteLabels => CompleteOK(r)

(* While an object is promised, every other complete on its key has yet to  *)
(* open it.                                                                 *)
StoredOK(k) ==
  stored[k] # None =>
    /\ upload_key[stored[k]] = k
    /\ stored[k] \notin disturbed =>
         /\ \A q \in Requests : pc[q] \in CompleteLabels /\ upload_key[call[q].upload] = k => pc[q] = "comp_create"
         /\ MadeOf(objects[k], stored[k])
         /\ \A n \in acked[stored[k]] : <<stored[k], n>> \in Elements(objects[k])

(* An undisturbed upload is used by one call at a time, and its complete    *)
(* has the key to itself.                                                   *)
OneCall ==
  \A q, r \in Requests :
    pc[q] # "idle" /\ pc[r] # "idle" /\ call[q].upload = call[r].upload
      /\ call[r].upload \notin disturbed => q = r

AloneOnKey ==
  \A q, r \in Requests :
    pc[q] \in CompleteLabels /\ pc[r] \in CompleteLabels
      /\ upload_key[call[q].upload] = upload_key[call[r].upload]
      /\ call[r].upload \notin disturbed => q = r

CalmInv ==
  /\ OneCall /\ AloneOnKey
  /\ \A u \in Uploads : upload_key[u] = None => acked[u] = {}
  /\ \A u \in Uploads : RecordOK(u)
  /\ \A r \in Requests : CallOK(r)
  /\ \A k \in Keys : StoredOK(k)

UploadInv == TypeInv /\ CalmInv

LEMMA CalmInit == Init => CalmInv
<1> SUFFICES ASSUME Init PROVE CalmInv
  OBVIOUS
<1>1. OneCall /\ AloneOnKey
  <2>1. \A r \in Requests : pc[r] = "idle" /\ pc[r] \notin CompleteLabels
    BY DEF Init, CompleteLabels
  <2>2. QED
    BY <2>1, Zenon DEF OneCall, AloneOnKey
<1>2. \A u \in Uploads : acked[u] = {} /\ RecordOK(u)
  BY DEF Init, RecordOK, Readable
<1>3. \A r \in Requests : CallOK(r)
  BY LabelsAre DEF Init, CallOK
<1>4. \A k \in Keys : StoredOK(k)
  BY DEF Init, StoredOK
<1>5. QED
  BY <1>1, <1>2, <1>3, <1>4 DEF CalmInv

LEMMA AppendIs ==
  ASSUME NEW s \in Seq(Parts), NEW n \in Parts
  PROVE  /\ Append(s, n) \in Seq(Parts)
         /\ Elements(Append(s, n)) = Elements(s) \cup {n}
         /\ Distinct(s) /\ n \notin Elements(s) => Distinct(Append(s, n))
<1>1. /\ Append(s, n) \in Seq(Parts) /\ Len(Append(s, n)) = Len(s) + 1 /\ Len(s) \in Nat
      /\ DOMAIN s = 1 .. Len(s) /\ DOMAIN Append(s, n) = 1 .. Len(s) + 1
      /\ \A i \in 1 .. Len(s) : Append(s, n)[i] = s[i]
      /\ Append(s, n)[Len(s) + 1] = n
  OBVIOUS
<1> DEFINE t == Append(s, n)
<1> HIDE DEF t
<1>2. /\ DOMAIN s = 1 .. Len(s) /\ DOMAIN t = 1 .. Len(s) + 1 /\ Len(s) \in Nat
      /\ \A i \in 1 .. Len(s) : t[i] = s[i]
      /\ t[Len(s) + 1] = n
  BY <1>1 DEF t
<1>3. Elements(t) = Elements(s) \cup {n}
  <2>1. ASSUME NEW x \in Elements(t) PROVE x \in Elements(s) \cup {n}
    <3>1. PICK i \in 1 .. Len(s) + 1 : x = t[i]
      BY <1>2 DEF Elements
    <3>2. CASE i = Len(s) + 1
      BY <1>2, <3>1, <3>2
    <3>3. CASE i \in 1 .. Len(s)
      BY <1>2, <3>1, <3>3 DEF Elements
    <3>4. QED
      BY <1>2, <3>2, <3>3
  <2>2. ASSUME NEW x \in Elements(s) PROVE x \in Elements(t)
    <3>1. PICK i \in 1 .. Len(s) : x = s[i]
      BY <1>2 DEF Elements
    <3>2. i \in 1 .. Len(s) + 1 /\ x = t[i]
      BY <1>2, <3>1
    <3>3. QED
      BY <1>2, <3>2 DEF Elements
  <2>3. n \in Elements(t)
    <3>1. Len(s) + 1 \in 1 .. Len(s) + 1
      BY <1>2
    <3>2. QED
      BY <1>2, <3>1 DEF Elements
  <2>4. QED
    BY <2>1, <2>2, <2>3
<1>4. ASSUME Distinct(s), n \notin Elements(s) PROVE Distinct(t)
  <2> SUFFICES ASSUME NEW i \in 1 .. Len(s) + 1, NEW j \in 1 .. Len(s) + 1, i # j PROVE t[i] # t[j]
    BY <1>2 DEF Distinct
  <2>1. \A m \in 1 .. Len(s) : t[m] = s[m] /\ s[m] # n
    BY <1>2, <1>4 DEF Elements
  <2>2. \A m \in 1 .. Len(s) + 1 : m \in 1 .. Len(s) \/ m = Len(s) + 1
    BY <1>2
  <2>3. CASE i \in 1 .. Len(s) /\ j \in 1 .. Len(s)
    BY <1>2, <1>4, <2>1, <2>3 DEF Distinct
  <2>4. CASE i = Len(s) + 1
    BY <1>2, <2>1, <2>2, <2>4
  <2>5. CASE j = Len(s) + 1
    BY <1>2, <2>1, <2>2, <2>5
  <2>6. QED
    BY <2>2, <2>3, <2>4, <2>5
<1>5. QED
  BY <1>1, <1>3, <1>4 DEF t

(* A whole copy is what CompletedIsWhole asks for.                          *)
LEMMA CopiedIsWhole ==
  ASSUME NEW u \in Uploads, NEW s \in Seq(Parts), Distinct(s), NEW object \in Bodies,
         Copied(u, s, object, Len(s))
  PROVE  /\ MadeOf(object, u)
         /\ \A n \in Elements(s) : <<u, n>> \in Elements(object)
<1>1. /\ DOMAIN object = 1 .. Len(s) /\ DOMAIN s = 1 .. Len(s)
      /\ \A i \in 1 .. Len(s) : object[i] = <<u, SortedParts(s)[i]>>
  BY DEF Copied, Bodies
<1>2. /\ SortedParts(s) \in [1 .. Len(s) -> Parts]
      /\ \A i \in 1 .. Len(s) : \E j \in 1 .. Len(s) : SortedParts(s)[j] = s[i]
      /\ \A i, j \in 1 .. Len(s) : i < j => SortedParts(s)[i] < SortedParts(s)[j]
  BY SortedPartsIs
<1> HIDE DEF Copied
<1>3. \A i \in DOMAIN object : object[i] # None /\ object[i][1] = u
  <2>1. \A i \in 1 .. Len(s) : object[i] \in Chunk
    <3>1. \A i \in 1 .. Len(s) : SortedParts(s)[i] \in Parts
      BY <1>2
    <3>2. \A i \in 1 .. Len(s) : <<u, SortedParts(s)[i]>> \in Chunk
      BY <3>1 DEF Chunk
    <3>3. QED
      BY <1>1, <3>2, Zenon
  <2>2. QED
    BY <1>1, <2>1, NoneApart
<1>4. \A i, j \in DOMAIN object : i < j => object[i][2] < object[j][2]
  BY <1>1, <1>2
<1>5. \A n \in Elements(s) : <<u, n>> \in Elements(object)
  <2> SUFFICES ASSUME NEW i \in 1 .. Len(s) PROVE <<u, s[i]>> \in Elements(object)
    BY <1>1 DEF Elements
  <2>1. PICK j \in 1 .. Len(s) : SortedParts(s)[j] = s[i]
    BY <1>2
  <2>2. object[j] = <<u, s[i]>>
    BY <1>1, <2>1
  <2>3. QED
    BY <1>1, <2>2 DEF Elements
<1>6. QED
  BY <1>3, <1>4, <1>5 DEF MadeOf

(* To keep the invariant, a step of one call has only its own upload and    *)
(* key to look after.                                                       *)
LEMMA FrameKeeps ==
  ASSUME UploadInv, NEW r \in Requests, NEW u \in Uploads, NEW k \in Keys,
         u = call[r].upload, k = upload_key[u], Frame(r),
         RecordOK(u)', CallOK(r)', StoredOK(k)'
  PROVE  CalmInv'
<1>0. /\ TypeOK /\ pc[r] # "idle" /\ pc[r] \in PartLabels \cup CompleteLabels
      /\ OneCall /\ AloneOnKey
      /\ \A v \in Uploads : upload_key[v] = None => acked[v] = {}
      /\ \A v \in Uploads : RecordOK(v)
      /\ \A q \in Requests : CallOK(q)
      /\ \A l \in Keys : StoredOK(l)
  BY DEF UploadInv, TypeInv, TypeOK, CalmInv, Frame
<1>1. /\ pc'[r] # "idle" =>
           /\ call'[r].upload = u
           /\ pc'[r] \in PartLabels <=> pc[r] \in PartLabels
           /\ pc'[r] \in CompleteLabels <=> pc[r] \in CompleteLabels
      /\ \A q \in Requests : q # r => pc'[q] = pc[q] /\ call'[q] = call[q]
      /\ upload_key' = upload_key /\ disturbed' = disturbed
      /\ \A l \in Keys : stored'[l] \in {stored[l], None, u}
      /\ pc[r] \in PartLabels => UNCHANGED <<objects, stored>>
  BY DEF Frame
<1>2. /\ \A v \in Uploads : v # u =>
           state_file'[v] = state_file[v] /\ part_file'[v] = part_file[v] /\ acked'[v] = acked[v]
      /\ \A l \in Keys : l # k => objects'[l] = objects[l] /\ stored'[l] = stored[l]
  BY DEF Frame
<1>3. \A q \in Requests : /\ pc'[q] # "idle" => pc[q] # "idle" /\ call'[q].upload = call[q].upload
                          /\ pc'[q] \in CompleteLabels => pc[q] \in CompleteLabels
  BY <1>0, <1>1, LabelsAre
<1>4. OneCall'
  <2>1. \A q \in Requests : pc'[q] # "idle" => pc[q] # "idle" /\ call'[q].upload = call[q].upload
    BY <1>3
  <2>2. QED
    BY <1>0, <1>1, <2>1 DEF OneCall
<1>5. AloneOnKey'
  <2>1. \A q \in Requests : pc'[q] \in CompleteLabels =>
          pc[q] \in CompleteLabels /\ call'[q].upload = call[q].upload
    BY <1>3, LabelsAre
  <2>2. QED
    BY <1>0, <1>1, <2>1 DEF AloneOnKey
<1>6. \A v \in Uploads : (upload_key[v] = None => acked[v] = {})'
  <2>1. upload_key[u] # None
    BY NoneApart
  <2>2. QED
    BY <1>0, <1>1, <1>2, <2>1
<1>7. \A v \in Uploads : RecordOK(v)'
  <2> SUFFICES ASSUME NEW v \in Uploads, v # u PROVE RecordOK(v)'
    OBVIOUS
  <2>1. /\ RecordOK(v) /\ state_file'[v] = state_file[v] /\ part_file'[v] = part_file[v]
        /\ acked'[v] = acked[v] /\ disturbed' = disturbed
    BY <1>0, <1>1, <1>2
  <2>2. QED
    BY <2>1 DEF RecordOK, Readable, KeptParts
<1>8. \A q \in Requests : CallOK(q)'
  <2> SUFFICES ASSUME NEW q \in Requests, q # r, pc[q] # "idle", call[q].upload \notin disturbed
               PROVE  CallOK(q)'
    BY <1>1, LabelsAre DEF CallOK
  <2>1. PICK v \in Uploads : v = call[q].upload
    BY <1>0, CallIs
  <2>2. v # u
    BY <1>0, <2>1 DEF OneCall
  <2>3. /\ CallOK(q) /\ pc'[q] = pc[q] /\ call'[q] = call[q] /\ upload_key' = upload_key
        /\ state_file'[v] = state_file[v] /\ part_file'[v] = part_file[v]
        /\ acked'[v] = acked[v] /\ disturbed' = disturbed
    BY <1>0, <1>1, <1>2, <2>2
  <2>4. upload_key[v] \in Keys
    BY <2>1, KeyOf DEF UploadInv
  <2>5. stored[upload_key[v]] # v => stored'[upload_key[v]] # v
    BY <1>1, <2>2, <2>4, NoneApart
  <2>6. CASE pc[q] \in PartLabels
    <3>1. PartOK(q)
      BY <2>1, <2>3, <2>6 DEF CallOK
    <3>2. PartOK(q)'
      BY <2>1, <2>3, <2>5, <3>1 DEF PartOK, KeptParts
    <3>3. QED
      BY <2>3, <2>6, <3>2, LabelsAre DEF CallOK
  <2>7. CASE pc[q] \in CompleteLabels
    <3>1. CompleteOK(q)
      BY <2>1, <2>3, <2>7 DEF CallOK
    <3>2. objects'[upload_key[v]] = objects[upload_key[v]]
      <4>1. CASE pc[r] \in PartLabels
        BY <1>1, <4>1
      <4>2. CASE pc[r] \in CompleteLabels
        <5>1. upload_key[v] # k
          BY <1>0, <2>1, <2>7, <4>2 DEF AloneOnKey
        <5>2. QED
          BY <1>2, <2>4, <5>1
      <4>3. QED
        BY <1>0, <4>1, <4>2
    <3>3. CompleteOK(q)'
      BY <2>1, <2>3, <3>1, <3>2 DEF CompleteOK, KeptParts, Copied
    <3>4. QED
      BY <2>3, <2>7, <3>3, LabelsAre DEF CallOK
  <2>8. QED
    BY <1>0, <2>6, <2>7 DEF TypeOK
<1>9. \A l \in Keys : StoredOK(l)'
  <2> SUFFICES ASSUME NEW l \in Keys, l # k, stored[l] # None PROVE StoredOK(l)'
    BY <1>2 DEF StoredOK
  <2>1. PICK w \in Uploads : w = stored[l]
    BY <1>0 DEF TypeOK
  <2>2. /\ StoredOK(l) /\ upload_key[w] = l
    BY <1>0, <2>1 DEF StoredOK
  <2>3. acked'[w] = acked[w] /\ objects'[l] = objects[l] /\ stored'[l] = w /\ upload_key' = upload_key
        /\ disturbed' = disturbed
    BY <1>1, <1>2, <2>1, <2>2
  <2>4. ASSUME w \notin disturbed, NEW q \in Requests, pc'[q] \in CompleteLabels, upload_key[call'[q].upload] = l
        PROVE  pc'[q] = "comp_create"
    <3>1. q # r
      BY <1>1, <2>4, LabelsAre
    <3>2. pc'[q] = pc[q] /\ call'[q] = call[q]
      BY <1>1, <3>1
    <3>3. QED
      BY <2>1, <2>2, <2>4, <3>2 DEF StoredOK
  <2>5. w \notin disturbed => MadeOf(objects[l], w) /\ \A n \in acked[w] : <<w, n>> \in Elements(objects[l])
    BY <2>1, <2>2 DEF StoredOK
  <2>6. QED
    BY <2>2, <2>3, <2>4, <2>5 DEF StoredOK
<1>10. QED
  BY <1>4, <1>5, <1>6, <1>7, <1>8, <1>9 DEF CalmInv

(* What makes RecordOK, CallOK and StoredOK hold after a step.              *)
LEMMA RecordAfter ==
  ASSUME NEW u \in Uploads, NEW s, state_file'[u].parts = s, Distinct(s),
         acked'[u] \subseteq Elements(s), \A n \in Elements(s) : part_file'[u][n] # "empty"
  PROVE  RecordOK(u)'
  BY DEF RecordOK, KeptParts

LEMMA PartAfter ==
  ASSUME NEW r \in Requests, NEW u \in Uploads, NEW s, NEW n,
         call'[r].upload = u, call'[r].parts = s, call'[r].part = n, pc'[r] \in PartLabels,
         Distinct(s), acked'[u] \subseteq Elements(s), \A m \in Elements(s) : part_file'[u][m] # "empty",
         n \notin Elements(s), stored'[upload_key'[u]] # u,
         pc'[r] \in {"part_dir", "part_create", "part_write", "part_truncate"} => state_file'[u].parts = s,
         pc'[r] = "part_save" => state_file'[u] = Truncated,
         pc'[r] = "part_reply" => state_file'[u].parts = Append(s, n),
         pc'[r] \in {"part_truncate", "part_save", "part_reply"} => part_file'[u][n] # "empty"
  PROVE  CallOK(r)'
<1>1. PartOK(r)'
  BY DEF PartOK, KeptParts
<1>2. QED
  BY <1>1, LabelsAre DEF CallOK

LEMMA CompleteAfter ==
  ASSUME NEW r \in Requests, NEW u \in Uploads, NEW s, NEW k \in Keys,
         call'[r].upload = u, call'[r].parts = s, pc'[r] \in CompleteLabels, upload_key'[u] = k,
         Distinct(s), acked'[u] \subseteq Elements(s), \A m \in Elements(s) : part_file'[u][m] # "empty",
         pc'[r] = "comp_create" => call'[r].next = 1 /\ call'[r].size = 0,
         pc'[r] = "comp_copy" => /\ call'[r].size = call'[r].next - 1 /\ call'[r].next <= Len(s) + 1
                                 /\ Copied(u, s, objects'[k], call'[r].size),
         pc'[r] \in {"comp_state", "comp_reply"} => Copied(u, s, objects'[k], Len(s))
  PROVE  CallOK(r)'
<1>1. CompleteOK(r)'
  BY DEF CompleteOK, KeptParts, Copied
<1>2. QED
  BY <1>1, LabelsAre DEF CallOK

LEMMA IdleAfter ==
  ASSUME NEW r \in Requests, pc'[r] = "idle" PROVE CallOK(r)'
  BY LabelsAre DEF CallOK

LEMMA DisturbedAfter ==
  ASSUME TypeInv, NEW r \in Requests, NEW u \in Uploads, u = call[r].upload, u \in disturbed, Frame(r)
  PROVE  RecordOK(u)' /\ CallOK(r)'
  BY LabelsAre DEF RecordOK, CallOK, Frame

LEMMA PartStepKeeps ==
  ASSUME UploadInv, NEW r \in Requests, NEW u \in Uploads, u = call[r].upload, PartStep(r), Frame(r)
  PROVE  RecordOK(u)' /\ CallOK(r)'
<1> SUFFICES ASSUME u \notin disturbed PROVE RecordOK(u)' /\ CallOK(r)'
  BY DisturbedAfter DEF UploadInv
<1> DEFINE s == call[r].parts
           n == call[r].part
<1>0. TypeOK
  BY DEF UploadInv, TypeInv
<1>1. pc[r] \in PartLabels
  BY DEF PartStep, PartMakeDir, PartCreate, PartWrite, PartTruncateState, PartSaveState, PartReply, PartLabels
<1>2. s \in Seq(Parts) /\ n \in Parts
  BY <1>0, <1>1, LabelsAre, CallIs
<1>3. PartOK(r) /\ CallOK(r) /\ RecordOK(u)
  BY <1>1 DEF UploadInv, CalmInv, CallOK
<1>4. /\ Distinct(s) /\ acked[u] \subseteq Elements(s) /\ n \notin Elements(s)
      /\ \A m \in Elements(s) : part_file[u][m] # "empty"
      /\ stored[upload_key[u]] # u
  BY <1>3 DEF PartOK, KeptParts
<1>5. /\ pc[r] \in {"part_dir", "part_create", "part_write", "part_truncate"} => state_file[u].parts = s
      /\ pc[r] = "part_save" => state_file[u] = Truncated
      /\ pc[r] = "part_reply" => state_file[u].parts = Append(s, n)
      /\ pc[r] \in {"part_truncate", "part_save", "part_reply"} => part_file[u][n] # "empty"
  BY <1>3 DEF PartOK
<1>6. /\ state_file \in [Uploads -> StateFile \cup {None}]
      /\ part_file \in [Uploads -> [Parts -> {"absent", "empty", "whole"}]]
      /\ acked \in [Uploads -> SUBSET Parts]
      /\ Elements(s) \subseteq Parts
  BY <1>0, <1>2 DEF TypeOK, Elements
<1>7. pc'[r] # "idle" => call'[r].upload = u /\ call'[r].parts = s /\ call'[r].part = n
  BY DEF Frame
<1>8. /\ upload_key' = upload_key /\ stored' = stored
      /\ pc'[r] # "idle" => pc'[r] \in PartLabels
  BY <1>1 DEF Frame
<1> HIDE DEF s, n
<1>9. CASE PartMakeDir(r)
  <2>1. /\ pc[r] = "part_dir" /\ pc'[r] = "part_create"
        /\ UNCHANGED <<state_file, part_file, acked>>
    BY <1>0, <1>9, GotoIs DEF PartMakeDir, history
  <2>2. RecordOK(u)'
    BY <1>4, <1>5, <2>1, RecordAfter
  <2>3. CallOK(r)'
    BY <1>4, <1>5, <1>7, <1>8, <2>1, PartAfter
  <2>4. QED
    BY <2>2, <2>3
<1>10. CASE PartCreate(r)
  <2>1. pc[r] = "part_create" /\ UNCHANGED <<state_file, acked>>
    BY <1>10 DEF PartCreate, history
  <2>2. CASE Goto(r, "part_write") /\ part_file' = [part_file EXCEPT ![u][n] = "empty"]
    <3>1. pc'[r] = "part_write" /\ \A m \in Parts : m # n => part_file'[u][m] = part_file[u][m]
      BY <1>0, <1>2, <1>6, <2>2, GotoIs
    <3>2. \A m \in Elements(s) : part_file'[u][m] # "empty"
      BY <1>4, <1>6, <3>1
    <3>3. RecordOK(u)'
      BY <1>4, <1>5, <2>1, <3>2, RecordAfter
    <3>4. CallOK(r)'
      BY <1>4, <1>5, <1>7, <1>8, <2>1, <3>1, <3>2, PartAfter
    <3>5. QED
      BY <3>3, <3>4
  <2>3. CASE Finish(r) /\ UNCHANGED part_file
    <3>1. CallOK(r)'
      BY <1>0, <2>3, FinishIs, IdleAfter
    <3>2. RecordOK(u)'
      BY <1>4, <1>5, <2>1, <2>3, RecordAfter
    <3>3. QED
      BY <3>1, <3>2
  <2>4. QED
    BY <1>10, <2>2, <2>3 DEF PartCreate, n
<1>11. CASE PartWrite(r)
  <2>1. /\ pc[r] = "part_write" /\ pc'[r] = "part_truncate" /\ UNCHANGED <<state_file, acked>>
        /\ part_file' = IF part_file[u][n] = "absent" THEN part_file ELSE [part_file EXCEPT ![u][n] = "whole"]
    BY <1>0, <1>11, GotoIs DEF PartWrite, history, n
  <2>2. \A m \in Parts : /\ m # n => part_file'[u][m] = part_file[u][m]
                         /\ m = n => part_file'[u][m] # "empty"
    <3>1. CASE part_file[u][n] = "absent"
      BY <2>1, <3>1
    <3>2. CASE part_file' = [part_file EXCEPT ![u][n] = "whole"]
      BY <1>2, <1>6, <3>2
    <3>3. QED
      BY <2>1, <3>1, <3>2
  <2>3. \A m \in Elements(s) : part_file'[u][m] # "empty"
    BY <1>4, <1>6, <2>2
  <2>4. RecordOK(u)'
    BY <1>4, <1>5, <2>1, <2>3, RecordAfter
  <2>5. part_file'[u][n] # "empty"
    BY <1>2, <2>2
  <2>6. CallOK(r)'
    BY <1>4, <1>5, <1>7, <1>8, <2>1, <2>3, <2>5, PartAfter
  <2>7. QED
    BY <2>4, <2>6
<1>12. CASE PartTruncateState(r)
  <2>1. /\ pc[r] = "part_truncate" /\ pc'[r] = "part_save" /\ UNCHANGED <<part_file, acked>>
        /\ state_file' = [state_file EXCEPT ![u] = Truncated]
    BY <1>0, <1>12, GotoIs DEF PartTruncateState, history
  <2>2. state_file'[u] = Truncated
    BY <1>6, <2>1
  <2>3. RecordOK(u)'
    BY <2>2 DEF RecordOK, Readable, Truncated
  <2>4. CallOK(r)'
    BY <1>4, <1>5, <1>7, <1>8, <2>1, <2>2, PartAfter
  <2>5. QED
    BY <2>3, <2>4
<1>13. CASE PartSaveState(r)
  <2>1. /\ pc[r] = "part_save" /\ pc'[r] = "part_reply" /\ UNCHANGED <<part_file, acked>>
        /\ state_file' = [state_file EXCEPT ![u] = Overlay(state_file[u], Append(s, n))]
    BY <1>0, <1>6, <1>13, GotoIs DEF PartSaveState, history, s, n
  <2>2. state_file'[u] = Overlay(Truncated, Append(s, n))
    BY <1>5, <1>6, <2>1
  <2>3. Truncated \in StateFile /\ Append(s, n) \in Seq(Parts)
    BY <1>2 DEF Truncated, StateFile
  <2>4. state_file'[u] = [parts |-> Append(s, n), valid |-> TRUE]
    BY <2>2, <2>3, OverlayIs
  <2>5. state_file'[u].parts = Append(s, n)
    BY <2>4
  <2>6. /\ Distinct(Append(s, n)) /\ Elements(Append(s, n)) = Elements(s) \cup {n}
    BY <1>2, <1>4, AppendIs
  <2>7. /\ acked'[u] \subseteq Elements(Append(s, n))
        /\ \A m \in Elements(Append(s, n)) : part_file'[u][m] # "empty"
    BY <1>4, <1>5, <2>1, <2>6
  <2>8. RecordOK(u)'
    BY <2>5, <2>6, <2>7, RecordAfter
  <2>9. CallOK(r)'
    BY <1>4, <1>5, <1>7, <1>8, <2>1, <2>5, PartAfter
  <2>10. QED
    BY <2>8, <2>9
<1>14. CASE PartReply(r)
  <2>1. /\ pc[r] = "part_reply" /\ Finish(r) /\ UNCHANGED <<state_file, part_file>>
        /\ acked' = [acked EXCEPT ![u] = acked[u] \cup {n}]
    BY <1>6, <1>14 DEF PartReply, disk, n
  <2>2. Distinct(Append(s, n)) /\ Elements(Append(s, n)) = Elements(s) \cup {n}
    BY <1>2, <1>4, AppendIs
  <2>3. acked'[u] \subseteq Elements(Append(s, n))
    BY <1>4, <1>6, <2>1, <2>2
  <2>4. \A m \in Elements(Append(s, n)) : part_file'[u][m] # "empty"
    BY <1>4, <1>5, <2>1, <2>2
  <2>5. RecordOK(u)'
    BY <1>5, <2>1, <2>2, <2>3, <2>4, RecordAfter
  <2>6. CallOK(r)'
    BY <1>0, <2>1, FinishIs, IdleAfter
  <2>7. QED
    BY <2>5, <2>6
<1>15. QED
  BY <1>9, <1>10, <1>11, <1>12, <1>13, <1>14 DEF PartStep

(* A part leaves alone what its key has stored.                             *)
LEMMA PartStepKeepsStored ==
  ASSUME UploadInv, NEW r \in Requests, NEW u \in Uploads, NEW k \in Keys,
         u = call[r].upload, k = upload_key[u], Frame(r), pc[r] \in PartLabels
  PROVE  StoredOK(k)'
<1>1. /\ TypeOK /\ StoredOK(k) /\ CallOK(r)
  BY DEF UploadInv, TypeInv, CalmInv
<1>2. /\ upload_key' = upload_key /\ disturbed' = disturbed /\ objects' = objects /\ stored' = stored
      /\ \A q \in Requests : q # r => pc'[q] = pc[q] /\ call'[q] = call[q]
      /\ pc'[r] \notin CompleteLabels
      /\ \A v \in Uploads : v # u => acked'[v] = acked[v]
  BY LabelsAre DEF Frame
<1> SUFFICES ASSUME stored[k] # None PROVE StoredOK(k)'
  BY <1>2 DEF StoredOK
<1>3. PICK w \in Uploads : w = stored[k]
  BY <1>1 DEF TypeOK
<1>4. ASSUME w \notin disturbed
      PROVE  /\ \A q \in Requests : pc'[q] \in CompleteLabels /\ upload_key[call'[q].upload] = k => pc'[q] = "comp_create"
             /\ MadeOf(objects[k], w)
             /\ \A n \in acked'[w] : <<w, n>> \in Elements(objects[k])
  <2>1. w # u
    BY <1>1, <1>3, <1>4 DEF CallOK, PartOK
  <2>2. acked'[w] = acked[w]
    BY <1>2, <2>1
  <2>3. QED
    BY <1>1, <1>2, <1>3, <1>4, <2>2 DEF StoredOK
<1>5. upload_key[w] = k
  BY <1>1, <1>3 DEF StoredOK
<1>6. QED
  BY <1>2, <1>3, <1>4, <1>5 DEF StoredOK

LEMMA CompleteStepKeeps ==
  ASSUME UploadInv, NEW r \in Requests, NEW u \in Uploads, NEW k \in Keys,
         u = call[r].upload, k = upload_key[u], CompleteStep(r), Frame(r)
  PROVE  RecordOK(u)' /\ CallOK(r)'
<1> SUFFICES ASSUME u \notin disturbed PROVE RecordOK(u)' /\ CallOK(r)'
  BY DisturbedAfter DEF UploadInv
<1> DEFINE s == call[r].parts
           next == call[r].next
           size == call[r].size
           n == SortedParts(s)[next]
<1>0. TypeOK
  BY DEF UploadInv, TypeInv
<1>1. pc[r] \in CompleteLabels
  BY DEF CompleteStep, CompleteCreate, CompleteCopy, CompleteRemoveParts, CompleteRemoveState, CompleteReply,
         CompleteLabels
<1>2. s \in Seq(Parts) /\ next \in Nat \ {0} /\ size \in Nat /\ Len(s) \in Nat
  BY <1>0, <1>1, LabelsAre, CallIs
<1>3. CompleteOK(r) /\ RecordOK(u)
  BY <1>1 DEF UploadInv, CalmInv, CallOK
<1>4. /\ Distinct(s) /\ acked[u] \subseteq Elements(s)
      /\ \A m \in Elements(s) : part_file[u][m] # "empty"
  BY <1>3 DEF CompleteOK, KeptParts
<1>5. /\ pc[r] = "comp_create" => next = 1 /\ size = 0
      /\ pc[r] = "comp_copy" => /\ size = next - 1 /\ next <= Len(s) + 1
                                /\ Copied(u, s, objects[k], size)
      /\ pc[r] \in {"comp_state", "comp_reply"} => Copied(u, s, objects[k], Len(s))
  BY <1>3 DEF CompleteOK
<1>6. /\ state_file \in [Uploads -> StateFile \cup {None}]
      /\ part_file \in [Uploads -> [Parts -> {"absent", "empty", "whole"}]]
      /\ objects \in [Keys -> Bodies \cup {None}]
      /\ call \in [Requests -> Call \cup {None}]
      /\ Elements(s) \subseteq Parts
  BY <1>0, <1>2 DEF TypeOK, Elements, Bodies
<1>7. pc'[r] # "idle" => call'[r].upload = u /\ call'[r].parts = s
  BY DEF Frame
<1>8. /\ upload_key'[u] = k
      /\ pc'[r] # "idle" => pc'[r] \in CompleteLabels
  BY <1>1 DEF Frame
(* A part file can only go: the record stays as good as it was.             *)
<1>9. ASSUME UNCHANGED acked, state_file' = state_file \/ state_file'[u] = None,
             \A m \in Parts : part_file'[u][m] \in {part_file[u][m], "absent"}
      PROVE  /\ RecordOK(u)'
             /\ acked'[u] \subseteq Elements(s) /\ \A m \in Elements(s) : part_file'[u][m] # "empty"
  <2>1. \A m \in Elements(s) : part_file'[u][m] # "empty"
    BY <1>4, <1>6, <1>9
  <2>2. RecordOK(u)'
    <3>1. CASE state_file'[u] = None
      BY <3>1 DEF RecordOK, Readable
    <3>2. CASE state_file' = state_file /\ Readable(u)
      <4>1. KeptParts(u, state_file[u].parts)
        BY <1>3, <3>2 DEF RecordOK
      <4>2. state_file[u].parts \in Seq(Parts)
        BY <1>0, <3>2, RecordedIs DEF Readable
      <4>3. Elements(state_file[u].parts) \subseteq Parts
        BY <4>2 DEF Elements
      <4>4. \A m \in Elements(state_file[u].parts) : part_file'[u][m] # "empty"
        BY <1>9, <4>1, <4>3 DEF KeptParts
      <4>5. QED
        BY <1>9, <3>2, <4>1, <4>4, RecordAfter DEF KeptParts
    <3>3. CASE state_file' = state_file /\ ~Readable(u)
      BY <3>3 DEF RecordOK, Readable
    <3>4. QED
      BY <1>9, <3>1, <3>2, <3>3
  <2>3. QED
    BY <1>4, <1>9, <2>1, <2>2
<1> HIDE DEF s, next, size
<1>10. CASE CompleteCreate(r)
  <2>1. /\ pc[r] = "comp_create" /\ pc'[r] = "comp_copy"
        /\ objects' = [objects EXCEPT ![k] = <<>>]
        /\ UNCHANGED <<state_file, part_file, call, acked>>
    BY <1>0, <1>10, GotoIs DEF CompleteCreate
  <2>2. size = next - 1 /\ next <= Len(s) + 1 /\ size = 0
    BY <1>2, <1>5, <2>1
  <2>3. Copied(u, s, objects'[k], 0)
    <3>1. objects'[k] = <<>> /\ <<>> \in Bodies
      BY <1>6, <2>1 DEF Bodies
    <3>2. QED
      BY <3>1 DEF Copied
  <2>4. CallOK(r)'
    <3>1. call'[r].next = next /\ call'[r].size = size
      BY <2>1 DEF next, size
    <3>2. QED
      BY <1>4, <1>7, <1>8, <1>9, <2>1, <2>2, <2>3, <3>1, CompleteAfter
  <2>5. QED
    BY <1>9, <2>1, <2>4
<1>11. CASE CompleteCopy(r)
  <2>0. /\ pc[r] = "comp_copy" /\ next <= Len(s) /\ UNCHANGED <<upload_key, state_file, part_file, acked>>
    BY <1>11 DEF CompleteCopy, history, next, s
  <2>a. RecordOK(u)' /\ acked'[u] \subseteq Elements(s) /\ \A m \in Elements(s) : part_file'[u][m] # "empty"
    BY <1>9, <2>0
  <2>1. n \in Elements(s)
    BY <1>2, <2>0, SortedPartsIs
  <2>2. part_file[u][n] # "empty"
    BY <1>4, <2>1
  <2> HIDE DEF n
  <2>3. CASE Finish(r)
    BY <1>0, <2>3, <2>a, FinishIs, IdleAfter
  <2>4. CASE /\ objects' = [objects EXCEPT ![k] = WriteAt(objects[k], size, <<u, n>>)]
             /\ call' = [call EXCEPT ![r].next = @ + 1, ![r].size = @ + 1]
             /\ UNCHANGED pc
    <3>1. /\ call'[r].next = next + 1 /\ call'[r].size = size + 1
      <4>1. call[r] \in Call
        BY <1>0, <2>0, CallIs
      <4>2. call'[r] = [call[r] EXCEPT !.next = next + 1, !.size = size + 1]
        BY <1>6, <2>4 DEF next, size
      <4>3. QED
        BY <4>1, <4>2 DEF Call
    <3>2. /\ objects[k] \in Bodies /\ Len(objects[k]) = size
          /\ \A i \in 1 .. size : objects[k][i] = <<u, SortedParts(s)[i]>>
      BY <1>5, <2>0 DEF Copied
    <3>3. <<u, n>> \in Chunk
      BY <1>6, <2>1 DEF Chunk
    <3>4. objects'[k] = WriteAt(objects[k], size, <<u, n>>)
      BY <1>6, <2>4
    <3>5. /\ objects'[k] \in Bodies /\ Len(objects'[k]) = size + 1
          /\ \A i \in 1 .. size : objects'[k][i] = objects[k][i]
          /\ objects'[k][size + 1] = <<u, n>>
      <4> DEFINE old == objects[k]
                 c == <<u, n>>
                 new == WriteAt(old, size, c)
      <4>1. old \in Bodies /\ Len(old) = size /\ c \in Chunk /\ size \in Nat
        BY <1>2, <3>2, <3>3
      <4> HIDE DEF old, c
      <4>2. /\ new \in Bodies /\ Len(new) = size + 1 /\ new[size + 1] = c
            /\ \A i \in 1 .. size : new[i] = old[i]
        BY <4>1, WriteAtIs
      <4>3. objects'[k] = new
        BY <3>4 DEF old, c
      <4> HIDE DEF new
      <4>4. QED
        BY <4>2, <4>3 DEF old, c
    <3>6. size + 1 = next
      BY <1>2, <1>5, <2>0
    <3>7. Copied(u, s, objects'[k], size + 1)
      <4>1. \A i \in 1 .. size + 1 : i \in 1 .. size \/ i = size + 1
        BY <1>2
      <4>2. \A i \in 1 .. size + 1 : objects'[k][i] = <<u, SortedParts(s)[i]>>
        BY <3>2, <3>5, <3>6, <4>1 DEF n
      <4>3. QED
        BY <3>5, <4>2 DEF Copied
    <3>8. call'[r].size = call'[r].next - 1 /\ call'[r].next <= Len(s) + 1
      BY <1>2, <2>0, <3>1, <3>6
    <3>9. pc'[r] = "comp_copy"
      BY <2>0, <2>4
    <3>10. CallOK(r)'
      BY <1>4, <1>7, <1>8, <2>a, <3>1, <3>7, <3>8, <3>9, CompleteAfter
    <3>11. QED
      BY <2>a, <3>10
  <2>5. QED
    BY <1>11, <2>2, <2>3, <2>4 DEF CompleteCopy, n, s, next, size
<1>12. CASE CompleteRemoveParts(r)
  <2>0. /\ pc[r] = "comp_copy" /\ next > Len(s) /\ UNCHANGED <<state_file, objects, acked>>
    BY <1>12 DEF CompleteRemoveParts, history, next, s
  <2>1. \A m \in Parts : part_file'[u][m] \in {part_file[u][m], "absent"}
    <3>1. \E S \in SUBSET Parts :
            part_file' = [part_file EXCEPT ![u] = [m \in Parts |-> IF m \in S THEN "absent" ELSE part_file[u][m]]]
      <4>1. CASE part_file' = [part_file EXCEPT ![u] = [m \in Parts |-> "absent"]]
        <5>1. [m \in Parts |-> "absent"] = [m \in Parts |-> IF m \in Parts THEN "absent" ELSE part_file[u][m]]
          OBVIOUS
        <5>2. QED
          BY <4>1, <5>1
      <4>2. CASE \E S \in SUBSET Parts :
                   part_file' = [part_file EXCEPT ![u] = [m \in Parts |-> IF m \in S THEN "absent" ELSE @[m]]]
        BY <1>6, <4>2
      <4>3. QED
        BY <1>12, <4>1, <4>2 DEF CompleteRemoveParts
    <3>2. PICK S \in SUBSET Parts :
            part_file' = [part_file EXCEPT ![u] = [m \in Parts |-> IF m \in S THEN "absent" ELSE part_file[u][m]]]
      BY <3>1
    <3>3. part_file'[u] = [m \in Parts |-> IF m \in S THEN "absent" ELSE part_file[u][m]]
      BY <1>6, <3>2
    <3>4. QED
      BY <3>3
  <2>2. /\ RecordOK(u)'
        /\ acked'[u] \subseteq Elements(s) /\ \A m \in Elements(s) : part_file'[u][m] # "empty"
    BY <1>9, <2>0, <2>1
  <2>3. CASE Finish(r)
    BY <1>0, <2>2, <2>3, FinishIs, IdleAfter
  <2>4. CASE Goto(r, "comp_state") /\ UNCHANGED call
    <3>1. pc'[r] = "comp_state"
      BY <1>0, <2>4, GotoIs
    <3>2. size = Len(s)
      BY <1>2, <1>5, <2>0
    <3>3. Copied(u, s, objects'[k], Len(s))
      BY <1>5, <2>0, <3>2
    <3>4. CallOK(r)'
      BY <1>4, <1>7, <1>8, <2>2, <3>1, <3>3, CompleteAfter
    <3>5. QED
      BY <2>2, <3>4
  <2>5. QED
    BY <1>12, <2>3, <2>4 DEF CompleteRemoveParts
<1>13. CASE CompleteRemoveState(r)
  <2>1. /\ pc[r] = "comp_state" /\ pc'[r] = "comp_reply" /\ UNCHANGED <<part_file, objects, acked>>
        /\ state_file' = state_file \/ state_file' = [state_file EXCEPT ![u] = None]
    BY <1>0, <1>13, GotoIs DEF CompleteRemoveState, history
  <2>2. state_file' = state_file \/ state_file'[u] = None
    BY <1>6, <2>1
  <2>3. /\ RecordOK(u)'
        /\ acked'[u] \subseteq Elements(s) /\ \A m \in Elements(s) : part_file'[u][m] # "empty"
    BY <1>9, <2>1, <2>2
  <2>4. Copied(u, s, objects'[k], Len(s))
    BY <1>5, <2>1
  <2>5. CallOK(r)'
    BY <1>4, <1>7, <1>8, <2>1, <2>3, <2>4, CompleteAfter
  <2>6. QED
    BY <2>3, <2>5
<1>14. CASE CompleteReply(r)
  <2>1. UNCHANGED <<state_file, part_file, acked>> /\ Finish(r)
    BY <1>14 DEF CompleteReply, disk
  <2>2. CallOK(r)'
    BY <1>0, <2>1, FinishIs, IdleAfter
  <2>3. QED
    BY <1>9, <2>1, <2>2
<1>15. QED
  BY <1>10, <1>11, <1>12, <1>13, <1>14 DEF CompleteStep

(* The object under k is promised again only when a complete ends.          *)
LEMMA CompleteStepKeepsStored ==
  ASSUME UploadInv, NEW r \in Requests, NEW u \in Uploads, NEW k \in Keys,
         u = call[r].upload, k = upload_key[u], CompleteStep(r), Frame(r)
  PROVE  StoredOK(k)'
<1>0. TypeOK /\ AloneOnKey /\ StoredOK(k) /\ CallOK(r) /\ stored \in [Keys -> Uploads \cup {None}]
  BY DEF UploadInv, TypeInv, CalmInv, TypeOK
<1>1. pc[r] \in CompleteLabels
  BY DEF CompleteStep, CompleteCreate, CompleteCopy, CompleteRemoveParts, CompleteRemoveState, CompleteReply,
         CompleteLabels
<1>2. /\ upload_key' = upload_key /\ disturbed' = disturbed
      /\ \A q \in Requests : q # r => pc'[q] = pc[q] /\ call'[q] = call[q]
  BY DEF Frame
<1>3. CASE CompleteCreate(r)
  <2>1. stored' = [stored EXCEPT ![k] = None]
    BY <1>3 DEF CompleteCreate
  <2>2. stored'[k] = None
    BY <1>0, <2>1
  <2>3. QED
    BY <2>2 DEF StoredOK
<1>4. CASE CompleteCopy(r) \/ CompleteRemoveParts(r) \/ CompleteRemoveState(r)
  <2>1. UNCHANGED stored /\ pc[r] # "comp_create"
    BY <1>4 DEF CompleteCopy, CompleteRemoveParts, CompleteRemoveState, history
  <2>2. stored[k] # None => upload_key[stored[k]] = k /\ stored[k] \in disturbed
    BY <1>0, <1>1, <2>1 DEF StoredOK
  <2>3. QED
    BY <1>2, <2>1, <2>2 DEF StoredOK
<1>5. CASE CompleteReply(r)
  <2> DEFINE s == call[r].parts
  <2>1. /\ pc[r] = "comp_reply" /\ Finish(r) /\ UNCHANGED <<objects, acked>>
        /\ stored' = [stored EXCEPT ![k] = u]
    BY <1>5 DEF CompleteReply, disk
  <2>2. stored'[k] = u
    BY <1>0, <2>1
  <2>3. pc'[r] = "idle" /\ pc'[r] \notin CompleteLabels
    BY <1>0, <2>1, FinishIs, LabelsAre
  <2>4. ASSUME u \notin disturbed
        PROVE  /\ \A q \in Requests : pc'[q] \in CompleteLabels /\ upload_key[call'[q].upload] = k => pc'[q] = "comp_create"
               /\ MadeOf(objects[k], u)
               /\ \A n \in acked[u] : <<u, n>> \in Elements(objects[k])
    <3>1. CompleteOK(r)
      BY <1>0, <1>1, <2>4 DEF CallOK
    <3>2. Copied(u, s, objects[k], Len(s)) /\ Distinct(s) /\ acked[u] \subseteq Elements(s)
      BY <2>1, <3>1 DEF CompleteOK, KeptParts
    <3>3. s \in Seq(Parts) /\ objects[k] \in Bodies
      BY <1>0, <1>1, <3>2, CallIs, LabelsAre DEF Copied
    <3> HIDE DEF s
    <3>4. MadeOf(objects[k], u) /\ \A n \in Elements(s) : <<u, n>> \in Elements(objects[k])
      BY <3>2, <3>3, CopiedIsWhole
    <3>5. ASSUME NEW q \in Requests, pc'[q] \in CompleteLabels, upload_key[call'[q].upload] = k
          PROVE  pc'[q] = "comp_create"
      <4>1. q # r
        BY <2>3, <3>5
      <4>2. pc[q] \in CompleteLabels /\ upload_key[call[q].upload] = k
        BY <1>2, <3>5, <4>1
      <4>3. q = r
        BY <1>0, <1>1, <2>4, <4>2 DEF AloneOnKey
      <4>4. QED
        BY <4>1, <4>3
    <3>6. QED
      BY <3>2, <3>4, <3>5
  <2>5. QED
    BY <1>2, <2>1, <2>2, <2>4 DEF StoredOK
<1>6. QED
  BY <1>3, <1>4, <1>5 DEF CompleteStep

LEMMA AbortKeeps ==
  ASSUME UploadInv, NEW r \in Requests, NEW u \in Uploads, NEW k \in Keys,
         u = call[r].upload, k = upload_key[u], Abort(r)
  PROVE  RecordOK(u)' /\ CallOK(r)' /\ StoredOK(k)'
<1>0. TypeOK /\ RecordOK(u) /\ StoredOK(k)
  BY DEF UploadInv, TypeInv, CalmInv
<1>1. Finish(r) /\ UNCHANGED <<upload_key, state_file, part_file, objects, acked, disturbed, stored>>
  BY DEF Abort, disk, history
<1>2. /\ pc'[r] = "idle" /\ pc'[r] \notin CompleteLabels
      /\ \A q \in Requests : q # r => pc'[q] = pc[q] /\ call'[q] = call[q]
  BY <1>0, <1>1, FinishIs, LabelsAre
<1>3. RecordOK(u)'
  BY <1>0, <1>1 DEF RecordOK, Readable, KeptParts
<1>4. CallOK(r)'
  BY <1>2, IdleAfter
<1>5. StoredOK(k)'
  <2>1. \A q \in Requests : pc'[q] \in CompleteLabels => pc[q] \in CompleteLabels /\ pc'[q] = pc[q] /\ call'[q] = call[q]
    BY <1>2
  <2>2. QED
    BY <1>0, <1>1, <2>1 DEF StoredOK
<1>6. QED
  BY <1>3, <1>4, <1>5

LEMMA CallStepKeeps ==
  ASSUME UploadInv, NEW r \in Requests, PartStep(r) \/ CompleteStep(r) \/ Abort(r)
  PROVE  CalmInv'
<1>1. Frame(r) /\ pc[r] # "idle"
  BY StepFrame DEF UploadInv, Frame
<1>2. PICK u \in Uploads, k \in Keys : u = call[r].upload /\ k = upload_key[u]
  BY <1>1, CallIs, KeyOf DEF UploadInv, TypeInv
<1>3. RecordOK(u)' /\ CallOK(r)' /\ StoredOK(k)'
  <2>1. CASE PartStep(r)
    <3>1. pc[r] \in PartLabels
      BY <2>1
       DEF PartStep, PartMakeDir, PartCreate, PartWrite, PartTruncateState, PartSaveState,
           PartReply,
                  PartLabels
    <3>2. QED
      BY <1>1, <1>2, <2>1, <3>1, PartStepKeeps, PartStepKeepsStored
  <2>2. CASE CompleteStep(r)
    BY <1>1, <1>2, <2>2, CompleteStepKeeps, CompleteStepKeepsStored
  <2>3. CASE Abort(r)
    BY <1>2, <2>3, AbortKeeps
  <2>4. QED
    BY <2>1, <2>2, <2>3
<1>4. QED
  BY <1>1, <1>2, <1>3, FrameKeeps

LEMMA CreateKeeps ==
  ASSUME UploadInv, NEW u \in Uploads, NEW k \in Keys, CreateMultipartUpload(u, k)
  PROVE  CalmInv'
<1>0. /\ TypeOK /\ OneCall /\ AloneOnKey
      /\ \A v \in Uploads : upload_key[v] = None => acked[v] = {}
      /\ \A v \in Uploads : RecordOK(v)
      /\ \A q \in Requests : CallOK(q)
      /\ \A l \in Keys : StoredOK(l)
  BY DEF UploadInv, TypeInv, CalmInv
<1>1. /\ upload_key[u] = None
      /\ upload_key' = [upload_key EXCEPT ![u] = k]
      /\ state_file' = [state_file EXCEPT ![u] = [parts |-> <<>>, valid |-> TRUE]]
      /\ UNCHANGED <<part_file, objects, pc, call, acked, disturbed, stored>>
  BY DEF CreateMultipartUpload, history
<1>2. \A v \in Uploads : /\ upload_key'[v] = IF v = u THEN k ELSE upload_key[v]
                         /\ v # u => state_file'[v] = state_file[v]
  BY <1>0, <1>1 DEF TypeOK
<1>3. \A q \in Requests : pc[q] # "idle" =>
        /\ call[q].upload \in Uploads /\ call[q].upload # u
        /\ upload_key'[call[q].upload] = upload_key[call[q].upload]
        /\ state_file'[call[q].upload] = state_file[call[q].upload]
  <2> SUFFICES ASSUME NEW q \in Requests, pc[q] # "idle"
               PROVE  call[q].upload \in Uploads /\ call[q].upload # u
    BY <1>2
  <2>1. upload_key[call[q].upload] \in Keys /\ call[q].upload \in Uploads
    BY <1>0, KeyOf, CallIs DEF UploadInv
  <2>2. QED
    BY <1>1, <2>1, NoneApart
<1>4. OneCall'
  BY <1>0, <1>1 DEF OneCall
<1>5. AloneOnKey'
  BY <1>0, <1>1, <1>3, LabelsAre DEF AloneOnKey
<1>6. \A v \in Uploads : (upload_key[v] = None => acked[v] = {})'
  BY <1>0, <1>1, <1>2
<1>7. ASSUME NEW v \in Uploads PROVE RecordOK(v)'
  <2>1. CASE v = u
    <3>1. state_file \in [Uploads -> StateFile \cup {None}]
      BY <1>0 DEF TypeOK
    <3>2. state_file'[v] = [parts |-> <<>>, valid |-> TRUE]
      BY <1>1, <2>1, <3>1
    <3>3. state_file'[v].parts = <<>>
      BY <3>2
    <3>4. DOMAIN <<>> = {}
      OBVIOUS
    <3>5. acked'[v] = {} /\ Distinct(<<>>) /\ Elements(<<>>) = {}
      BY <1>0, <1>1, <2>1, <3>4 DEF Distinct, Elements
    <3>6. QED
      BY <3>3, <3>5, RecordAfter
  <2>2. CASE v # u
    <3>1. RecordOK(v) /\ state_file'[v] = state_file[v]
      BY <1>0, <1>2, <2>2
    <3>2. QED
      BY <1>1, <3>1 DEF RecordOK, Readable, KeptParts
  <2>3. QED
    BY <2>1, <2>2
<1>8. ASSUME NEW q \in Requests PROVE CallOK(q)'
  <2> SUFFICES ASSUME pc[q] # "idle", call[q].upload \notin disturbed PROVE CallOK(q)'
    BY <1>1, LabelsAre DEF CallOK
  <2>1. PICK v \in Uploads : v = call[q].upload
    BY <1>3
  <2>2. /\ CallOK(q) /\ pc'[q] = pc[q] /\ call'[q] = call[q] /\ disturbed' = disturbed
        /\ upload_key'[v] = upload_key[v] /\ state_file'[v] = state_file[v]
        /\ part_file' = part_file /\ acked' = acked /\ objects' = objects /\ stored' = stored
    BY <1>0, <1>1, <1>3, <2>1
  <2>3. PartOK(q) => PartOK(q)'
    BY <2>1, <2>2 DEF PartOK, KeptParts
  <2>4. CompleteOK(q) => CompleteOK(q)'
    BY <2>1, <2>2 DEF CompleteOK, KeptParts, Copied
  <2>5. QED
    BY <2>1, <2>2, <2>3, <2>4 DEF CallOK
<1>9. ASSUME NEW l \in Keys PROVE StoredOK(l)'
  <2> SUFFICES ASSUME stored[l] # None PROVE StoredOK(l)'
    BY <1>1 DEF StoredOK
  <2>1. PICK w \in Uploads : w = stored[l]
    BY <1>0 DEF TypeOK
  <2>2. upload_key[w] = l /\ StoredOK(l)
    BY <1>0, <2>1 DEF StoredOK
  <2>3. upload_key'[w] = l
    BY <1>1, <1>2, <2>2, NoneApart
  <2>4. \A q \in Requests : pc'[q] \in CompleteLabels =>
          pc[q] = pc'[q] /\ call'[q] = call[q] /\ upload_key'[call[q].upload] = upload_key[call[q].upload]
    BY <1>1, <1>3, LabelsAre
  <2>5. /\ stored' = stored /\ disturbed' = disturbed /\ objects' = objects /\ acked' = acked
    BY <1>1
  <2>6. QED
    BY <2>1, <2>2, <2>3, <2>4, <2>5 DEF StoredOK
<1>10. QED
  BY <1>4, <1>5, <1>6, <1>7, <1>8, <1>9 DEF CalmInv

(* A lookup that shares its upload, or its key, disturbs every upload       *)
(* concerned; any other one finds no call in its way.                       *)
LEMMA LookupKeeps ==
  ASSUME UploadInv, NEW r \in Requests, NEW u \in Uploads, NEW n \in Parts,
         NEW label \in {"part_dir", "comp_create"}, Begin(r, u, n, label),
         NEW us \in SUBSET Uploads, disturbed' = disturbed \cup us,
         \A v \in Uploads : acked'[v] = IF v \in us THEN {} ELSE acked[v],
         u \notin us => /\ Busy(u) = {}
                        /\ label = "part_dir" => /\ n \notin Elements(Recorded(u))
                                                 /\ stored[upload_key[u]] # u,
         label = "comp_create" =>
           \A q \in Requests : pc[q] \in CompleteLabels /\ upload_key[call[q].upload] = upload_key[u]
             => u \in us /\ call[q].upload \in us
  PROVE  CalmInv'
<1>0. /\ TypeOK /\ OneCall /\ AloneOnKey
      /\ \A v \in Uploads : upload_key[v] = None => acked[v] = {}
      /\ \A v \in Uploads : RecordOK(v)
      /\ \A q \in Requests : CallOK(q)
      /\ \A l \in Keys : StoredOK(l)
  BY DEF UploadInv, TypeInv, CalmInv
<1> DEFINE parts == state_file[u].parts
<1>1. /\ pc[r] = "idle" /\ Readable(u) /\ Recorded(u) = parts /\ parts \in Seq(Parts)
      /\ pc'[r] = label /\ call'[r] = [upload |-> u, part |-> n, parts |-> parts, next |-> 1, size |-> 0]
      /\ \A q \in Requests : q # r => pc'[q] = pc[q] /\ call'[q] = call[q]
      /\ UNCHANGED <<upload_key, state_file, part_file, objects, stored>>
  BY <1>0, BeginIs
<1>2. state_file[u] # None /\ upload_key[u] \in Keys
  BY <1>0, <1>1 DEF Readable, UploadInv, TypeInv, KeysKnown, TypeOK
<1> HIDE DEF parts
<1>3. /\ call'[r].upload = u /\ call'[r].part = n /\ call'[r].parts = parts
      /\ call'[r].next = 1 /\ call'[r].size = 0
  BY <1>1
<1>4. u \notin us => \A q \in Requests : pc[q] # "idle" => call[q].upload # u
  BY DEF Busy
<1>5. label \in PartLabels \cup CompleteLabels /\ label # "idle"
      /\ (label = "part_dir" <=> label \in PartLabels) /\ (label = "comp_create" <=> label \in CompleteLabels)
  BY DEF PartLabels, CompleteLabels
<1>6. OneCall'
  <2> SUFFICES ASSUME NEW p \in Requests, NEW q \in Requests, pc'[p] # "idle", pc'[q] # "idle",
                      call'[p].upload = call'[q].upload, call'[q].upload \notin disturbed'
               PROVE  p = q
    BY DEF OneCall
  <2>1. CASE p # r /\ q # r
    <3>1. pc'[p] = pc[p] /\ call'[p] = call[p] /\ pc'[q] = pc[q] /\ call'[q] = call[q]
      BY <1>1, <2>1
    <3>2. QED
      BY <1>0, <3>1 DEF OneCall
  <2>2. CASE p = r /\ q # r
    BY <1>1, <1>3, <1>4, <2>2
  <2>3. CASE p # r /\ q = r
    BY <1>1, <1>3, <1>4, <2>3
  <2>4. QED
    BY <2>1, <2>2, <2>3
<1>7. AloneOnKey'
  <2> SUFFICES ASSUME NEW p \in Requests, NEW q \in Requests,
                      pc'[p] \in CompleteLabels, pc'[q] \in CompleteLabels,
                      upload_key[call'[p].upload] = upload_key[call'[q].upload],
                      call'[q].upload \notin disturbed'
               PROVE  p = q
    BY <1>1 DEF AloneOnKey
  <2>1. CASE p # r /\ q # r
    <3>1. pc'[p] = pc[p] /\ call'[p] = call[p] /\ pc'[q] = pc[q] /\ call'[q] = call[q]
      BY <1>1, <2>1
    <3>2. QED
      BY <1>0, <3>1 DEF AloneOnKey
  <2>2. CASE p = r /\ q # r
    <3>1. pc[q] \in CompleteLabels /\ upload_key[call[q].upload] = upload_key[u] /\ call[q].upload \notin us
          /\ label = "comp_create"
      BY <1>1, <1>3, <1>5, <2>2
    <3>2. QED
      BY <3>1
  <2>3. CASE p # r /\ q = r
    <3>1. pc[p] \in CompleteLabels /\ upload_key[call[p].upload] = upload_key[u] /\ u \notin us
          /\ label = "comp_create"
      BY <1>1, <1>3, <1>5, <2>3
    <3>2. QED
      BY <3>1
  <2>4. QED
    BY <2>1, <2>2, <2>3
<1>8. \A v \in Uploads : (upload_key[v] = None => acked[v] = {})'
  BY <1>0, <1>1
<1>9. ASSUME NEW v \in Uploads PROVE RecordOK(v)'
  <2>1. CASE v \in us
    BY <2>1 DEF RecordOK
  <2>2. CASE v \notin us
    <3>1. RecordOK(v) /\ acked'[v] = acked[v]
      BY <1>0, <2>2
    <3>2. QED
      BY <1>1, <2>2, <3>1 DEF RecordOK, Readable, KeptParts
  <2>3. QED
    BY <2>1, <2>2
<1>10. ASSUME NEW q \in Requests PROVE CallOK(q)'
  <2>1. CASE q = r
    <3> SUFFICES ASSUME u \notin us, u \notin disturbed PROVE CallOK(r)'
      BY <1>3, <2>1 DEF CallOK
    <3>1. /\ Distinct(parts) /\ acked[u] \subseteq Elements(parts)
          /\ \A m \in Elements(parts) : part_file[u][m] # "empty"
      BY <1>0, <1>1 DEF RecordOK, KeptParts, parts
    <3>2. acked'[u] \subseteq Elements(parts) /\ \A m \in Elements(parts) : part_file'[u][m] # "empty"
      BY <1>1, <3>1
    <3>3. CASE label = "part_dir"
      <4>1. n \notin Elements(parts) /\ stored'[upload_key'[u]] # u
        BY <1>1, <3>3
      <4>2. state_file'[u].parts = parts
        BY <1>1 DEF parts
      <4>3. pc'[r] = "part_dir"
        BY <1>1, <3>3
      <4>4. QED
        BY <1>3, <1>5, <3>1, <3>2, <3>3, <4>1, <4>2, <4>3, PartAfter
    <3>4. CASE label = "comp_create"
      <4>1. pc'[r] = "comp_create" /\ pc'[r] \in CompleteLabels
        BY <1>1, <1>5, <3>4
      <4>2. PICK k \in Keys : k = upload_key'[u]
        BY <1>1, <1>2
      <4>3. QED
        BY <1>3, <3>1, <3>2, <4>1, <4>2, CompleteAfter
    <3>5. QED
      BY <3>3, <3>4
  <2>2. CASE q # r
    <3>1. pc'[q] = pc[q] /\ call'[q] = call[q] /\ CallOK(q)
      BY <1>0, <1>1, <2>2
    <3> SUFFICES ASSUME pc[q] # "idle", call[q].upload \notin disturbed, call[q].upload \notin us PROVE CallOK(q)'
      BY <3>1, LabelsAre DEF CallOK
    <3>2. PICK v \in Uploads : v = call[q].upload
      BY <1>0, CallIs
    <3>3. acked'[v] = acked[v] /\ UNCHANGED <<upload_key, state_file, part_file, objects, stored>>
      BY <1>1, <3>2
    <3>a. /\ pc'[q] = pc[q] /\ call'[q] = call[q] /\ acked'[v] = acked[v]
          /\ upload_key' = upload_key /\ state_file' = state_file /\ part_file' = part_file
          /\ objects' = objects /\ stored' = stored
      BY <3>1, <3>3
    <3>4. PartOK(q) => PartOK(q)'
      BY <3>2, <3>a DEF PartOK, KeptParts
    <3>5. CompleteOK(q) => CompleteOK(q)'
      BY <3>2, <3>a, ZenonT(60) DEF CompleteOK, KeptParts, Copied
    <3>6. QED
      BY <3>1, <3>2, <3>4, <3>5 DEF CallOK
  <2>3. QED
    BY <2>1, <2>2
<1>11. ASSUME NEW l \in Keys PROVE StoredOK(l)'
  <2> SUFFICES ASSUME stored[l] # None PROVE StoredOK(l)'
    BY <1>1 DEF StoredOK
  <2>1. PICK w \in Uploads : w = stored[l]
    BY <1>0 DEF TypeOK
  <2>2. upload_key[w] = l /\ StoredOK(l)
    BY <1>0, <2>1 DEF StoredOK
  <2>3. ASSUME w \notin disturbed'
        PROVE  /\ \A q \in Requests : pc'[q] \in CompleteLabels /\ upload_key[call'[q].upload] = l => pc'[q] = "comp_create"
               /\ MadeOf(objects[l], w)
               /\ \A m \in acked'[w] : <<w, m>> \in Elements(objects[l])
    <3>1. w \notin disturbed /\ acked'[w] = acked[w]
      BY <2>3
    <3>2. MadeOf(objects[l], w) /\ \A m \in acked'[w] : <<w, m>> \in Elements(objects[l])
      BY <2>1, <2>2, <3>1 DEF StoredOK
    <3>3. ASSUME NEW q \in Requests, pc'[q] \in CompleteLabels, upload_key[call'[q].upload] = l
          PROVE  pc'[q] = "comp_create"
      <4>1. CASE q = r
        BY <1>1, <1>5, <3>3, <4>1, LabelsAre
      <4>2. CASE q # r
        <5>1. pc'[q] = pc[q] /\ call'[q] = call[q]
          BY <1>1, <4>2
        <5>2. QED
          BY <2>1, <2>2, <3>1, <3>3, <5>1 DEF StoredOK
      <4>3. QED
        BY <4>1, <4>2
    <3>4. QED
      BY <3>2, <3>3
  <2>4. QED
    BY <1>1, <2>1, <2>2, <2>3 DEF StoredOK
<1>12. QED
  BY <1>6, <1>7, <1>8, <1>9, <1>10, <1>11 DEF CalmInv

LEMMA CalmStep == UploadInv /\ [Next]_vars => CalmInv'
<1> SUFFICES ASSUME UploadInv, [Next]_vars PROVE CalmInv'
  OBVIOUS
<1>0. TypeOK
  BY DEF UploadInv, TypeInv
(* The uploads a lookup disturbs.                                           *)
<1>1. ASSUME NEW us \in SUBSET Uploads, Disturb(us) \/ (us = {} /\ UNCHANGED <<disturbed, acked>>)
      PROVE  /\ disturbed' = disturbed \cup us
             /\ \A v \in Uploads : acked'[v] = IF v \in us THEN {} ELSE acked[v]
  BY <1>1 DEF Disturb
<1>2. ASSUME NEW r \in Requests, NEW u \in Uploads, NEW n \in Parts, PartLookup(r, u, n) PROVE CalmInv'
  <2> DEFINE mixed == Busy(u) # {} \/ n \in Elements(Recorded(u)) \/ stored[upload_key[u]] = u
             us == IF mixed THEN {u} ELSE {}
  <2>1. Begin(r, u, n, "part_dir")
    BY <1>2 DEF PartLookup
  <2>2. IF mixed THEN Disturb({u}) ELSE UNCHANGED <<disturbed, acked>>
    BY <1>2 DEF PartLookup
  <2>3. us \in SUBSET Uploads /\ (Disturb(us) \/ (us = {} /\ UNCHANGED <<disturbed, acked>>))
    BY <2>2
  <2>4. u \notin us => /\ Busy(u) = {}
                       /\ n \notin Elements(Recorded(u))
                       /\ stored[upload_key[u]] # u
    OBVIOUS
  <2> HIDE DEF us
  <2>5. /\ disturbed' = disturbed \cup us
        /\ \A v \in Uploads : acked'[v] = IF v \in us THEN {} ELSE acked[v]
    BY <1>1, <2>3
  <2>6. QED
    BY <2>1, <2>3, <2>4, <2>5, LookupKeeps
<1>3. ASSUME NEW r \in Requests, NEW u \in Uploads, CompleteLookup(r, u) PROVE CalmInv'
  <2> DEFINE n == CHOOSE m \in Parts : TRUE
             rivals == {call[q].upload : q \in Completing(upload_key[u])}
             us == IF Busy(u) # {} \/ rivals # {} THEN rivals \cup {u} ELSE {}
  <2>1. n \in Parts
    BY LocalUploadAssumption, Zenon
  <2>2. /\ Begin(r, u, n, "comp_create")
        /\ IF Busy(u) # {} \/ rivals # {} THEN Disturb(rivals \cup {u}) ELSE UNCHANGED <<disturbed, acked>>
    BY <1>3, Zenon DEF CompleteLookup
  <2> HIDE DEF n
  <2>3. rivals \subseteq Uploads
    <3>1. \A q \in Requests : pc[q] \in CompleteLabels => call[q].upload \in Uploads
      BY <1>0, CallIs, LabelsAre
    <3>2. QED
      BY <3>1 DEF Completing
  <2>4. \A q \in Requests : pc[q] \in CompleteLabels /\ upload_key[call[q].upload] = upload_key[u]
          => call[q].upload \in rivals
    BY DEF Completing
  <2> HIDE DEF rivals
  <2>5. us \in SUBSET Uploads /\ (Disturb(us) \/ (us = {} /\ UNCHANGED <<disturbed, acked>>))
    BY <2>2, <2>3
  <2>6. /\ u \notin us => Busy(u) = {}
        /\ \A q \in Requests : pc[q] \in CompleteLabels /\ upload_key[call[q].upload] = upload_key[u]
             => u \in us /\ call[q].upload \in us
    BY <2>4
  <2> HIDE DEF us
  <2>7. /\ disturbed' = disturbed \cup us
        /\ \A v \in Uploads : acked'[v] = IF v \in us THEN {} ELSE acked[v]
    BY <1>1, <2>5
  <2>8. QED
    BY <2>1, <2>2, <2>5, <2>6, <2>7, LookupKeeps
<1>4. ASSUME UNCHANGED vars PROVE CalmInv'
  <2>1. UNCHANGED <<upload_key, state_file, part_file, objects, pc, call, acked, disturbed, stored>>
    BY <1>4 DEF vars, disk, history
  <2>2. OneCall' /\ AloneOnKey'
    BY <2>1 DEF UploadInv, CalmInv, OneCall, AloneOnKey
  <2>3. ASSUME NEW u \in Uploads PROVE RecordOK(u)' /\ (upload_key[u] = None => acked[u] = {})'
    BY <2>1 DEF UploadInv, CalmInv, RecordOK, Readable, KeptParts
  <2>4. ASSUME NEW r \in Requests PROVE CallOK(r)'
    BY <2>1 DEF UploadInv, CalmInv, CallOK, PartOK, CompleteOK, KeptParts, Copied
  <2>5. ASSUME NEW k \in Keys PROVE StoredOK(k)'
    BY <2>1 DEF UploadInv, CalmInv, StoredOK
  <2>6. QED
    BY <2>2, <2>3, <2>4, <2>5 DEF CalmInv
<1>5. CASE Next
  BY <1>2, <1>3, <1>5, CreateKeeps, CallStepKeeps DEF Next
<1>6. QED
  BY <1>4, <1>5

LEMMA UploadInvariant == Spec => []UploadInv
<1>1. UploadInv /\ [Next]_vars => UploadInv'
  <2>1. UploadInv => TypeInv
    BY DEF UploadInv
  <2>2. TypeInv' /\ CalmInv' => UploadInv'
    BY DEF UploadInv
  <2>3. QED
    BY <2>1, <2>2, TypeStep, CalmStep
<1>2. Init => UploadInv
  BY TypeInit, CalmInit DEF UploadInv
<1>3. QED
  BY <1>1, <1>2, PTL DEF Spec

(* A complete that is answered has stored every part that was answered for, *)
(* whole, once and in order, provided its upload was not disturbed.         *)
THEOREM CompletedCorrect == Spec => []CompletedIsWhole
<1>1. UploadInv => CompletedIsWhole
  BY DEF UploadInv, CalmInv, StoredOK, CompletedIsWhole
<1>2. QED
  BY <1>1, UploadInvariant, PTL
=============================================================================
