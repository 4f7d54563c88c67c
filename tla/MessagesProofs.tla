--------------------------- MODULE MessagesProofs ---------------------------
(* Proofs about Messages, for any senders, buckets, settings and traffic,    *)
(* and what follows for Traffic.                                             *)
EXTENDS NicknameProofs, BytesProofs, FiniteSetTheorems

----------------------------------------------------------------------------
(* The table of check_flooding.                                             *)

Entry ==
    [name : Senders, type : SUBSET Talk!FloodTypes, cnt : Nat, age : 0 .. Aged, flood : BOOLEAN]

(* A bucket lists a nickname once, and those that belong there.             *)
Chain(b) ==
    {s \in Seq(Entry) :
        /\ \A i \in 1 .. Len(s) : Bucket[s[i].name] = b
        /\ \A i, j \in 1 .. Len(s) : s[i].name = s[j].name => i = j}

Tables == {t \in [Talk!Buckets -> Seq(Entry)] : \A b \in Talk!Buckets : t[b] \in Chain(b)}

Has(s, x) == \E i \in 1 .. Len(s) : x = s[i]

LEMMA ChainIs ==
    ASSUME NEW b, NEW s \in Chain(b)
    PROVE  /\ s \in Seq(Entry) /\ Len(s) \in Nat /\ DOMAIN s = 1 .. Len(s)
           /\ \A i \in 1 .. Len(s) : s[i] \in Entry /\ Bucket[s[i].name] = b
           /\ \A i, j \in 1 .. Len(s) : s[i].name = s[j].name => i = j
  BY DEF Chain

LEMMA EntriesAre ==
    ASSUME NEW t \in Tables
    PROVE  \A x : x \in Talk!Entries(t) <=> \E b \in Talk!Buckets : Has(t[b], x)
  <1>1. \A b \in Talk!Buckets : DOMAIN t[b] = 1 .. Len(t[b])
    BY ChainIs DEF Tables
  <1>2. \A b \in Talk!Buckets : \A x : x \in Talk!ToSet(t[b]) <=> Has(t[b], x)
    BY <1>1 DEF Talk!ToSet, Has
  <1>3. \A x : x \in Talk!Entries(t) <=> \E b \in Talk!Buckets : x \in Talk!ToSet(t[b])
    BY DEF Talk!Entries
  <1> QED
    BY <1>2, <1>3

(* An entry is in the bucket of its nickname, and is the only one there.    *)
LEMMA EntryIs ==
    ASSUME NEW t \in Tables, NEW x \in Talk!Entries(t)
    PROVE  x \in Entry /\ Bucket[x.name] \in Talk!Buckets /\ Has(t[Bucket[x.name]], x)
  <1>1. PICK b \in Talk!Buckets : Has(t[b], x)
    BY EntriesAre
  <1>2. x \in Entry /\ Bucket[x.name] = b
    BY <1>1, ChainIs DEF Tables, Has
  <1> QED
    BY <1>1, <1>2

LEMMA OneEach ==
    ASSUME NEW t \in Tables, NEW x \in Talk!Entries(t), NEW y \in Talk!Entries(t), x.name = y.name
    PROVE  x = y
  <1> DEFINE s == t[Bucket[x.name]]
  <1>1. Has(s, x) /\ Has(s, y) /\ s \in Chain(Bucket[x.name])
    BY EntryIs DEF Tables
  <1> HIDE DEF s
  <1>2. PICK i \in 1 .. Len(s), j \in 1 .. Len(s) : x = s[i] /\ y = s[j]
    BY <1>1 DEF Has
  <1> QED
    BY <1>1, <1>2, ChainIs

(* The nickname that a found entry has leaves its chain.                    *)
LEMMA SameRemoveAt == ASSUME NEW s, NEW n PROVE Talk!RemoveAt(s, n) = RemoveAt(s, n)
  BY DEF Talk!RemoveAt, RemoveAt

PlaceOf(s, nick) == Talk!SelectInSeq(s, LAMBDA e : e.name = nick)

LEMMA PlaceFound ==
    ASSUME NEW s, Len(s) \in Nat, NEW nick, NEW i \in 1 .. Len(s), s[i].name = nick
    PROVE  PlaceOf(s, nick) \in 1 .. Len(s) /\ s[PlaceOf(s, nick)].name = nick
  <1> DEFINE I == {k \in 1 .. Len(s) : s[k].name = nick}
  <1>1. I \in SUBSET Nat /\ I # {}
    OBVIOUS
  <1>2. PICK x \in I : \A y \in I : x =< y
    BY <1>1, Least
  <1>3. Talk!Min(I) \in I
    BY <1>2 DEF Talk!Min
  <1>4. PlaceOf(s, nick) = Talk!Min(I)
    BY <1>1 DEF PlaceOf, Talk!SelectInSeq
  <1> QED
    BY <1>3, <1>4

LEMMA UnlinkedIs ==
    ASSUME NEW b, NEW s \in Chain(b), NEW nick
    PROVE  /\ Talk!Unlinked(s, nick) \in Chain(b)
           /\ \A x : Has(Talk!Unlinked(s, nick), x) <=> Has(s, x) /\ x.name # nick
  <1> DEFINE u == Talk!Unlinked(s, nick)
  <1>1. CASE \A i \in 1 .. Len(s) : s[i].name # nick
    <2>1. u = s
      BY <1>1 DEF Talk!Unlinked, Talk!RemoveFirstMatch
    <2>2. \A x : Has(s, x) <=> Has(s, x) /\ x.name # nick
      BY <1>1 DEF Has
    <2> HIDE DEF u
    <2>3. u \in Chain(b) /\ \A x : Has(u, x) <=> Has(s, x) /\ x.name # nick
      BY <2>1, <2>2
    <2> QED
      BY <2>3 DEF u
  <1>2. CASE \E i \in 1 .. Len(s) : s[i].name = nick
    <2> DEFINE p == PlaceOf(s, nick)
    <2>1. u = RemoveAt(s, p)
      BY <1>2, SameRemoveAt DEF PlaceOf, Talk!Unlinked, Talk!RemoveFirstMatch
    <2>2. /\ s \in Seq(Entry) /\ Len(s) \in Nat /\ DOMAIN s = 1 .. Len(s)
          /\ \A i \in 1 .. Len(s) : Bucket[s[i].name] = b
          /\ \A i, j \in 1 .. Len(s) : s[i].name = s[j].name => i = j
      BY ChainIs
    <2>3. p \in 1 .. Len(s) /\ s[p].name = nick
      BY <1>2, <2>2, PlaceFound
    <2> HIDE DEF p
    <2>4. /\ u \in Seq(Entry) /\ Len(u) = Len(s) - 1
          /\ \A j \in 1 .. Len(s) - 1 : u[j] = IF j < p THEN s[j] ELSE s[j + 1]
      <3>1. s \in Seq(Entry) /\ p \in DOMAIN s
        BY <2>2, <2>3
      <3>2. /\ RemoveAt(s, p) \in Seq(Entry) /\ Len(RemoveAt(s, p)) = Len(s) - 1
            /\ \A j \in 1 .. Len(s) - 1 : RemoveAt(s, p)[j] = IF j < p THEN s[j] ELSE s[j + 1]
        BY <3>1, Removed
      <3> HIDE DEF u
      <3> QED
        BY <2>1, <3>2
    <2> HIDE DEF u
    <2> DEFINE From(j) == IF j < p THEN j ELSE j + 1
    <2>5. \A j \in 1 .. Len(u) : /\ From(j) \in 1 .. Len(s) /\ From(j) # p
                                 /\ u[j] = s[From(j)]
      BY <2>2, <2>3, <2>4
    <2>6. \A i, j \in 1 .. Len(u) : From(i) = From(j) => i = j
      BY <2>2, <2>3, <2>4
    <2>7. \A i \in 1 .. Len(s) : i # p => \E j \in 1 .. Len(u) : From(j) = i
      <3> SUFFICES ASSUME NEW i \in 1 .. Len(s), i # p
                   PROVE  \E j \in 1 .. Len(u) : From(j) = i
        OBVIOUS
      <3>1. CASE i < p
        <4>1. i \in 1 .. Len(u) /\ From(i) = i
          BY <2>2, <2>3, <2>4, <3>1
        <4> QED
          BY <4>1
      <3>2. CASE i > p
        <4>1. i - 1 \in 1 .. Len(u) /\ From(i - 1) = i
          BY <2>2, <2>3, <2>4, <3>2
        <4> QED
          BY <4>1
      <3> QED
        BY <2>2, <2>3, <3>1, <3>2
    <2> HIDE DEF From
    <2>8. u \in Chain(b)
      <3>1. \A i \in 1 .. Len(u) : Bucket[u[i].name] = b
        BY <2>2, <2>5
      <3>2. ASSUME NEW i \in 1 .. Len(u), NEW j \in 1 .. Len(u), u[i].name = u[j].name
            PROVE  i = j
        <4>1. From(i) = From(j)
          BY <2>2, <2>5, <3>2
        <4> QED
          BY <2>6, <4>1
      <3> QED
        BY <2>4, <3>1, <3>2 DEF Chain
    <2>9. \A j \in 1 .. Len(s) : s[j].name = nick <=> j = p
      BY <2>2, <2>3
    <2>10. ASSUME NEW x PROVE Has(u, x) <=> Has(s, x) /\ x.name # nick
      <3>1. ASSUME NEW j \in 1 .. Len(u), x = u[j] PROVE Has(s, x) /\ x.name # nick
        BY <2>5, <2>9, <3>1 DEF Has
      <3>2. ASSUME NEW i \in 1 .. Len(s), x = s[i], x.name # nick PROVE Has(u, x)
        <4>1. PICK j \in 1 .. Len(u) : From(j) = i
          BY <2>7, <2>9, <3>2
        <4>2. u[j] = x
          BY <2>5, <3>2, <4>1
        <4> QED
          BY <4>2 DEF Has
      <3> QED
        BY <3>1, <3>2 DEF Has
    <2> QED
      BY <2>8, <2>10 DEF u
  <1> QED
    BY <1>1, <1>2

(* An entry that is put into the table replaces that of its nickname.       *)
LEMMA PutIs ==
    ASSUME NEW t \in Tables, NEW e \in Entry
    PROVE  /\ Talk!Put(t, e) \in Tables
           /\ \A x : x \in Talk!Entries(Talk!Put(t, e))
                         <=> x = e \/ (x \in Talk!Entries(t) /\ x.name # e.name)
  <1> DEFINE b == Bucket[e.name]
             u == Talk!Unlinked(t[b], e.name)
             c == <<e>> \o u
             new == Talk!Put(t, e)
  <1>1. b \in Talk!Buckets
    BY DEF Entry, Talk!Buckets
  <1>2. t[b] \in Chain(b) /\ t \in [Talk!Buckets -> Seq(Entry)]
    BY <1>1 DEF Tables
  <1>3. u \in Chain(b) /\ \A x : Has(u, x) <=> Has(t[b], x) /\ x.name # e.name
    BY <1>2, UnlinkedIs
  <1>4. new = [t EXCEPT ![b] = c]
    BY DEF Talk!Put
  <1> HIDE DEF new, u
  <1>5. /\ u \in Seq(Entry) /\ Len(u) \in Nat
        /\ \A i, j \in 1 .. Len(u) : u[i].name = u[j].name => i = j
    BY <1>3, ChainIs
  <1>6. <<e>> \in Seq(Entry) /\ Len(<<e>>) = 1 /\ <<e>>[1] = e
    OBVIOUS
  <1>7. /\ c \in Seq(Entry) /\ Len(c) = 1 + Len(u)
        /\ \A i \in 1 .. 1 + Len(u) : c[i] = IF i =< 1 THEN <<e>>[i] ELSE u[i - 1]
    BY <1>5, <1>6, ConcatProperties
  <1> HIDE DEF c
  <1>8. 1 \in 1 .. 1 + Len(u) /\ c[1] = e
    BY <1>5, <1>6, <1>7
  <1>9. \A i \in 1 .. Len(c) : i # 1 => i - 1 \in 1 .. Len(u) /\ c[i] = u[i - 1]
    BY <1>5, <1>7
  <1>10. \A i \in 1 .. Len(u) : i + 1 \in 1 .. Len(c) /\ c[i + 1] = u[i]
    BY <1>5, <1>7
  <1>11. \A i \in 1 .. Len(u) : u[i].name # e.name /\ Bucket[u[i].name] = b
    BY <1>3, ChainIs DEF Has
  <1>12. c \in Chain(b)
    <2>1. \A i \in 1 .. Len(c) : Bucket[c[i].name] = b
      BY <1>8, <1>9, <1>11
    <2>2. ASSUME NEW i \in 1 .. Len(c), NEW j \in 1 .. Len(c), c[i].name = c[j].name PROVE i = j
      <3>1. CASE i = 1 \/ j = 1
        <4>1. \A k \in 1 .. Len(c) : k # 1 => c[k].name # e.name
          <5> SUFFICES ASSUME NEW k \in 1 .. Len(c), k # 1 PROVE c[k].name # e.name
            OBVIOUS
          <5> DEFINE l == k - 1
          <5>1. l \in 1 .. Len(u) /\ c[k] = u[l]
            BY <1>9
          <5> HIDE DEF l
          <5> QED
            BY <1>11, <5>1
        <4> QED
          BY <1>8, <2>2, <3>1, <4>1
      <3>2. CASE i # 1 /\ j # 1
        <4>1. i - 1 = j - 1
          <5>1. /\ i - 1 \in 1 .. Len(u) /\ c[i] = u[i - 1]
                /\ j - 1 \in 1 .. Len(u) /\ c[j] = u[j - 1]
            BY <1>9, <3>2
          <5> QED
            BY <1>5, <2>2, <5>1
        <4> QED
          BY <1>5, <1>7, <4>1
      <3> QED
        BY <3>1, <3>2
    <2> QED
      BY <1>7, <2>1, <2>2 DEF Chain
  <1>13. \A x : Has(c, x) <=> x = e \/ (Has(t[b], x) /\ x.name # e.name)
    <2>1. ASSUME NEW x, Has(c, x) PROVE x = e \/ Has(u, x)
      <3>1. PICK i \in 1 .. Len(c) : x = c[i]
        BY <2>1 DEF Has
      <3>2. ASSUME i # 1 PROVE Has(u, x)
        <4>1. i - 1 \in 1 .. Len(u) /\ x = u[i - 1]
          BY <1>9, <3>1, <3>2
        <4> QED
          BY <4>1 DEF Has
      <3> QED
        BY <1>8, <3>1, <3>2
    <2>2. ASSUME NEW x, Has(u, x) PROVE Has(c, x)
      <3>1. PICK i \in 1 .. Len(u) : x = u[i]
        BY <2>2 DEF Has
      <3>2. i + 1 \in 1 .. Len(c) /\ c[i + 1] = x
        BY <1>10, <3>1
      <3> QED
        BY <3>2 DEF Has
    <2>3. Has(c, e)
      BY <1>7, <1>8 DEF Has
    <2> QED
      BY <1>3, <2>1, <2>2, <2>3
  <1>14. new \in [Talk!Buckets -> Seq(Entry)] /\ new[b] = c
         /\ \A d \in Talk!Buckets : d # b => new[d] = t[d]
    BY <1>1, <1>2, <1>4, <1>7
  <1>15. new \in Tables
    BY <1>12, <1>14 DEF Tables
  <1>16. ASSUME NEW x
         PROVE  x \in Talk!Entries(new) <=> x = e \/ (x \in Talk!Entries(t) /\ x.name # e.name)
    <2>1. \A d \in Talk!Buckets : d # b => ~(Has(t[d], x) /\ x.name = e.name)
      <3> SUFFICES ASSUME NEW d \in Talk!Buckets, d # b, Has(t[d], x), x.name = e.name PROVE FALSE
        OBVIOUS
      <3>1. t[d] \in Chain(d)
        BY DEF Tables
      <3>2. Bucket[x.name] = d
        BY <3>1, ChainIs DEF Has
      <3> QED
        BY <3>2
    <2>2. x \in Talk!Entries(new) <=> \E d \in Talk!Buckets : Has(new[d], x)
      BY <1>15, EntriesAre
    <2>3. x \in Talk!Entries(t) <=> \E d \in Talk!Buckets : Has(t[d], x)
      BY EntriesAre
    <2> HIDE DEF b
    <2> QED
      BY <1>1, <1>13, <1>14, <2>1, <2>2, <2>3
  <1> QED
    BY <1>15, <1>16 DEF new

----------------------------------------------------------------------------
(* What is removed from the table.                                          *)

(* Those who are younger, in their order.                                   *)
Kept(kept, chain, age) ==
    kept = [i \in 0 .. Len(chain) |->
               IF i = 0 THEN <<>>
               ELSE IF chain[i].age < age THEN Append(kept[i - 1], chain[i]) ELSE kept[i - 1]]

LEMMA KeptExists ==
    ASSUME NEW s \in Seq(Entry), NEW age
    PROVE  \E kept : Kept(kept, s, age)
  <1> DEFINE m == Len(s)
             In(k) == k \in 1 .. m /\ s[k].age < age
             T == [k \in Nat |-> [l \in Seq(Entry) |-> IF In(k) THEN Append(l, s[k]) ELSE l]]
  <1>1. m \in Nat /\ <<>> \in Seq(Entry) /\ \A k \in 1 .. m : s[k] \in Entry
    OBVIOUS
  <1>2. \A k \in Nat, l \in Seq(Entry) : (IF In(k) THEN Append(l, s[k]) ELSE l) \in Seq(Entry)
    BY <1>1, AppendProperties
  <1>3. T \in [Nat -> [Seq(Entry) -> Seq(Entry)]]
    BY <1>2
  <1>4. \A k \in Nat, l \in Seq(Entry) : T[k][l] = IF In(k) THEN Append(l, s[k]) ELSE l
    OBVIOUS
  <1> HIDE DEF T
  <1>5. PICK f : Iterates(f, Seq(Entry), T, <<>>, m)
    <2> HIDE DEF m
    <2> QED
      BY <1>1, <1>3, Iteration
  <1>6. f \in [0 .. m -> Seq(Entry)] /\ f[0] = <<>>
    BY <1>5 DEF Iterates
  <1>7. ASSUME NEW k \in 1 .. m
        PROVE  f[k] = IF s[k].age < age THEN Append(f[k - 1], s[k]) ELSE f[k - 1]
    <2>1. k - 1 \in 0 .. m /\ k \in Nat
      OBVIOUS
    <2>2. f[k - 1] \in Seq(Entry) /\ f[k] = T[k][f[k - 1]]
      BY <1>5, <1>6, <2>1 DEF Iterates
    <2>3. In(k) <=> s[k].age < age
      OBVIOUS
    <2> HIDE DEF In
    <2> QED
      BY <1>4, <2>1, <2>2, <2>3
  <1>8. \A i \in 0 .. m : i # 0 => i \in 1 .. m
    OBVIOUS
  <1> DEFINE g == [i \in 0 .. m |->
                      IF i = 0 THEN <<>>
                      ELSE IF s[i].age < age THEN Append(f[i - 1], s[i]) ELSE f[i - 1]]
  <1>9. \A i \in 0 .. m : f[i] = g[i]
    BY <1>6, <1>7, <1>8
  <1>10. f = g
    <2>1. f = [i \in 0 .. m |-> f[i]]
      BY <1>6
    <2>2. g = [i \in 0 .. m |-> g[i]]
      OBVIOUS
    <2> HIDE DEF g
    <2> QED
      BY <1>9, <2>1, <2>2
  <1> QED
    BY <1>10 DEF Kept

(* After i entries, those of them that are kept.                            *)
KeptOf(l, s, i) ==
    /\ l \in Seq(Entry)
    /\ \A j \in 1 .. Len(l) : \E k \in 1 .. i : l[j] = s[k]
    /\ \A j, k \in 1 .. Len(l) : l[j].name = l[k].name => j = k

LEMMA KeptLoop ==
    ASSUME NEW b, NEW s \in Chain(b), NEW age, NEW kept,
           kept[0] = <<>>,
           \A k \in 1 .. Len(s) :
               kept[k] = IF s[k].age < age THEN Append(kept[k - 1], s[k]) ELSE kept[k - 1]
    PROVE  \A i \in 0 .. Len(s) : KeptOf(kept[i], s, i)
  <1> DEFINE m == Len(s)
             Bad == {i \in 0 .. m : ~KeptOf(kept[i], s, i)}
  <1>1. /\ s \in Seq(Entry) /\ m \in Nat
        /\ \A i \in 1 .. m : s[i] \in Entry
        /\ \A i, j \in 1 .. m : s[i].name = s[j].name => i = j
    BY ChainIs
  <1>2. KeptOf(<<>>, s, 0)
    BY DEF KeptOf
  <1>3. Bad \in SUBSET (0 .. m) /\ 0 \notin Bad
    BY <1>2
  <1>4. ASSUME NEW i \in 1 .. m, KeptOf(kept[i - 1], s, i - 1) PROVE KeptOf(kept[i], s, i)
    <2> DEFINE l == kept[i - 1]
    <2>1. /\ l \in Seq(Entry) /\ Len(l) \in Nat
          /\ \A j \in 1 .. Len(l) : \E k \in 1 .. i - 1 : l[j] = s[k]
          /\ \A j, k \in 1 .. Len(l) : l[j].name = l[k].name => j = k
      BY <1>4 DEF KeptOf
    <2>2. \A k \in 1 .. i - 1 : k \in 1 .. i /\ k \in 1 .. m /\ k # i
      BY <1>1
    <2>3. CASE s[i].age < age
      <3> DEFINE n == Append(l, s[i])
      <3>1. kept[i] = n
        BY <2>3
      <3> HIDE DEF l
      <3>2. /\ n \in Seq(Entry) /\ Len(n) = Len(l) + 1 /\ n[Len(l) + 1] = s[i]
            /\ \A j \in 1 .. Len(l) : n[j] = l[j]
        BY <1>1, <2>1, AppendProperties
      <3> HIDE DEF n
      <3>3. \A j \in 1 .. Len(n) : j = Len(l) + 1 \/ j \in 1 .. Len(l)
        BY <2>1, <3>2
      <3>4. \A j \in 1 .. Len(n) : \E k \in 1 .. i : n[j] = s[k]
        <4>1. i \in 1 .. i
          BY <1>1
        <4>2. ASSUME NEW j \in 1 .. Len(l) PROVE \E k \in 1 .. i : n[j] = s[k]
          <5>1. PICK k \in 1 .. i - 1 : l[j] = s[k]
            BY <2>1
          <5>2. n[j] = s[k] /\ k \in 1 .. i
            BY <2>2, <3>2, <5>1
          <5> QED
            BY <5>2
        <4>3. \E k \in 1 .. i : n[Len(l) + 1] = s[k]
          BY <3>2, <4>1
        <4> QED
          BY <3>3, <4>2, <4>3
      <3>5. \A j \in 1 .. Len(l) : n[j].name # s[i].name
        BY <1>1, <2>1, <2>2, <3>2
      <3>6. \A j, k \in 1 .. Len(n) : n[j].name = n[k].name => j = k
        BY <2>1, <3>2, <3>3, <3>5
      <3>7. KeptOf(n, s, i)
        BY <3>2, <3>4, <3>6 DEF KeptOf
      <3> QED
        BY <3>1, <3>7
    <2>4. CASE ~(s[i].age < age)
      <3>1. kept[i] = l
        BY <2>4
      <3> HIDE DEF l
      <3>2. \A j \in 1 .. Len(l) : \E k \in 1 .. i : l[j] = s[k]
        BY <2>1, <2>2
      <3>3. KeptOf(l, s, i)
        BY <2>1, <3>2 DEF KeptOf
      <3> QED
        BY <3>1, <3>3
    <2> QED
      BY <2>3, <2>4
  <1>5. \A i \in 1 .. m : i \in Bad => i - 1 \in Bad
    <2> SUFFICES ASSUME NEW i \in 1 .. m, i \in Bad PROVE i - 1 \in Bad
      OBVIOUS
    <2>1. i - 1 \in 0 .. m
      BY <1>1
    <2> QED
      BY <1>4, <2>1
  <1> HIDE DEF Bad
  <1>6. Bad = {}
    <2> HIDE DEF m
    <2> QED
      BY <1>1, <1>3, <1>5, NoneBad
  <1> QED
    BY <1>6 DEF Bad

LEMMA YoungerIs ==
    ASSUME NEW b, NEW s \in Chain(b), NEW age
    PROVE  /\ Talk!Younger(s, age) \in Chain(b)
           /\ \A x : Has(Talk!Younger(s, age), x) => Has(s, x)
           /\ age = 0 => Talk!Younger(s, age) = <<>>
  <1> DEFINE m == Len(s)
             E(f) == [i \in 0 .. m |->
                         IF i = 0 THEN <<>>
                         ELSE IF s[i].age < age THEN Append(f[i - 1], s[i]) ELSE f[i - 1]]
             h == CHOOSE f : f = E(f)
  <1>1. /\ s \in Seq(Entry) /\ m \in Nat
        /\ \A i \in 1 .. m : s[i] \in Entry /\ Bucket[s[i].name] = b
    BY ChainIs
  <1>2. \E f : f = E(f)
    BY <1>1, KeptExists DEF Kept
  <1>3. Talk!Younger(s, age) = h[m]
    BY DEF Talk!Younger
  <1> HIDE DEF E
  <1>4. h = E(h)
    BY <1>2, Zenon
  <1> HIDE DEF h
  <1> USE DEF E
  <1>5. 0 \in 0 .. m /\ m \in 0 .. m /\ \A k \in 1 .. m : k \in 0 .. m /\ k # 0
    BY <1>1
  <1>6. /\ h[0] = <<>>
        /\ \A k \in 1 .. m : h[k] = IF s[k].age < age THEN Append(h[k - 1], s[k]) ELSE h[k - 1]
    BY <1>4, <1>5, Zenon
  <1> HIDE DEF E
  <1>7. KeptOf(h[m], s, m)
    BY <1>5, <1>6, KeptLoop
  <1>8. h[m] \in Chain(b) /\ \A x : Has(h[m], x) => Has(s, x)
    <2> DEFINE l == h[m]
    <2>1. /\ l \in Seq(Entry)
          /\ \A j \in 1 .. Len(l) : \E k \in 1 .. m : l[j] = s[k]
          /\ \A j, k \in 1 .. Len(l) : l[j].name = l[k].name => j = k
      BY <1>7 DEF KeptOf
    <2> HIDE DEF l
    <2>2. \A j \in 1 .. Len(l) : Bucket[l[j].name] = b
      BY <1>1, <2>1
    <2>3. l \in Chain(b) /\ \A x : Has(l, x) => Has(s, x)
      BY <2>1, <2>2 DEF Chain, Has
    <2> QED
      BY <2>3 DEF l
  <1>9. ASSUME age = 0 PROVE h[m] = <<>>
    <2>1. \A k \in 1 .. m : ~(s[k].age < age)
      BY <1>1, <1>9 DEF Entry
    <2>2. \A k \in 1 .. m : h[k] = h[k - 1]
      BY <1>6, <2>1
    <2> DEFINE Bad == {i \in 0 .. m : h[i] # <<>>}
    <2>3. Bad \in SUBSET (0 .. m) /\ 0 \notin Bad
      BY <1>6
    <2>4. \A k \in 1 .. m : k \in Bad => k - 1 \in Bad
      BY <1>1, <2>2
    <2> HIDE DEF Bad
    <2>5. Bad = {}
      <3> HIDE DEF m
      <3> QED
        BY <1>1, <2>3, <2>4, NoneBad
    <2> QED
      BY <1>5, <2>5 DEF Bad
  <1> QED
    BY <1>3, <1>8, <1>9

(* A table without some of its entries.                                     *)
Shrunk(t, new) == new \in Tables /\ Talk!Entries(new) \subseteq Talk!Entries(t)

LEMMA Shrinks ==
    ASSUME NEW t \in Tables, NEW new,
           new = [b \in Talk!Buckets |-> new[b]],
           \A b \in Talk!Buckets : new[b] \in Chain(b) /\ \A x : Has(new[b], x) => Has(t[b], x)
    PROVE  Shrunk(t, new)
  <1>1. \A b \in Talk!Buckets : new[b] \in Seq(Entry)
    BY DEF Chain
  <1>2. new \in [Talk!Buckets -> Seq(Entry)]
    BY <1>1
  <1>3. new \in Tables
    BY <1>2 DEF Tables
  <1> QED
    BY <1>3, EntriesAre DEF Shrunk

LEMMA RemoveAgedIs ==
    ASSUME NEW t \in Tables, NEW age
    PROVE  /\ Shrunk(t, Talk!RemoveAged(t, age))
           /\ age = 0 => Talk!Entries(Talk!RemoveAged(t, age)) = {}
  <1> DEFINE new == Talk!RemoveAged(t, age)
  <1>1. new = [b \in Talk!Buckets |-> Talk!Younger(t[b], age)]
    BY DEF Talk!RemoveAged
  <1> HIDE DEF new
  <1>2. \A b \in Talk!Buckets : /\ new[b] \in Chain(b) /\ \A x : Has(new[b], x) => Has(t[b], x)
                                /\ age = 0 => new[b] = <<>>
    BY <1>1, YoungerIs DEF Tables
  <1>3. Shrunk(t, new)
    <2>1. new = [b \in Talk!Buckets |-> new[b]]
      BY <1>1
    <2> QED
      BY <1>2, <2>1, Shrinks
  <1>4. ASSUME age = 0 PROVE Talk!Entries(new) = {}
    <2>1. \A b \in Talk!Buckets : \A x : ~Has(new[b], x)
      BY <1>2, <1>4 DEF Has
    <2> QED
      BY <1>3, <2>1, EntriesAre DEF Shrunk
  <1> QED
    BY <1>3, <1>4 DEF new

LEMMA TailIs ==
    ASSUME NEW b, NEW s \in Chain(b), s # <<>>
    PROVE  /\ Tail(s) \in Chain(b) /\ Has(s, s[1]) /\ ~Has(Tail(s), s[1])
           /\ \A x : Has(Tail(s), x) => Has(s, x)
  <1> DEFINE l == Tail(s)
  <1>1. /\ s \in Seq(Entry) /\ Len(s) \in Nat
        /\ \A i \in 1 .. Len(s) : Bucket[s[i].name] = b
        /\ \A i, j \in 1 .. Len(s) : s[i].name = s[j].name => i = j
    BY ChainIs
  <1>2. /\ l \in Seq(Entry) /\ Len(l) = Len(s) - 1 /\ Len(s) >= 1
        /\ \A i \in 1 .. Len(l) : l[i] = s[i + 1]
    BY <1>1, HeadTailProperties, EmptySeq
  <1> HIDE DEF l
  <1>3. 1 \in 1 .. Len(s) /\ \A i \in 1 .. Len(l) : i + 1 \in 1 .. Len(s) /\ i + 1 # 1
    BY <1>1, <1>2
  <1>4. \A i \in 1 .. Len(l) : Bucket[l[i].name] = b /\ l[i] # s[1]
    <2> SUFFICES ASSUME NEW i \in 1 .. Len(l) PROVE Bucket[l[i].name] = b /\ l[i] # s[1]
      OBVIOUS
    <2> DEFINE k == i + 1
    <2>1. k \in 1 .. Len(s) /\ k # 1 /\ l[i] = s[k] /\ 1 \in 1 .. Len(s)
      BY <1>2, <1>3
    <2> HIDE DEF k
    <2> QED
      BY <1>1, <2>1
  <1>5. ASSUME NEW i \in 1 .. Len(l), NEW j \in 1 .. Len(l), l[i].name = l[j].name PROVE i = j
    <2>1. i + 1 = j + 1
      BY <1>1, <1>2, <1>3, <1>5
    <2> QED
      BY <2>1
  <1>6. l \in Chain(b)
    BY <1>2, <1>4, <1>5 DEF Chain
  <1>7. Has(s, s[1]) /\ ~Has(l, s[1]) /\ \A x : Has(l, x) => Has(s, x)
    BY <1>2, <1>3, <1>4 DEF Has
  <1> QED
    BY <1>6, <1>7 DEF l

LEMMA SameFinite == ASSUME NEW S PROVE Talk!IsFiniteSet(S) <=> IsFiniteSet(S)
  BY DEF Talk!IsFiniteSet, IsFiniteSet

LEMMA SameCardinality == ASSUME NEW S PROVE Talk!Cardinality(S) = Cardinality(S)
  BY SameFinite DEF Talk!Cardinality, Cardinality

(* With a count of 1, and with a negative one, an entry goes if there is    *)
(* one: the first of the first bucket that is not empty.                    *)
LEMMA RemoveSomeIs ==
    ASSUME Bucket \in [Senders -> Nat], NEW t \in Tables, NEW count \in Int
    PROVE  /\ Shrunk(t, Talk!RemoveSome(t, count))
           /\ count =< 1 /\ count # 0 /\ Talk!Entries(t) # {} =>
                  Talk!Entries(Talk!RemoveSome(t, count)) # Talk!Entries(t)
  <1> DEFINE filled == {b \in Talk!Buckets : t[b] # <<>>}
             Hit(b) == b \in filled
                       /\ (count < 0 \/ Talk!Cardinality({c \in filled : c < b}) < count)
             new == Talk!RemoveSome(t, count)
  <1>1. new = [b \in Talk!Buckets |-> IF Hit(b) THEN Tail(t[b]) ELSE t[b]]
    BY DEF Talk!RemoveSome
  <1>2. \A b \in Talk!Buckets : Hit(b) => t[b] # <<>>
    OBVIOUS
  <1> HIDE DEF Hit, new
  <1>3. \A b \in Talk!Buckets : /\ Hit(b) => new[b] = Tail(t[b])
                                /\ ~Hit(b) => new[b] = t[b]
    BY <1>1
  <1>4. \A b \in Talk!Buckets : /\ new[b] \in Chain(b)
                                /\ \A x : Has(new[b], x) => Has(t[b], x)
                                /\ Hit(b) => Has(t[b], t[b][1]) /\ ~Has(new[b], t[b][1])
    <2> SUFFICES ASSUME NEW b \in Talk!Buckets
                 PROVE  /\ new[b] \in Chain(b)
                        /\ \A x : Has(new[b], x) => Has(t[b], x)
                        /\ Hit(b) => Has(t[b], t[b][1]) /\ ~Has(new[b], t[b][1])
      OBVIOUS
    <2>1. t[b] \in Chain(b)
      BY DEF Tables
    <2>2. CASE Hit(b)
      <3>1. new[b] = Tail(t[b]) /\ t[b] # <<>>
        BY <1>2, <1>3, <2>2
      <3> QED
        BY <2>1, <3>1, TailIs
    <2>3. CASE ~Hit(b)
      BY <1>3, <2>1, <2>3
    <2> QED
      BY <2>2, <2>3
  <1>5. Shrunk(t, new)
    <2>1. new = [b \in Talk!Buckets |-> new[b]]
      BY <1>1
    <2> QED
      BY <1>4, <2>1, Shrinks
  <1>6. ASSUME NEW b \in Talk!Buckets, Hit(b) PROVE Talk!Entries(new) # Talk!Entries(t)
    <2> DEFINE x == t[b][1]
    <2>1. Has(t[b], x) /\ ~Has(new[b], x)
      BY <1>4, <1>6
    <2>2. x \in Talk!Entries(t)
      BY <2>1, EntriesAre
    <2>3. Bucket[x.name] = b
      BY <2>1, ChainIs DEF Has, Tables
    <2>4. x \notin Talk!Entries(new)
      BY <1>5, <2>1, <2>3, EntryIs DEF Shrunk
    <2> QED
      BY <2>2, <2>4
  <1>7. ASSUME count =< 1, count # 0, Talk!Entries(t) # {}
        PROVE  \E b \in Talk!Buckets : Hit(b)
    <2>1. filled # {} /\ filled \subseteq Talk!Buckets
      BY <1>7, EntriesAre DEF Has, Tables
    <2>2. Talk!Buckets \subseteq Nat
      BY DEF Talk!Buckets
    <2>3. PICK b \in filled : \A c \in filled : b =< c
      <3> HIDE DEF filled
      <3> QED
        BY <2>1, <2>2, Least
    <2>4. {c \in filled : c < b} = {}
      <3> HIDE DEF filled
      <3>1. \A c \in filled : ~(c < b)
        BY <2>1, <2>2, <2>3
      <3> QED
        BY <3>1
    <2>5. Talk!Cardinality({c \in filled : c < b}) = 0
      BY <2>4, SameCardinality, FS_EmptySet
    <2>6. count < 0 \/ 0 < count
      BY <1>7
    <2>7. Hit(b)
      BY <2>3, <2>5, <2>6 DEF Hit
    <2> QED
      BY <2>1, <2>3, <2>7
  <1> QED
    BY <1>5, <1>6, <1>7 DEF new

(* So does what makes room for one more.                                    *)
LEMMA RemoveOldestIs ==
    ASSUME Bucket \in [Senders -> Nat], NEW t \in Tables, NEW count \in Int
    PROVE  /\ Shrunk(t, Talk!RemoveOldest(t, count))
           /\ count =< 1 /\ Talk!Entries(t) # {} =>
                  Talk!Entries(Talk!RemoveOldest(t, count)) # Talk!Entries(t)
  BY RemoveAgedIs, RemoveSomeIs DEF Talk!RemoveOldest

----------------------------------------------------------------------------
(* How full the table is.                                                   *)

(* pos is no less than the number of entries, which has its limit.          *)
Room(t, pos) ==
    /\ t \in Tables /\ IsFiniteSet(Talk!Entries(t)) /\ pos \in Int
    /\ Talk!Size(t) =< pos /\ Talk!Size(t) =< FloodUsers

LEMMA SizeIs ==
    ASSUME NEW t, IsFiniteSet(Talk!Entries(t))
    PROVE  Talk!Size(t) = Cardinality(Talk!Entries(t)) /\ Talk!Size(t) \in Nat
  BY SameCardinality, FS_CardinalityType DEF Talk!Size

LEMMA ShrunkSize ==
    ASSUME NEW t \in Tables, IsFiniteSet(Talk!Entries(t)), NEW new, Shrunk(t, new)
    PROVE  /\ IsFiniteSet(Talk!Entries(new)) /\ Talk!Size(new) =< Talk!Size(t)
           /\ Talk!Entries(new) # Talk!Entries(t) => Talk!Size(new) < Talk!Size(t)
  <1>1. Talk!Entries(new) \in SUBSET Talk!Entries(t)
    BY DEF Shrunk
  <1>2. /\ IsFiniteSet(Talk!Entries(new))
        /\ Cardinality(Talk!Entries(new)) =< Cardinality(Talk!Entries(t))
        /\ Cardinality(Talk!Entries(t)) = Cardinality(Talk!Entries(new))
               => Talk!Entries(t) = Talk!Entries(new)
    BY <1>1, FS_Subset
  <1> QED
    BY <1>2, SizeIs

LEMMA PutSize ==
    ASSUME NEW t \in Tables, IsFiniteSet(Talk!Entries(t)), NEW e \in Entry
    PROVE  /\ IsFiniteSet(Talk!Entries(Talk!Put(t, e)))
           /\ Talk!Size(Talk!Put(t, e)) =< Talk!Size(t) + 1
           /\ Talk!Listed(t, e.name) => Talk!Size(Talk!Put(t, e)) =< Talk!Size(t)
  <1> DEFINE old == Talk!Entries(t)
             new == Talk!Entries(Talk!Put(t, e))
  <1>1. \A x : x \in new <=> x = e \/ (x \in old /\ x.name # e.name)
    BY PutIs
  <1>2. IsFiniteSet(old) /\ Cardinality(old) = Talk!Size(t) /\ Talk!Size(t) \in Nat
    BY SizeIs
  <1> HIDE DEF old, new
  <1>3. ASSUME NEW S, IsFiniteSet(S), new \subseteq S \cup {e}
        PROVE  IsFiniteSet(new) /\ Cardinality(new) =< Cardinality(S) + 1
    <2>1. /\ IsFiniteSet(S \cup {e}) /\ Cardinality(S) \in Nat
          /\ Cardinality(S \cup {e}) = IF e \in S THEN Cardinality(S) ELSE Cardinality(S) + 1
      BY <1>3, FS_AddElement, FS_CardinalityType
    <2>2. new \in SUBSET (S \cup {e})
      BY <1>3
    <2>3. IsFiniteSet(new) /\ Cardinality(new) =< Cardinality(S \cup {e})
      BY <2>1, <2>2, FS_Subset
    <2>4. Cardinality(new) \in Nat /\ Cardinality(S \cup {e}) \in Nat
      BY <2>1, <2>3, FS_CardinalityType
    <2> QED
      BY <2>1, <2>3, <2>4
  <1>4. IsFiniteSet(new) /\ Cardinality(new) =< Cardinality(old) + 1
    BY <1>1, <1>2, <1>3
  <1>5. Talk!Size(Talk!Put(t, e)) = Cardinality(new)
    BY <1>4, SizeIs DEF new
  <1>6. ASSUME Talk!Listed(t, e.name) PROVE Cardinality(new) =< Cardinality(old)
    <2>1. PICK x \in old : x.name = e.name
      BY <1>6 DEF Talk!Listed, old
    <2>2. IsFiniteSet(old \ {x}) /\ Cardinality(old \ {x}) = Cardinality(old) - 1
      BY <1>2, <2>1, FS_RemoveElement
    <2>3. new \subseteq (old \ {x}) \cup {e}
      BY <1>1, <2>1
    <2>4. Cardinality(new) =< Cardinality(old \ {x}) + 1
      BY <1>3, <2>2, <2>3
    <2> QED
      BY <1>2, <2>2, <2>4
  <1> QED
    BY <1>2, <1>4, <1>5, <1>6 DEF new

(* For a nick that is listed, the table stays as full as it is.             *)
LEMMA PutListed ==
    ASSUME FloodUsers \in Nat, NEW t, NEW pos, Room(t, pos), NEW e \in Entry, Talk!Listed(t, e.name)
    PROVE  Room(Talk!Put(t, e), pos)
  <1>1. t \in Tables /\ IsFiniteSet(Talk!Entries(t))
    BY DEF Room
  <1>2. Talk!Put(t, e) \in Tables /\ IsFiniteSet(Talk!Entries(Talk!Put(t, e)))
        /\ Talk!Size(Talk!Put(t, e)) =< Talk!Size(t)
    BY <1>1, PutIs, PutSize
  <1>3. Talk!Size(t) \in Nat /\ Talk!Size(Talk!Put(t, e)) \in Nat
    BY <1>1, <1>2, SizeIs
  <1> QED
    BY <1>2, <1>3 DEF Room

(* For a new one there is room.                                             *)
LEMMA NewSenderFits ==
    ASSUME FloodUsers \in Nat \ {0}, Bucket \in [Senders -> Nat], 0 \in 0 .. Aged,
           NEW t, NEW pos, Room(t, pos), NEW nick \in Senders, NEW type \in Talk!FloodTypes
    PROVE  LET a == Talk!NewSender(t, pos, nick, type)
           IN  /\ Room(a.list, a.pos) /\ ~a.flooded
               /\ \A x \in Talk!Entries(a.list) :
                      x \in Talk!Entries(t) \/ (x.name = nick /\ x.cnt = 1)
  <1> DEFINE count == FloodUsers + 1 - pos
             room == IF pos >= FloodUsers THEN Talk!RemoveOldest(t, count) ELSE t
             e == Talk!NewEntry(nick, type)
             a == Talk!NewSender(t, pos, nick, type)
  <1>1. t \in Tables /\ IsFiniteSet(Talk!Entries(t)) /\ pos \in Int
        /\ Talk!Size(t) =< pos /\ Talk!Size(t) =< FloodUsers /\ Talk!Size(t) \in Nat
    BY SizeIs DEF Room
  <1>2. e \in Entry /\ e.name = nick /\ e.cnt = 1
    BY DEF Talk!NewEntry, Entry
  <1>3. /\ a.list = Talk!Put(room, e)
        /\ a.pos = pos - (Talk!Size(t) - Talk!Size(room)) + 1
        /\ a.flooded = FALSE
    BY DEF Talk!NewSender, Talk!Answer
  <1> HIDE DEF a, e
  <1>4. Shrunk(t, room) /\ (Talk!Size(t) >= FloodUsers => Talk!Size(room) < FloodUsers)
    <2>1. CASE pos >= FloodUsers
      <3>1. count \in Int /\ count =< 1
        BY <1>1, <2>1
      <3>2. room = Talk!RemoveOldest(t, count)
        BY <2>1
      <3> HIDE DEF count, room
      <3>3. Shrunk(t, room) /\ (Talk!Entries(t) # {} => Talk!Entries(room) # Talk!Entries(t))
        BY <1>1, <3>1, <3>2, RemoveOldestIs
      <3>4. Talk!Size(t) >= FloodUsers => Talk!Entries(t) # {}
        <4>1. Talk!Size(t) = Cardinality(Talk!Entries(t))
          BY <1>1, SizeIs
        <4> QED
          BY <1>1, <4>1, FS_EmptySet
      <3>5. Talk!Entries(room) # Talk!Entries(t) => Talk!Size(room) < Talk!Size(t)
        BY <1>1, <3>3, ShrunkSize
      <3>6. Talk!Size(room) \in Nat
        BY <1>1, <3>3, ShrunkSize, SizeIs
      <3> QED
        BY <1>1, <3>3, <3>4, <3>5, <3>6
    <2>2. CASE ~(pos >= FloodUsers)
      BY <1>1, <2>2 DEF Shrunk
    <2> QED
      BY <2>1, <2>2
  <1> HIDE DEF room, count
  <1>5. /\ room \in Tables /\ IsFiniteSet(Talk!Entries(room)) /\ Talk!Size(room) =< Talk!Size(t)
        /\ Talk!Size(room) \in Nat
    BY <1>1, <1>4, ShrunkSize, SizeIs DEF Shrunk
  <1>6. /\ a.list \in Tables /\ IsFiniteSet(Talk!Entries(a.list))
        /\ Talk!Size(a.list) =< Talk!Size(room) + 1
    BY <1>2, <1>3, <1>5, PutIs, PutSize
  <1>7. Talk!Size(a.list) \in Nat
    BY <1>6, SizeIs
  <1>8. Room(a.list, a.pos)
    BY <1>1, <1>3, <1>4, <1>5, <1>6, <1>7 DEF Room
  <1>9. \A x \in Talk!Entries(a.list) : x \in Talk!Entries(t) \/ (x.name = nick /\ x.cnt = 1)
    BY <1>2, <1>3, <1>4, <1>5, PutIs DEF Shrunk
  <1> QED
    BY <1>3, <1>8, <1>9 DEF a

----------------------------------------------------------------------------
(* check_flooding.                                                          *)

(* An entry that was there, of the nickname or not, is counted once more at *)
(* most; one that is new, or starts again, counts one.                      *)
CountedOnce(t, new, nick) ==
    \A x \in Talk!Entries(new) :
        \/ x \in Talk!Entries(t)
        \/ /\ x.name = nick
           /\ \/ x.cnt = 1
              \/ \E y \in Talk!Entries(t) : y.name = nick /\ x.cnt =< y.cnt + 1 /\ x.age = y.age

(* The nickname sends too fast.                                             *)
Fast(x, type) ==
    /\ x.cnt > FloodAfter[type]
    /\ x.age = 0 \/ x.cnt * FloodRate[type] > FloodAfter[type] * x.age

LEMMA CheckFloodingIs ==
    ASSUME FloodUsers \in Nat \ {0}, Bucket \in [Senders -> Nat], 0 \in 0 .. Aged,
           FloodAfter \in [Talk!FloodTypes -> Nat],
           NEW t, NEW pos, Room(t, pos), NEW nick \in Senders, NEW type \in Talk!FloodTypes
    PROVE  LET a == Talk!CheckFlooding(t, pos, nick, type)
           IN  /\ Room(a.list, a.pos) /\ CountedOnce(t, a.list, nick)
               /\ a.flooded => \E x \in Talk!Entries(a.list) : x.name = nick /\ Fast(x, type)
  <1> DEFINE a == Talk!CheckFlooding(t, pos, nick, type)
             e == Talk!EntryOf(t, nick)
  <1>1. CASE ~Talk!Listed(t, nick)
    <2>1. a = Talk!NewSender(t, pos, nick, type)
      BY <1>1 DEF Talk!CheckFlooding
    <2>2. /\ Room(a.list, a.pos) /\ ~a.flooded
          /\ \A x \in Talk!Entries(a.list) :
                 x \in Talk!Entries(t) \/ (x.name = nick /\ x.cnt = 1)
      BY <2>1, NewSenderFits
    <2> HIDE DEF a
    <2>3. CountedOnce(t, a.list, nick)
      BY <2>2 DEF CountedOnce
    <2> QED
      BY <2>2, <2>3 DEF a
  <1>2. CASE Talk!Listed(t, nick)
    <2>1. e \in Talk!Entries(t) /\ e.name = nick
      BY <1>2 DEF Talk!Listed, Talk!EntryOf
    <2>2. t \in Tables
      BY DEF Room
    <2>3. e \in Entry
      BY <2>1, <2>2, EntryIs
    <2> HIDE DEF e
    <2>4. ASSUME NEW x \in Entry, x.name = nick,
                 x.cnt = 1 \/ (x.cnt =< e.cnt + 1 /\ x.age = e.age)
          PROVE  /\ Room(Talk!Put(t, x), pos) /\ CountedOnce(t, Talk!Put(t, x), nick)
                 /\ x \in Talk!Entries(Talk!Put(t, x))
      <3>1. Room(Talk!Put(t, x), pos)
        BY <1>2, <2>4, PutListed
      <3>2. \A y : y \in Talk!Entries(Talk!Put(t, x))
                       <=> y = x \/ (y \in Talk!Entries(t) /\ y.name # nick)
        BY <2>2, <2>4, PutIs
      <3> QED
        BY <2>1, <2>4, <3>1, <3>2 DEF CountedOnce
    <2> DEFINE n == [e EXCEPT !.cnt = @ + 1]
               typed == [e EXCEPT !.type = @ \cup {type}]
               flagged == [n EXCEPT !.flood = TRUE]
    <2>5. /\ n \in Entry /\ n.name = nick /\ n.cnt =< e.cnt + 1 /\ n.age = e.age
          /\ typed \in Entry /\ typed.name = nick /\ typed.cnt =< e.cnt + 1 /\ typed.age = e.age
          /\ e.cnt =< e.cnt + 1
      BY <2>1, <2>3 DEF Entry
    <2>6. /\ flagged \in Entry /\ flagged.name = nick /\ flagged.cnt = n.cnt
          /\ flagged.age = n.age
      BY <2>5 DEF Entry
    <2>7. /\ Talk!Restarted(n) \in Entry /\ Talk!Restarted(n).name = nick
          /\ Talk!Restarted(n).cnt = 1
      BY <2>5 DEF Entry, Talk!Restarted
    <2> HIDE DEF n, typed, flagged
    <2>8. \/ a = Talk!Answer(Talk!Put(t, typed), pos, FALSE)
          \/ a = Talk!Answer(Talk!Put(t, e), pos, FALSE)
          \/ a = Talk!Counted(t, pos, nick, type)
      BY <1>2 DEF Talk!CheckFlooding, e, typed
    <2>9. a = Talk!Counted(t, pos, nick, type) =>
              \/ a = Talk!Answer(Talk!Put(t, n), pos, FALSE)
              \/ /\ a = Talk!Answer(Talk!Put(t, flagged), pos, ~n.flood)
                 /\ ~(n.cnt =< FloodAfter[type]) /\ Talk!TooFast(n, type)
              \/ a = Talk!Answer(Talk!Put(t, Talk!Restarted(n)), pos, FALSE)
      BY DEF Talk!Counted, e, n, flagged
    <2> HIDE DEF a
    <2>10. ASSUME NEW x \in Entry, x.name = nick,
                  x.cnt = 1 \/ (x.cnt =< e.cnt + 1 /\ x.age = e.age),
                  NEW f, a = Talk!Answer(Talk!Put(t, x), pos, f)
           PROVE  /\ Room(a.list, a.pos) /\ CountedOnce(t, a.list, nick) /\ a.flooded = f
                  /\ x \in Talk!Entries(a.list)
      <3>1. a.list = Talk!Put(t, x) /\ a.pos = pos /\ a.flooded = f
        BY <2>10 DEF Talk!Answer
      <3> QED
        BY <2>4, <2>10, <3>1
    <2>11. CASE /\ a = Talk!Answer(Talk!Put(t, flagged), pos, ~n.flood)
                /\ ~(n.cnt =< FloodAfter[type]) /\ Talk!TooFast(n, type)
      <3>1. /\ Room(a.list, a.pos) /\ CountedOnce(t, a.list, nick)
            /\ flagged \in Talk!Entries(a.list)
        BY <2>5, <2>6, <2>10, <2>11
      <3>2. n.cnt > FloodAfter[type] /\ Fast(flagged, type)
        <4>1. n.cnt \in Nat /\ FloodAfter[type] \in Nat
          BY <2>5 DEF Entry
        <4>2. n.cnt > FloodAfter[type]
          BY <2>11, <4>1
        <4>3. n.age = 0 \/ n.cnt * FloodRate[type] > FloodAfter[type] * n.age
          BY <2>11 DEF Talk!TooFast
        <4> QED
          BY <2>6, <4>2, <4>3 DEF Fast
      <3> QED
        BY <2>6, <3>1, <3>2 DEF a
    <2>12. CASE \E x \in Entry : /\ x.name = nick
                                 /\ x.cnt = 1 \/ (x.cnt =< e.cnt + 1 /\ x.age = e.age)
                                 /\ a = Talk!Answer(Talk!Put(t, x), pos, FALSE)
      BY <2>10, <2>12 DEF a
    <2> QED
      BY <2>1, <2>3, <2>5, <2>7, <2>8, <2>9, <2>11, <2>12
  <1> QED
    BY <1>1, <1>2

----------------------------------------------------------------------------
(* What the counters have counted has been sent.                            *)

(* The settings, as FloodAssumption has them.                               *)
Settings ==
    /\ FloodUsers \in Nat \ {0} /\ Aged \in Nat /\ MaxCount \in Nat \ {0}
    /\ Bucket \in [Senders -> Nat]
    /\ FloodAfter \in [Talk!FloodTypes -> Nat] /\ FloodRate \in [Talk!FloodTypes -> Nat]
    /\ \A type \in Talk!OtherTypes : OtherCount[type] \in 0 .. MaxCount /\ OtherRate[type] \in 0 .. Aged

LEMMA SettingsHold == Settings
  BY TalkAssumption DEF Settings, Talk!FloodAssumption, Talk!BucketAssumption

Fields == {"flood_list", "pos", "no_flood_list", "counter", "ignored_nicks", "timers",
           "last_reply", "allow", "text", "replies"}

Histories == [Senders -> Seq(0 .. Aged)]

(* The last cnt lines, but for k that are yet to be recorded, are as young.  *)
Recent(ages, k, cnt, age) == \A j \in 1 .. cnt - k : j =< Len(ages) /\ ages[j] =< age

(* Only nick has lines that are yet to be recorded.                         *)
Ahead(nick, k, n) == IF n = nick THEN k ELSE 0

Counters == [Senders -> [Talk!OtherTypes -> [count : 0 .. MaxCount, age : 0 .. Aged]]]

Backed(c, h, nick, k) ==
    /\ \A x \in Talk!Entries(c.flood_list) : Recent(h[x.name], Ahead(nick, k, x.name), x.cnt, x.age)
    /\ \A n \in Senders, t \in Talk!OtherTypes :
           Recent(h[n], Ahead(nick, k, n), c.counter[n][t].count, c.counter[n][t].age)

(* A flood, and that its lines have been sent.                              *)
Enough(cnt, age) ==
    \/ \E type \in Talk!FloodTypes :
           /\ cnt > FloodAfter[type]
           /\ age = 0 \/ cnt * FloodRate[type] > FloodAfter[type] * age
    \/ /\ "PUBLIC" \in Talk!OtherTypes /\ cnt >= OtherCount["PUBLIC"]
       /\ age = 0 \/ age < OtherRate["PUBLIC"]

Proven(ages, k) ==
    \E cnt \in 0 .. MaxCount, age \in 0 .. Aged : Recent(ages, k, cnt, age) /\ Enough(cnt, age)

(* The program while it handles a line of nick, k parts of which have been  *)
(* counted; start is how it was before.                                     *)
Stage(start, c, h, nick, k) ==
    /\ DOMAIN c = Fields
    /\ Room(c.flood_list, c.pos) /\ Talk!CountsBounded(c)
    /\ c.counter \in Counters
    /\ Backed(c, h, nick, k)
    /\ \A m \in DOMAIN c.ignored_nicks \ DOMAIN start.ignored_nicks :
           m = AutoMask[nick] /\ Proven(h[nick], k)

LEMMA RecentLater ==
    ASSUME NEW ages, NEW k \in Nat, NEW l \in Nat, k =< l, NEW cnt \in Nat, NEW age,
           Recent(ages, k, cnt, age)
    PROVE  Recent(ages, l, cnt, age)
  <1>1. \A j \in 1 .. cnt - l : j \in 1 .. cnt - k
    OBVIOUS
  <1> QED
    BY <1>1 DEF Recent

LEMMA ProvenLater ==
    ASSUME Settings, NEW ages, NEW k \in Nat, NEW l \in Nat, k =< l, Proven(ages, k)
    PROVE  Proven(ages, l)
  <1>1. PICK cnt \in 0 .. MaxCount, age \in 0 .. Aged : Recent(ages, k, cnt, age) /\ Enough(cnt, age)
    BY DEF Proven
  <1>2. cnt \in Nat
    BY DEF Settings
  <1>3. Recent(ages, l, cnt, age)
    BY <1>1, <1>2, RecentLater
  <1> QED
    BY <1>1, <1>3 DEF Proven

LEMMA BackedLater ==
    ASSUME Settings, NEW c, NEW h, NEW nick, NEW k \in Nat, NEW l \in Nat, k =< l,
           c.flood_list \in Tables, c.counter \in Counters, Backed(c, h, nick, k)
    PROVE  Backed(c, h, nick, l)
  <1>1. \A n : Ahead(nick, k, n) \in Nat /\ Ahead(nick, l, n) \in Nat
               /\ Ahead(nick, k, n) =< Ahead(nick, l, n)
    BY DEF Ahead
  <1>2. \A x \in Talk!Entries(c.flood_list) : x.cnt \in Nat
    BY EntryIs DEF Entry
  <1>3. \A n \in Senders, t \in Talk!OtherTypes : c.counter[n][t].count \in Nat
    BY DEF Counters, Settings
  <1> QED
    BY <1>1, <1>2, <1>3, RecentLater DEF Backed

LEMMA StageLater ==
    ASSUME Settings, NEW start, NEW c, NEW h, NEW nick, NEW k \in Nat, NEW l \in Nat, k =< l,
           Stage(start, c, h, nick, k)
    PROVE  Stage(start, c, h, nick, l)
  BY BackedLater, ProvenLater DEF Stage, Room

(* What the counting leaves alone.                                          *)
OnlyCounted(c, d) ==
    d.last_reply = c.last_reply /\ d.allow = c.allow /\ d.text = c.text /\ d.replies = c.replies

(* flood_prot ignores the mask of the nickname, and nobody else's.          *)
LEMMA IgnoredMask ==
    ASSUME NEW list, NEW mask, NEW types
    PROVE  DOMAIN Talk!IgnoreNickname(list, mask, types, "IGNORE") = DOMAIN list \cup {mask}
  BY DEF Talk!IgnoreNickname, Talk!With

LEMMA FloodProtIs ==
    ASSUME NEW c, DOMAIN c = Fields, NEW nick, NEW type, NEW time
    PROVE  LET d == Talk!FloodProt(c, nick, type, time)
           IN  /\ DOMAIN d = Fields /\ OnlyCounted(c, d)
               /\ d.flood_list = c.flood_list /\ d.pos = c.pos /\ d.counter = c.counter
               /\ DOMAIN d.ignored_nicks \subseteq DOMAIN c.ignored_nicks \cup {AutoMask[nick]}
  <1> DEFINE ignored == Talk!IgnoreNickname(c.ignored_nicks, AutoMask[nick],
                                            {Talk!IgnoreTypeOf(type)}, "IGNORE")
             d == Talk!FloodProt(c, nick, type, time)
  <1>1. DOMAIN ignored = DOMAIN c.ignored_nicks \cup {AutoMask[nick]}
    BY IgnoredMask
  <1> DEFINE n == [c EXCEPT !.ignored_nicks = ignored]
  <1>2. d = c \/ d = [n EXCEPT !.timers = @ \cup {[mask |-> AutoMask[nick], left |-> time]}]
    BY DEF Talk!FloodProt, Talk!UnignoreTimer
  <1> HIDE DEF d, ignored
  <1> QED
    BY <1>1, <1>2 DEF d, Fields, OnlyCounted

(* Whoever is counted once more has sent once more.                         *)
LEMMA BackedOnce ==
    ASSUME Settings, NEW c, NEW d, NEW h, NEW nick, NEW k \in Nat,
           c.flood_list \in Tables, d.flood_list \in Tables, c.counter \in Counters,
           CountedOnce(c.flood_list, d.flood_list, nick), d.counter = c.counter,
           Backed(c, h, nick, k)
    PROVE  Backed(d, h, nick, k + 1)
  <1>1. Backed(c, h, nick, k + 1)
    <2>1. k + 1 \in Nat /\ k =< k + 1
      OBVIOUS
    <2> QED
      BY <2>1, BackedLater
  <1>2. ASSUME NEW x \in Talk!Entries(d.flood_list)
        PROVE  Recent(h[x.name], Ahead(nick, k + 1, x.name), x.cnt, x.age)
    <2>1. x.cnt \in Nat
      BY EntryIs DEF Entry
    <2>2. CASE x \in Talk!Entries(c.flood_list)
      BY <1>1, <2>2 DEF Backed
    <2>3. CASE x.name = nick /\ x.cnt = 1
      <3>1. Ahead(nick, k + 1, x.name) = k + 1 /\ 1 - (k + 1) < 1
        BY <2>3 DEF Ahead
      <3>2. 1 .. (1 - (k + 1)) = {}
        BY <3>1
      <3> QED
        BY <2>3, <3>1, <3>2 DEF Recent
    <2>4. ASSUME x.name = nick, NEW y \in Talk!Entries(c.flood_list),
                 y.name = nick, x.cnt =< y.cnt + 1, x.age = y.age
          PROVE  Recent(h[x.name], Ahead(nick, k + 1, x.name), x.cnt, x.age)
      <3>1. y.cnt \in Nat
        BY EntryIs DEF Entry
      <3>2. Recent(h[nick], k, y.cnt, x.age)
        BY <2>4 DEF Backed, Ahead
      <3>3. \A j \in 1 .. x.cnt - (k + 1) : j \in 1 .. y.cnt - k
        BY <2>1, <2>4, <3>1
      <3>4. Recent(h[nick], k + 1, x.cnt, x.age)
        BY <3>2, <3>3 DEF Recent
      <3> QED
        BY <2>4, <3>4 DEF Ahead
    <2> QED
      BY <2>2, <2>3, <2>4 DEF CountedOnce
  <1> QED
    BY <1>1, <1>2 DEF Backed

LEMMA CheckedShape ==
    ASSUME NEW c, DOMAIN c = Fields, NEW nick, NEW type
    PROVE  DOMAIN Talk!Checked(c, nick, type) = Fields
  <1> DEFINE a == Talk!CheckFlooding(c.flood_list, c.pos, nick, type)
             counted == [c EXCEPT !.flood_list = a.list, !.pos = a.pos]
  <1>1. DOMAIN counted = Fields
    OBVIOUS
  <1> HIDE DEF a
  <1>2. \/ Talk!Checked(c, nick, type) \in {c, counted}
        \/ Talk!Checked(c, nick, type) = Talk!FloodProt(counted, nick, type, IgnoreTime)
    BY DEF Talk!Checked, Talk!Warned, a
  <1> HIDE DEF counted
  <1> QED
    BY <1>1, <1>2, FloodProtIs

LEMMA CheckedIs ==
    ASSUME Settings, NEW start, NEW c, NEW h, NEW nick \in Senders, NEW k \in Nat,
           Stage(start, c, h, nick, k), NEW type \in Talk!FloodTypes,
           Talk!CountsBounded(Talk!Checked(c, nick, type))
    PROVE  /\ Stage(start, Talk!Checked(c, nick, type), h, nick, k + 1)
           /\ OnlyCounted(c, Talk!Checked(c, nick, type))
  <1> DEFINE a == Talk!CheckFlooding(c.flood_list, c.pos, nick, type)
             counted == [c EXCEPT !.flood_list = a.list, !.pos = a.pos]
             d == Talk!Checked(c, nick, type)
  <1>1. /\ DOMAIN c = Fields /\ Room(c.flood_list, c.pos) /\ c.counter \in Counters
        /\ Backed(c, h, nick, k)
        /\ \A m \in DOMAIN c.ignored_nicks \ DOMAIN start.ignored_nicks :
               m = AutoMask[nick] /\ Proven(h[nick], k)
    BY DEF Stage
  <1>2. k + 1 \in Nat /\ k =< k + 1
    OBVIOUS
  <1>3. /\ Room(a.list, a.pos) /\ CountedOnce(c.flood_list, a.list, nick)
        /\ a.flooded => \E x \in Talk!Entries(a.list) : x.name = nick /\ Fast(x, type)
    <2>1. 0 \in 0 .. Aged
      BY DEF Settings
    <2> QED
      BY <1>1, <2>1, CheckFloodingIs DEF Settings
  <1>4. d = c \/ d = counted \/ (a.flooded /\ d = Talk!FloodProt(counted, nick, type, IgnoreTime))
    BY DEF Talk!Checked, Talk!Warned
  <1> HIDE DEF a, d
  <1>5. CASE d = c
    <2>1. Stage(start, c, h, nick, k + 1)
      BY <1>2, StageLater
    <2> QED
      BY <1>5, <2>1 DEF OnlyCounted, d
  <1>6. CASE d # c
    <2>1. /\ DOMAIN counted = Fields /\ OnlyCounted(c, counted)
          /\ counted.flood_list = a.list /\ counted.pos = a.pos /\ counted.counter = c.counter
          /\ counted.ignored_nicks = c.ignored_nicks
      BY <1>1 DEF Fields, OnlyCounted
    <2> HIDE DEF counted
    <2>2. /\ DOMAIN d = Fields /\ OnlyCounted(c, d)
          /\ d.flood_list = a.list /\ d.pos = a.pos /\ d.counter = c.counter
          /\ \A m \in DOMAIN d.ignored_nicks :
                 m \in DOMAIN c.ignored_nicks \/ (a.flooded /\ m = AutoMask[nick])
      <3>1. CASE d = counted
        BY <2>1, <3>1
      <3>2. CASE a.flooded /\ d = Talk!FloodProt(counted, nick, type, IgnoreTime)
        <4>1. /\ DOMAIN d = Fields /\ OnlyCounted(counted, d)
              /\ d.flood_list = counted.flood_list /\ d.pos = counted.pos
              /\ d.counter = counted.counter
              /\ DOMAIN d.ignored_nicks \subseteq DOMAIN counted.ignored_nicks \cup {AutoMask[nick]}
          BY <2>1, <3>2, FloodProtIs
        <4> QED
          BY <2>1, <3>2, <4>1 DEF OnlyCounted
      <3> QED
        BY <1>4, <1>6, <3>1, <3>2
    <2>3. c.flood_list \in Tables /\ d.flood_list \in Tables
      BY <1>1, <1>3, <2>2 DEF Room
    <2>4. Backed(d, h, nick, k + 1)
      BY <1>1, <1>3, <2>2, <2>3, BackedOnce
    <2>5. Talk!CountsBounded(d)
      BY DEF d
    <2>6. ASSUME a.flooded PROVE Proven(h[nick], k + 1)
      <3>1. PICK x \in Talk!Entries(d.flood_list) : x.name = nick /\ Fast(x, type)
        BY <1>3, <2>2, <2>6
      <3>2. x \in Entry /\ x.cnt =< MaxCount
        BY <2>3, <2>5, EntryIs DEF Talk!CountsBounded
      <3>3. x.cnt \in 0 .. MaxCount /\ x.age \in 0 .. Aged
        BY <3>2 DEF Entry, Settings
      <3>4. Recent(h[nick], k + 1, x.cnt, x.age)
        BY <2>4, <3>1 DEF Backed, Ahead
      <3>5. Enough(x.cnt, x.age)
        BY <3>1 DEF Fast, Enough
      <3> QED
        BY <3>3, <3>4, <3>5 DEF Proven
    <2>7. Proven(h[nick], k) => Proven(h[nick], k + 1)
      BY <1>2, ProvenLater
    <2>8. Stage(start, d, h, nick, k + 1)
      BY <1>1, <1>3, <2>2, <2>4, <2>5, <2>6, <2>7 DEF Stage
    <2> QED
      BY <2>2, <2>8 DEF d
  <1> QED
    BY <1>5, <1>6

(* is_other_flood does the same with the counters of a channel.             *)
LEMMA OtherCheckedIs ==
    ASSUME Settings, NEW start, NEW c, NEW h, NEW nick \in Senders, NEW k \in Nat,
           Stage(start, c, h, nick, k), NEW type
    PROVE  LET o == Talk!OtherChecked(c, nick, type)
           IN  /\ Stage(start, o.client, h, nick, k + 1)
               /\ OnlyCounted(c, o.client)
               /\ o.flooded /\ type = "PUBLIC" => Proven(h[nick], k + 1)
  <1> DEFINE o == Talk!OtherChecked(c, nick, type)
             was == c.counter[nick][type]
             a == Talk!IsOtherFlood(was, type)
  <1>1. /\ DOMAIN c = Fields /\ c.counter \in Counters /\ c.flood_list \in Tables
        /\ Backed(c, h, nick, k)
    BY DEF Stage, Room
  <1>2. k + 1 \in Nat /\ k =< k + 1
    OBVIOUS
  <1>3. Stage(start, c, h, nick, k + 1)
    BY <1>2, StageLater
  <1>4. CASE nick = Nick \/ nick \in c.no_flood_list \/ type \notin Talk!OtherTypes
    <2>1. o = [client |-> c, flooded |-> FALSE]
      BY <1>4 DEF Talk!OtherChecked
    <2>2. o.client = c /\ o.flooded = FALSE
      BY <2>1
    <2> HIDE DEF o
    <2> QED
      BY <1>3, <2>2 DEF OnlyCounted, o
  <1>5. CASE ~(nick = Nick \/ nick \in c.no_flood_list \/ type \notin Talk!OtherTypes)
    <2> DEFINE d == [c EXCEPT !.counter[nick][type] = a.counter]
    <2>1. o.client = d /\ o.flooded = a.flooded
      BY <1>5 DEF Talk!OtherChecked
    <2>2. type \in Talk!OtherTypes
      BY <1>5
    <2>3. /\ OtherCount[type] \in 0 .. MaxCount /\ OtherRate[type] \in 0 .. Aged
          /\ Aged \in Nat /\ MaxCount \in Nat \ {0}
      BY <2>2 DEF Settings
    <2>4. was \in [count : 0 .. MaxCount, age : 0 .. Aged]
      BY <1>1, <2>2 DEF Counters
    <2>5. Recent(h[nick], k, was.count, was.age)
      BY <1>1, <2>2 DEF Backed, Ahead
    <2> HIDE DEF was
    <2>6. /\ a.counter \in [count : 0 .. MaxCount, age : 0 .. Aged]
          /\ \/ a.counter.count = was.count + 1 /\ a.counter.age = was.age
             \/ a.counter.count = 1
          /\ a.flooded => /\ was.count + 1 >= OtherCount[type]
                          /\ was.age = 0 \/ was.age < OtherRate[type]
      <3>1. CASE was.count + 1 < OtherCount[type]
        <4>1. a = [counter |-> [was EXCEPT !.count = was.count + 1], flooded |-> FALSE]
          BY <3>1 DEF Talk!IsOtherFlood
        <4> HIDE DEF a
        <4> QED
          BY <2>3, <2>4, <3>1, <4>1
      <3>2. CASE ~(was.count + 1 < OtherCount[type])
        <4> DEFINE fl == was.age = 0 \/ (OtherRate[type] # 0 /\ was.age < OtherRate[type])
        <4>1. a = [counter |-> [count |-> 1, age |-> IF fl THEN Aged ELSE 0], flooded |-> fl]
          BY <3>2 DEF Talk!IsOtherFlood
        <4>2. a.counter.count = 1 /\ a.counter.age \in 0 .. Aged
              /\ a.counter = [count |-> a.counter.count, age |-> a.counter.age]
          <5> HIDE DEF a
          <5> QED
            BY <2>3, <4>1
        <4>3. a.flooded => was.age = 0 \/ was.age < OtherRate[type]
          <5> HIDE DEF a
          <5> QED
            BY <4>1
        <4>4. 1 \in 0 .. MaxCount
          BY <2>3
        <4>5. was.count + 1 >= OtherCount[type]
          BY <2>3, <2>4, <3>2
        <4> HIDE DEF a
        <4> QED
          BY <4>2, <4>3, <4>4, <4>5
      <3> QED
        BY <3>1, <3>2
    <2> HIDE DEF a, o
    <2>7. /\ DOMAIN d = Fields /\ OnlyCounted(c, d) /\ d.flood_list = c.flood_list
          /\ d.pos = c.pos /\ d.ignored_nicks = c.ignored_nicks
          /\ d.counter = [c.counter EXCEPT ![nick][type] = a.counter]
      BY <1>1 DEF Fields, OnlyCounted
    <2> HIDE DEF d
    <2>8. /\ d.counter \in Counters
          /\ d.counter[nick][type] = a.counter
          /\ \A n \in Senders, t \in Talk!OtherTypes :
                 n # nick \/ t # type => d.counter[n][t] = c.counter[n][t]
      BY <1>1, <2>2, <2>6, <2>7 DEF Counters
    <2>9. Recent(h[nick], k + 1, a.counter.count, a.counter.age)
      <3>1. CASE a.counter.count = was.count + 1 /\ a.counter.age = was.age
        <4>1. (was.count + 1) - (k + 1) = was.count - k
          BY <2>4
        <4> QED
          BY <2>5, <3>1, <4>1 DEF Recent
      <3>2. CASE a.counter.count = 1
        <4>1. 1 .. (1 - (k + 1)) = {}
          BY <1>2
        <4> QED
          BY <3>2, <4>1 DEF Recent
      <3> QED
        BY <2>6, <3>1, <3>2
    <2>10. Backed(d, h, nick, k + 1)
      <3>1. Backed(c, h, nick, k + 1)
        BY <1>1, <1>2, BackedLater
      <3>2. ASSUME NEW n \in Senders, NEW t \in Talk!OtherTypes
            PROVE  Recent(h[n], Ahead(nick, k + 1, n), d.counter[n][t].count, d.counter[n][t].age)
        <4>1. CASE n = nick /\ t = type
          BY <2>8, <2>9, <4>1 DEF Ahead
        <4>2. CASE ~(n = nick /\ t = type)
          BY <2>8, <3>1, <4>2 DEF Backed
        <4> QED
          BY <4>1, <4>2
      <3> QED
        BY <2>7, <3>1, <3>2 DEF Backed
    <2>11. Stage(start, d, h, nick, k + 1)
      BY <1>3, <2>7, <2>8, <2>10 DEF Stage, Talk!CountsBounded
    <2>12. ASSUME a.flooded, type = "PUBLIC" PROVE Proven(h[nick], k + 1)
      <3> DEFINE cnt == OtherCount[type]
      <3>1. cnt \in 0 .. MaxCount /\ cnt =< was.count + 1 /\ was.age \in 0 .. Aged /\ was.count \in Nat
        BY <2>3, <2>4, <2>6, <2>12
      <3>2. \A j \in 1 .. cnt - (k + 1) : j \in 1 .. was.count - k
        <4> HIDE DEF cnt
        <4> QED
          BY <2>3, <3>1
      <3>3. Recent(h[nick], k + 1, cnt, was.age)
        <4> HIDE DEF cnt
        <4> QED
          BY <2>5, <3>2 DEF Recent
      <3>4. Enough(cnt, was.age)
        <4>1. cnt >= cnt
          BY <2>3
        <4> QED
          BY <2>2, <2>6, <2>12, <4>1 DEF Enough
      <3> QED
        BY <3>1, <3>3, <3>4 DEF Proven
    <2> QED
      BY <2>1, <2>7, <2>11, <2>12 DEF o
  <1> QED
    BY <1>4, <1>5

----------------------------------------------------------------------------
(* do_ctcp.                                                                 *)

(* At most one request of a line is answered, the first one that allow does *)
(* not stop, and none before its time.                                      *)
Replied(start, c) ==
    /\ c.last_reply \in {start.last_reply, 0} /\ c.replies \in {0, 1}
    /\ c.allow => c.replies = 0 /\ c.last_reply = start.last_reply
    /\ c.replies = 1 => start.last_reply >= CtcpDelay /\ c.last_reply = 0

(* What is left of the line is its text, or what UTC leaves.                *)
Utc(line) == "UTC" \in Talk!ToSet(line.ctcps)
Left(line, c) == c.text \in BOOLEAN /\ (c.text = TRUE => line.text = TRUE \/ Utc(line))

LEMMA OneCtcpIs ==
    ASSUME Settings, CtcpDelay \in Nat,
           NEW start, start.last_reply \in Nat, NEW c, NEW h, NEW line, line.from \in Senders,
           NEW k \in Nat, Stage(start, c, h, line.from, k), Replied(start, c), NEW command,
           Left(line, c), command = "UTC" => Utc(line),
           Talk!CountsBounded(Talk!OneCtcp(c, line, command))
    PROVE  LET d == Talk!OneCtcp(c, line, command)
           IN  Stage(start, d, h, line.from, k + 1) /\ Replied(start, d) /\ Left(line, d)
  <1> DEFINE type == Talk!FloodType(command)
             e == Talk!Checked(c, line.from, type)
             more == IF Talk!Replies(command, line.to) THEN 1 ELSE 0
             d == Talk!OneCtcp(c, line, command)
  <1>1. \/ /\ ~c.allow /\ d = c
        \/ /\ c.allow /\ d = [[e EXCEPT !.last_reply = 0] EXCEPT !.allow = FALSE]
        \/ /\ c.allow /\ d = [e EXCEPT !.allow = FALSE]
        \/ /\ c.allow /\ d = [e EXCEPT !.text = @ \/ command = "UTC"]
        \/ /\ c.allow /\ ~Talk!TooSoon(c, command)
           /\ d = [[e EXCEPT !.last_reply = 0, !.replies = @ + more] EXCEPT !.allow = FALSE]
    <2> HIDE DEF e, more
    <2>1. CASE ~c.allow
      BY <2>1 DEF Talk!OneCtcp
    <2>2. CASE c.allow /\ Talk!TooSoon(c, command)
      BY <2>2 DEF Talk!OneCtcp, e
    <2>3. CASE c.allow /\ ~Talk!TooSoon(c, command) /\ command \notin Talk!Known
      BY <2>3 DEF Talk!OneCtcp, e
    <2>4. CASE c.allow /\ ~Talk!TooSoon(c, command) /\ command \in Talk!Known /\ command \in Talk!NoLimit
      BY <2>4 DEF Talk!OneCtcp, e
    <2>5. CASE c.allow /\ ~Talk!TooSoon(c, command) /\ command \in Talk!Known /\ command \notin Talk!NoLimit
      BY <2>5 DEF Talk!OneCtcp, e, more
    <2> QED
      BY <2>1, <2>2, <2>3, <2>4, <2>5
  <1>2. more \in {0, 1} /\ (more = 1 => command \notin {"ACTION", "DCC"})
    BY DEF Talk!Replies, Talk!Replying
  <1>3. k + 1 \in Nat /\ k =< k + 1 /\ Talk!CountsBounded(d)
    OBVIOUS
  <1>4. type \in Talk!FloodTypes
    BY DEF Talk!FloodType, Talk!FloodTypes
  <1> HIDE DEF d, e, more, type
  <1>5. CASE ~c.allow /\ d = c
    <2>1. Stage(start, c, h, line.from, k + 1)
      BY <1>3, StageLater
    <2> QED
      BY <1>5, <2>1 DEF d
  <1>6. CASE c.allow /\ d # c
    <2>1. /\ DOMAIN c = Fields /\ c.replies = 0 /\ c.last_reply = start.last_reply
      BY <1>6 DEF Stage, Replied
    <2>2. \/ d = [[e EXCEPT !.last_reply = 0] EXCEPT !.allow = FALSE]
          \/ d = [e EXCEPT !.allow = FALSE]
          \/ d = [e EXCEPT !.text = @ \/ command = "UTC"]
          \/ /\ ~Talk!TooSoon(c, command)
             /\ d = [[e EXCEPT !.last_reply = 0, !.replies = @ + more] EXCEPT !.allow = FALSE]
      BY <1>1, <1>6
    <2>3. Talk!CountsBounded(e) /\ Stage(start, e, h, line.from, k + 1) /\ OnlyCounted(c, e)
      <3>0. DOMAIN e = Fields
        BY <2>1, CheckedShape DEF e
      <3>1. d.flood_list = e.flood_list
        BY <2>2, <3>0 DEF Fields
      <3>2. Talk!CountsBounded(e)
        BY <1>3, <3>1 DEF Talk!CountsBounded
      <3> QED
        BY <1>4, <3>2, CheckedIs DEF e
    <2>4. DOMAIN e = Fields /\ e.replies = 0 /\ e.last_reply = start.last_reply /\ e.text = c.text
      BY <2>1, <2>3 DEF Stage, OnlyCounted
    <2>5. /\ DOMAIN d = Fields /\ d.flood_list = e.flood_list /\ d.pos = e.pos
          /\ d.counter = e.counter /\ d.ignored_nicks = e.ignored_nicks
      BY <2>2, <2>4 DEF Fields
    <2>6. Stage(start, d, h, line.from, k + 1)
      BY <2>3, <2>5 DEF Stage, Backed, Talk!CountsBounded
    <2>7. Replied(start, d) /\ Left(line, d)
      <3>1. CASE d = [[e EXCEPT !.last_reply = 0] EXCEPT !.allow = FALSE]
        BY <2>4, <3>1 DEF Fields, Replied, Left
      <3>2. CASE d = [e EXCEPT !.allow = FALSE]
        BY <2>4, <3>2 DEF Fields, Replied, Left
      <3>3. CASE d = [e EXCEPT !.text = @ \/ command = "UTC"]
        <4>1. d.last_reply = e.last_reply /\ d.replies = e.replies
          BY <2>4, <3>3 DEF Fields
        <4>2. "text" \in DOMAIN e
          BY <2>4 DEF Fields
        <4>3. d.text = (e.text \/ command = "UTC")
          BY <3>3, <4>2, Zenon
        <4>4. c.text = d.text \/ (command = "UTC" /\ d.text = TRUE)
          <5>1. c.text = TRUE \/ c.text = FALSE
            BY DEF Left
          <5>2. command = "UTC" => d.text = TRUE
            BY <4>3, Zenon
          <5>3. command # "UTC" => d.text = e.text
            BY <2>4, <4>3, <5>1, Zenon
          <5> QED
            BY <2>4, <5>2, <5>3
        <4>5. Replied(start, d)
          BY <2>4, <4>1 DEF Replied
        <4> QED
          BY <4>4, <4>5 DEF Left
      <3>4. CASE /\ ~Talk!TooSoon(c, command)
                 /\ d = [[e EXCEPT !.last_reply = 0, !.replies = @ + more] EXCEPT !.allow = FALSE]
        <4>1. more = 1 => start.last_reply >= CtcpDelay
          BY <1>2, <2>1, <3>4 DEF Talk!TooSoon
        <4>2. d.last_reply = 0 /\ d.replies = more /\ d.allow = FALSE /\ d.text = c.text
          BY <1>2, <2>4, <3>4 DEF Fields
        <4> QED
          BY <1>2, <4>1, <4>2 DEF Replied, Left
      <3> QED
        BY <2>2, <3>1, <3>2, <3>3, <3>4
    <2> QED
      BY <2>6, <2>7 DEF d
  <1>7. ~c.allow => d = c
    BY <1>1
  <1>8. CASE c.allow /\ d = c
    <2>1. Stage(start, c, h, line.from, k + 1)
      BY <1>3, StageLater
    <2> QED
      BY <1>8, <2>1 DEF d
  <1> QED
    BY <1>5, <1>6, <1>7, <1>8

(* The loop has a value.                                                    *)
Turned(done, s, line, m) ==
    done = [i \in 0 .. m |-> IF i = 0 THEN s ELSE Talk!OneCtcp(done[i - 1], line, line.ctcps[i])]

LEMMA TurnedExists ==
    ASSUME NEW s, NEW line, NEW n \in Nat
    PROVE  \E f : Turned(f, s, line, n)
  <1> DEFINE P(m) == \E f : Turned(f, s, line, m)
             Bad == {m \in 0 .. n : ~P(m)}
  <1>1. 0 \notin Bad
    <2> DEFINE f == [i \in 0 .. 0 |-> s]
    <2>1. \A i \in 0 .. 0 : i = 0
      OBVIOUS
    <2>2. f = [i \in 0 .. 0 |-> IF i = 0 THEN s ELSE Talk!OneCtcp(f[i - 1], line, line.ctcps[i])]
      BY <2>1
    <2> QED
      BY <2>2 DEF Turned
  <1>2. ASSUME NEW k \in 1 .. n, P(k - 1) PROVE P(k)
    <2>1. PICK f : Turned(f, s, line, k - 1)
      BY <1>2
    <2> DEFINE F(g) == [i \in 0 .. k |->
                           IF i = 0 THEN s ELSE Talk!OneCtcp(g[i - 1], line, line.ctcps[i])]
               g == [i \in 0 .. k |-> IF i = k THEN Talk!OneCtcp(f[k - 1], line, line.ctcps[k]) ELSE f[i]]
    <2>2. \A i \in 0 .. k : /\ i # k => i \in 0 .. k - 1
                            /\ i # 0 => i - 1 \in 0 .. k /\ i - 1 # k
      OBVIOUS
    <2>3. \A i \in 0 .. k - 1 :
              f[i] = IF i = 0 THEN s ELSE Talk!OneCtcp(f[i - 1], line, line.ctcps[i])
      BY <2>1 DEF Turned
    <2>4. k # 0
      OBVIOUS
    <2>5. \A i \in 0 .. k : i # 0 => g[i - 1] = f[i - 1]
      BY <2>2
    <2>6. \A i \in 0 .. k : g[i] = F(g)[i]
      <3> SUFFICES ASSUME NEW i \in 0 .. k PROVE g[i] = F(g)[i]
        OBVIOUS
      <3>1. CASE i = 0
        <4>1. i # k /\ i \in 0 .. k - 1
          BY <2>2, <2>4, <3>1
        <4>2. g[i] = f[i] /\ F(g)[i] = s
          BY <3>1, <4>1
        <4> QED
          BY <2>3, <3>1, <4>1, <4>2
      <3>2. CASE i # 0
        <4>1. F(g)[i] = Talk!OneCtcp(f[i - 1], line, line.ctcps[i])
          BY <2>5, <3>2
        <4>2. CASE i = k
          BY <4>1, <4>2
        <4>3. CASE i # k
          BY <2>2, <2>3, <3>2, <4>1, <4>3
        <4> QED
          BY <4>2, <4>3
      <3> QED
        BY <3>1, <3>2
    <2>7. g = F(g)
      <3>1. g = [i \in 0 .. k |-> g[i]] /\ F(g) = [i \in 0 .. k |-> F(g)[i]]
        OBVIOUS
      <3> HIDE DEF g, F
      <3> QED
        BY <2>6, <3>1
    <2> QED
      BY <2>7 DEF Turned
  <1>3. \A k \in 1 .. n : k \in Bad => k - 1 \in Bad
    <2> HIDE DEF P
    <2> SUFFICES ASSUME NEW k \in 1 .. n, k \in Bad PROVE k - 1 \in Bad
      OBVIOUS
    <2>1. k - 1 \in 0 .. n
      OBVIOUS
    <2> QED
      BY <1>2, <2>1
  <1>4. Bad \in SUBSET (0 .. n) /\ n \in 0 .. n
    OBVIOUS
  <1> HIDE DEF Bad
  <1>5. Bad = {}
    BY <1>1, <1>3, <1>4, NoneBad
  <1> QED
    BY <1>4, <1>5 DEF Bad

LEMMA TurnsKeep ==
    ASSUME Settings, CtcpDelay \in Nat,
           NEW start, start.last_reply \in Nat, NEW h, NEW line, line.from \in Senders,
           line.ctcps \in Seq(STRING), NEW s, Stage(start, s, h, line.from, 0), Replied(start, s),
           Left(line, s),
           NEW done, done[0] = s,
           \A i \in 1 .. Len(line.ctcps) : /\ done[i] = Talk!OneCtcp(done[i - 1], line, line.ctcps[i])
                                           /\ Talk!CountsBounded(done[i])
    PROVE  LET d == done[Len(line.ctcps)]
           IN  /\ Stage(start, d, h, line.from, Len(line.ctcps)) /\ Replied(start, d)
               /\ Left(line, d)
  <1> DEFINE n == Len(line.ctcps)
             Good(i) == /\ Stage(start, done[i], h, line.from, i) /\ Replied(start, done[i])
                        /\ Left(line, done[i])
             Bad == {i \in 0 .. n : ~Good(i)}
  <1>1. n \in Nat /\ DOMAIN line.ctcps = 1 .. n
    OBVIOUS
  <1>2. 0 \notin Bad
    OBVIOUS
  <1>3. ASSUME NEW k \in 1 .. n, Good(k - 1) PROVE Good(k)
    <2>1. k - 1 \in Nat /\ (k - 1) + 1 = k
      BY <1>1
    <2>2. line.ctcps[k] = "UTC" => Utc(line)
      BY <1>1 DEF Utc, Talk!ToSet
    <2>3. /\ done[k] = Talk!OneCtcp(done[k - 1], line, line.ctcps[k])
          /\ Talk!CountsBounded(done[k])
      OBVIOUS
    <2> DEFINE c == done[k - 1]
               command == line.ctcps[k]
               l == k - 1
    <2>4. Stage(start, c, h, line.from, l) /\ Replied(start, c) /\ Left(line, c) /\ l \in Nat
      BY <1>3, <2>1
    <2>5. Talk!CountsBounded(Talk!OneCtcp(c, line, command)) /\ (command = "UTC" => Utc(line))
      BY <2>2, <2>3
    <2> HIDE DEF c, command, l
    <2>6. /\ Stage(start, Talk!OneCtcp(c, line, command), h, line.from, l + 1)
          /\ Replied(start, Talk!OneCtcp(c, line, command))
          /\ Left(line, Talk!OneCtcp(c, line, command))
      BY <2>4, <2>5, OneCtcpIs
    <2> QED
      BY <2>1, <2>3, <2>6 DEF c, command, l
  <1>4. \A k \in 1 .. n : k \in Bad => k - 1 \in Bad
    <2> HIDE DEF Good
    <2> SUFFICES ASSUME NEW k \in 1 .. n, k \in Bad PROVE k - 1 \in Bad
      OBVIOUS
    <2>1. k - 1 \in 0 .. n
      BY <1>1
    <2> QED
      BY <1>3, <2>1
  <1>5. Bad \in SUBSET (0 .. n) /\ n \in 0 .. n
    BY <1>1
  <1> HIDE DEF Bad
  <1>6. Bad = {}
    <2> HIDE DEF n
    <2> QED
      BY <1>1, <1>2, <1>4, <1>5, NoneBad
  <1>7. Good(n)
    <2> HIDE DEF Good
    <2> QED
      BY <1>5, <1>6 DEF Bad
  <1> QED
    BY <1>7

LEMMA DoCtcpIs ==
    ASSUME Settings, CtcpDelay \in Nat,
           NEW start, start.last_reply \in Nat, NEW h, NEW line, line.from \in Senders,
           line.ctcps \in Seq(STRING), line.text \in BOOLEAN,
           Stage(start, start, h, line.from, 0),
           \A i \in DOMAIN line.ctcps : Talk!CountsBounded(Talk!Turns(start, line)[i])
    PROVE  LET d == Talk!DoCtcp(start, line)
           IN  /\ Stage(start, d, h, line.from, Len(line.ctcps)) /\ Replied(start, d)
               /\ Left(line, d)
  <1> DEFINE n == Len(line.ctcps)
             flag == Talk!CheckIgnore(start.ignored_nicks, line.from, line.to, "CTCPS", FALSE)
             s == [start EXCEPT !.allow = flag # "IGNORED" /\ line.to # "$",
                                !.text = line.text, !.replies = 0]
             E(f) == [i \in 0 .. n |->
                         IF i = 0 THEN s ELSE Talk!OneCtcp(f[i - 1], line, line.ctcps[i])]
             done == CHOOSE f : f = E(f)
  <1>1. n \in Nat /\ DOMAIN line.ctcps = 1 .. n
    OBVIOUS
  <1>2. Talk!Turns(start, line) = done
    BY DEF Talk!Turns
  <1>3. Talk!DoCtcp(start, line) = done[n]
    BY <1>2 DEF Talk!DoCtcp
  <1>4. Stage(start, s, h, line.from, 0) /\ Replied(start, s) /\ Left(line, s)
    <2> HIDE DEF flag
    <2>1. DOMAIN start = Fields
      BY DEF Stage
    <2>2. /\ DOMAIN s = Fields /\ s.flood_list = start.flood_list /\ s.pos = start.pos
          /\ s.counter = start.counter /\ s.ignored_nicks = start.ignored_nicks
          /\ s.last_reply = start.last_reply /\ s.replies = 0
      BY <2>1 DEF Fields
    <2>3. s.text = line.text
      BY <2>1 DEF Fields
    <2> HIDE DEF s
    <2>4. Stage(start, s, h, line.from, 0)
      BY <2>2 DEF Stage, Backed, Talk!CountsBounded
    <2>5. Replied(start, s)
      BY <2>2 DEF Replied
    <2> QED
      BY <2>3, <2>4, <2>5 DEF Left
  <1> HIDE DEF s
  <1>5. \E f : f = E(f)
    <2> HIDE DEF n
    <2>1. PICK f : Turned(f, s, line, n)
      BY <1>1, TurnedExists
    <2> QED
      BY <2>1 DEF Turned
  <1> HIDE DEF E
  <1>6. done = E(done)
    BY <1>5, Zenon
  <1> HIDE DEF done
  <1> USE DEF E
  <1>7. 0 \in 0 .. n /\ \A k \in 1 .. n : k \in 0 .. n /\ k # 0
    BY <1>1
  <1>8. /\ done[0] = s
        /\ \A k \in 1 .. n : done[k] = Talk!OneCtcp(done[k - 1], line, line.ctcps[k])
    BY <1>6, <1>7, Zenon
  <1> HIDE DEF E
  <1>9. \A k \in 1 .. n : Talk!CountsBounded(done[k])
    BY <1>1, <1>2
  <1> QED
    BY <1>3, <1>4, <1>8, <1>9, TurnsKeep

----------------------------------------------------------------------------
(* The handlers.                                                            *)

Line(line) ==
    /\ line.command \in Talk!Commands /\ line.from \in Senders
    /\ line.ctcps \in Seq(STRING) /\ line.text \in BOOLEAN
    /\ line.command \in {"INVITE", "WALLOPS"} => line.text

LEMMA PartsAre ==
    ASSUME NEW line, Line(line)
    PROVE  /\ Talk!Parts(line) \in Nat /\ Len(line.ctcps) \in Nat
           /\ Len(line.ctcps) =< Talk!Parts(line)
           /\ line.text = TRUE \/ Utc(line) => Talk!Parts(line) = Len(line.ctcps) + 1
  <1>1. Len(line.ctcps) \in Nat
    BY DEF Line
  <1>2. CASE line.text = TRUE \/ Utc(line)
    <2>1. Talk!Parts(line) = Len(line.ctcps) + 1
      BY <1>2 DEF Talk!Parts, Utc
    <2> QED
      BY <1>1, <2>1
  <1>3. CASE ~(line.text = TRUE \/ Utc(line))
    <2>1. line.text = FALSE
      BY <1>3 DEF Line
    <2>2. Talk!Parts(line) = Len(line.ctcps) + 0
      BY <1>3, <2>1 DEF Talk!Parts, Utc
    <2> QED
      BY <1>1, <1>3, <2>2
  <1> QED
    BY <1>2, <1>3

(* What a line has done to the replies.                                     *)
Answered(start, c) ==
    /\ c.last_reply \in {start.last_reply, 0} /\ c.replies \in {0, 1}
    /\ c.replies = 1 => start.last_reply >= CtcpDelay /\ c.last_reply = 0

LEMMA FloodProtStage ==
    ASSUME NEW start, NEW c, NEW h, NEW nick, NEW k, Stage(start, c, h, nick, k),
           Proven(h[nick], k), NEW type, NEW time
    PROVE  /\ Stage(start, Talk!FloodProt(c, nick, type, time), h, nick, k)
           /\ OnlyCounted(c, Talk!FloodProt(c, nick, type, time))
  <1> DEFINE d == Talk!FloodProt(c, nick, type, time)
  <1>1. DOMAIN c = Fields
    BY DEF Stage
  <1>2. /\ DOMAIN d = Fields /\ OnlyCounted(c, d)
        /\ d.flood_list = c.flood_list /\ d.pos = c.pos /\ d.counter = c.counter
        /\ DOMAIN d.ignored_nicks \subseteq DOMAIN c.ignored_nicks \cup {AutoMask[nick]}
    BY <1>1, FloodProtIs
  <1> HIDE DEF d
  <1>3. Stage(start, d, h, nick, k)
    BY <1>2 DEF Stage, Backed, Talk!CountsBounded
  <1> QED
    BY <1>2, <1>3 DEF d

(* The hypotheses on a line that is read.                                   *)
Reads(start, h, line) ==
    /\ Settings /\ CtcpDelay \in Nat
    /\ start.last_reply \in Nat /\ start.replies = 0
    /\ Line(line) /\ Stage(start, start, h, line.from, 0)

Tells(start, d, h, line) == Stage(start, d, h, line.from, Talk!Parts(line)) /\ Answered(start, d)

(* Nothing is done.                                                         *)
LEMMA NothingCounts ==
    ASSUME NEW start, NEW h, NEW line, Reads(start, h, line)
    PROVE  Tells(start, start, h, line)
  <1> DEFINE p == Talk!Parts(line)
  <1>1. p \in Nat
    BY PartsAre DEF Reads
  <1>2. 0 \in Nat /\ 0 =< p
    <2> HIDE DEF p
    <2> QED
      BY <1>1
  <1>3. Stage(start, start, h, line.from, p)
    <2>1. Stage(start, start, h, line.from, 0) /\ Settings
      BY DEF Reads
    <2> HIDE DEF p
    <2> QED
      BY <1>1, <1>2, <2>1, StageLater
  <1> QED
    BY <1>3 DEF Tells, Answered, Reads

(* What is said is counted once.                                            *)
LEMMA SaidCounts ==
    ASSUME NEW start, NEW h, NEW line, Reads(start, h, line), line.text = TRUE,
           NEW type \in Talk!FloodTypes, Talk!CountsBounded(Talk!Checked(start, line.from, type))
    PROVE  Tells(start, Talk!Checked(start, line.from, type), h, line)
  <1> DEFINE d == Talk!Checked(start, line.from, type)
             p == Talk!Parts(line)
             n == Len(line.ctcps)
  <1>1. p \in Nat /\ n \in Nat /\ p = n + 1
    <2>1. Line(line)
      BY DEF Reads
    <2> QED
      BY <2>1, PartsAre
  <1>2. Stage(start, d, h, line.from, 0 + 1) /\ OnlyCounted(start, d)
    <2>1. Stage(start, start, h, line.from, 0) /\ line.from \in Senders /\ Settings /\ 0 \in Nat
      BY DEF Reads, Line
    <2> QED
      BY <2>1, CheckedIs
  <1> HIDE DEF d, p, n
  <1>3. Stage(start, d, h, line.from, p)
    <2>1. 0 + 1 \in Nat /\ 0 + 1 =< p
      BY <1>1
    <2> QED
      BY <1>1, <1>2, <2>1, StageLater DEF Reads
  <1>4. Answered(start, d)
    BY <1>2 DEF Answered, Reads, OnlyCounted
  <1> QED
    BY <1>3, <1>4 DEF Tells, d, p

LEMMA PrivmsgCounts ==
    ASSUME NEW start, NEW h, NEW line, Reads(start, h, line),
           Talk!CountsBounded(Talk!PPrivmsg(start, line)),
           \A i \in DOMAIN line.ctcps : Talk!CountsBounded(Talk!Turns(start, line)[i])
    PROVE  Tells(start, Talk!PPrivmsg(start, line), h, line)
  <1> DEFINE n == Len(line.ctcps)
             c == Talk!DoCtcp(start, line)
             public == Talk!OtherChecked(c, line.from, "PUBLIC")
             msg == Talk!Checked(c, line.from, "MSG")
             flooded == Talk!FloodProt(public.client, line.from, "PUBLIC", PubfloodTime)
             d == Talk!PPrivmsg(start, line)
  <1>1. Settings /\ line.from \in Senders
    BY DEF Reads, Line
  <1>2. /\ Talk!Parts(line) \in Nat /\ n \in Nat /\ n =< Talk!Parts(line)
        /\ line.text = TRUE \/ Utc(line) => Talk!Parts(line) = n + 1
    BY PartsAre DEF Reads
  <1>3. Stage(start, c, h, line.from, n) /\ Replied(start, c) /\ Left(line, c)
    BY DoCtcpIs DEF Reads, Line
  <1>4. \/ d = start
        \/ c.text = FALSE /\ d = c
        \/ c.text = TRUE /\ d = msg
        \/ c.text = TRUE /\ public.flooded /\ d = flooded
        \/ c.text = TRUE /\ d = public.client
    <2>1. c.text = TRUE \/ c.text = FALSE
      BY <1>3 DEF Left
    <2> HIDE DEF c, public, msg, flooded
    <2> QED
      BY <2>1 DEF Talk!PPrivmsg, c, public, msg, flooded
  <1>5. Talk!CountsBounded(d)
    OBVIOUS
  <1> HIDE DEF n, c, d
  <1>6. CASE d = start
    BY <1>6, NothingCounts DEF d
  <1>7. CASE d = c
    <2>1. Stage(start, d, h, line.from, Talk!Parts(line))
      BY <1>1, <1>2, <1>3, <1>7, StageLater
    <2>2. Answered(start, d)
      BY <1>3, <1>7 DEF Answered, Replied
    <2> QED
      BY <2>1, <2>2 DEF Tells, d
  <1>8. ASSUME c.text = TRUE, Stage(start, d, h, line.from, n + 1), OnlyCounted(c, d)
        PROVE  Tells(start, d, h, line)
    <2>1. Talk!Parts(line) = n + 1
      BY <1>2, <1>3, <1>8 DEF Left
    <2>2. Answered(start, d)
      BY <1>3, <1>8 DEF Answered, Replied, OnlyCounted
    <2> QED
      BY <1>8, <2>1, <2>2 DEF Tells
  <1>9. CASE c.text = TRUE /\ d = msg
    <2>1. "MSG" \in Talk!FloodTypes
      BY DEF Talk!FloodTypes
    <2>2. Stage(start, d, h, line.from, n + 1) /\ OnlyCounted(c, d)
      BY <1>1, <1>2, <1>3, <1>5, <1>9, <2>1, CheckedIs
    <2> QED
      BY <1>8, <1>9, <2>2 DEF d
  <1>10. /\ Stage(start, public.client, h, line.from, n + 1) /\ OnlyCounted(c, public.client)
         /\ public.flooded => Proven(h[line.from], n + 1)
    BY <1>1, <1>2, <1>3, OtherCheckedIs
  <1> HIDE DEF public
  <1>11. CASE c.text = TRUE /\ d = public.client
    BY <1>8, <1>10, <1>11 DEF d
  <1>12. CASE c.text = TRUE /\ public.flooded /\ d = flooded
    <2>1. Stage(start, d, h, line.from, n + 1) /\ OnlyCounted(public.client, d)
      BY <1>10, <1>12, FloodProtStage
    <2>2. OnlyCounted(c, d)
      BY <1>10, <2>1 DEF OnlyCounted
    <2> QED
      BY <1>8, <1>12, <2>1, <2>2 DEF d
  <1> QED
    BY <1>4, <1>6, <1>7, <1>9, <1>11, <1>12 DEF d

LEMMA HandledCounts ==
    ASSUME NEW start, NEW h, NEW line, Reads(start, h, line),
           Talk!CountsBounded(Talk!Handled(start, line)),
           line.command = "PRIVMSG" =>
               \A i \in DOMAIN line.ctcps : Talk!CountsBounded(Talk!Turns(start, line)[i])
    PROVE  Tells(start, Talk!Handled(start, line), h, line)
  <1>1. line.command \in {"PRIVMSG", "NOTICE", "INVITE", "WALLOPS"}
    BY DEF Reads, Line, Talk!Commands
  <1>2. line.command \in {"INVITE", "WALLOPS"} => line.text = TRUE
    BY DEF Reads, Line
  <1>3. line.text = TRUE \/ line.text = FALSE
    BY DEF Reads, Line
  <1>4. CASE line.command = "PRIVMSG"
    <2>1. Talk!Handled(start, line) = Talk!PPrivmsg(start, line)
      BY <1>4 DEF Talk!Handled
    <2> QED
      BY <1>4, <2>1, PrivmsgCounts
  <1>5. CASE line.command = "NOTICE"
    <2>1. Talk!Handled(start, line) = Talk!ParseNotice(start, line)
      BY <1>5 DEF Talk!Handled
    <2>2. \/ Talk!ParseNotice(start, line) = start
          \/ /\ line.text = TRUE
             /\ Talk!ParseNotice(start, line) = Talk!Checked(start, line.from, "NOTICE")
      BY <1>3 DEF Talk!ParseNotice
    <2>3. "NOTICE" \in Talk!FloodTypes
      BY DEF Talk!FloodTypes
    <2> QED
      BY <2>1, <2>2, <2>3, NothingCounts, SaidCounts
  <1>6. CASE line.command = "INVITE"
    <2>1. Talk!Handled(start, line) = Talk!PInvite(start, line)
      BY <1>6 DEF Talk!Handled
    <2>2. Talk!PInvite(start, line) \in {start, Talk!Checked(start, line.from, "INVITE")}
      BY DEF Talk!PInvite
    <2>3. "INVITE" \in Talk!FloodTypes
      BY DEF Talk!FloodTypes
    <2> QED
      BY <1>2, <1>6, <2>1, <2>2, <2>3, NothingCounts, SaidCounts
  <1>7. CASE line.command = "WALLOPS"
    <2>1. Talk!Handled(start, line) = Talk!Checked(start, line.from, "WALLOP")
      BY <1>7 DEF Talk!Handled, Talk!PWallops
    <2>2. "WALLOP" \in Talk!FloodTypes
      BY DEF Talk!FloodTypes
    <2> QED
      BY <1>2, <1>7, <2>1, <2>2, SaidCounts
  <1> QED
    BY <1>1, <1>4, <1>5, <1>6, <1>7

----------------------------------------------------------------------------
(* What is recorded of a line.                                              *)

LEMMA LatestIs ==
    ASSUME Settings, NEW ages \in Seq(0 .. Aged), NEW parts \in Nat
    PROVE  LET new == Talk!Latest([i \in 1 .. parts |-> 0] \o ages)
           IN  /\ new \in Seq(0 .. Aged)
               /\ \A cnt \in 0 .. MaxCount, age \in 0 .. Aged :
                      Recent(ages, parts, cnt, age) => Recent(new, 0, cnt, age)
  <1> DEFINE z == [i \in 1 .. parts |-> 0]
             big == z \o ages
             m == Talk!Min({Len(big), MaxCount})
             new == Talk!Latest(big)
  <1>1. z \in Seq(0 .. Aged) /\ Len(z) = parts /\ \A i \in 1 .. parts : z[i] = 0
    <2>1. 0 \in 0 .. Aged
      BY DEF Settings
    <2> QED
      BY <2>1
  <1>2. Len(ages) \in Nat
    OBVIOUS
  <1> HIDE DEF z
  <1>3. /\ big \in Seq(0 .. Aged) /\ Len(big) = parts + Len(ages)
        /\ \A i \in 1 .. parts + Len(ages) : big[i] = IF i =< parts THEN z[i] ELSE ages[i - parts]
    BY <1>1, ConcatProperties
  <1> HIDE DEF big
  <1>4. Len(big) \in Nat /\ MaxCount \in Nat
    BY <1>2, <1>3 DEF Settings
  <1>5. m \in {Len(big), MaxCount} /\ m =< Len(big) /\ m =< MaxCount
    <2> DEFINE S == {Len(big), MaxCount}
    <2>1. S \in SUBSET Nat /\ S # {}
      BY <1>4
    <2>2. PICK x \in S : \A y \in S : x =< y
      BY <2>1, Least
    <2>3. Talk!Min(S) \in S /\ \A y \in S : Talk!Min(S) =< y
      BY <2>2 DEF Talk!Min
    <2> QED
      BY <2>3
  <1>6. m \in Nat
    BY <1>4, <1>5
  <1>7. new = SubSeq(big, 1, m)
    BY DEF Talk!Latest
  <1> HIDE DEF m, new
  <1>8. new \in Seq(0 .. Aged) /\ Len(new) = m /\ \A i \in 1 .. m : new[i] = big[i]
    <2>1. \A i \in 1 .. m : big[i] \in 0 .. Aged
      <3>1. \A i \in 1 .. m : i \in 1 .. Len(big)
        BY <1>4, <1>5, <1>6
      <3> QED
        BY <1>3, <3>1, ElementOfSeq
    <2>2. /\ SubSeq(big, 1, m) \in Seq(0 .. Aged)
          /\ Len(SubSeq(big, 1, m)) = IF 1 =< m THEN m - 1 + 1 ELSE 0
          /\ \A i \in 1 .. m - 1 + 1 : SubSeq(big, 1, m)[i] = big[1 + i - 1]
      BY <1>6, <2>1, SubSeqProperties
    <2>3. m - 1 + 1 = m /\ (~(1 =< m) => m = 0) /\ \A i \in 1 .. m : 1 + i - 1 = i
      BY <1>6
    <2>4. \A i \in 1 .. m : SubSeq(big, 1, m)[i] = big[i]
      BY <2>2, <2>3
    <2>5. Len(SubSeq(big, 1, m)) = m
      BY <2>2, <2>3
    <2> QED
      BY <1>7, <2>2, <2>4, <2>5
  <1>9. ASSUME NEW cnt \in 0 .. MaxCount, NEW age \in 0 .. Aged, Recent(ages, parts, cnt, age),
               NEW j \in 1 .. cnt - 0
        PROVE  j =< Len(new) /\ new[j] =< age
    <2>1. j \in Nat /\ j >= 1 /\ j =< cnt /\ j =< MaxCount /\ cnt \in Nat
      BY <1>4, <1>9
    <2>2. CASE j =< parts
      <3>1. j =< Len(big) /\ j \in 1 .. parts /\ j \in 1 .. parts + Len(ages)
        BY <1>2, <1>3, <2>1, <2>2
      <3>2. j \in 1 .. m
        BY <1>4, <1>5, <2>1, <3>1
      <3>3. new[j] = 0
        BY <1>1, <1>3, <1>8, <2>2, <3>1, <3>2
      <3> QED
        BY <1>8, <3>2, <3>3 DEF Settings
    <2>3. CASE ~(j =< parts)
      <3> DEFINE i == j - parts
      <3>1. i \in 1 .. cnt - parts
        BY <2>1, <2>3
      <3>2. i =< Len(ages) /\ ages[i] =< age
        BY <1>9, <3>1 DEF Recent
      <3>3. j \in 1 .. parts + Len(ages) /\ j =< Len(big)
        BY <1>2, <1>3, <2>1, <3>2
      <3>4. j \in 1 .. m
        BY <1>4, <1>5, <2>1, <3>3
      <3>5. new[j] = ages[i]
        BY <1>3, <1>8, <2>3, <3>3, <3>4
      <3> QED
        BY <1>8, <3>2, <3>4, <3>5
    <2> QED
      BY <2>1, <2>2, <2>3
  <1> QED
    BY <1>8, <1>9 DEF new, big, z, Recent

LEMMA HeardIs ==
    ASSUME Settings, heard \in Histories, NEW nick \in Senders, NEW parts \in Nat
    PROVE  LET new == Talk!Heard(nick, parts)
           IN  /\ new \in Histories
               /\ \A n \in Senders : n # nick => new[n] = heard[n]
               /\ \A cnt \in 0 .. MaxCount, age \in 0 .. Aged :
                      Recent(heard[nick], parts, cnt, age) => Recent(new[nick], 0, cnt, age)
  <1> DEFINE l == Talk!Latest([i \in 1 .. parts |-> 0] \o heard[nick])
             new == Talk!Heard(nick, parts)
  <1>1. heard[nick] \in Seq(0 .. Aged)
    BY DEF Histories
  <1>2. /\ l \in Seq(0 .. Aged)
        /\ \A cnt \in 0 .. MaxCount, age \in 0 .. Aged :
               Recent(heard[nick], parts, cnt, age) => Recent(l, 0, cnt, age)
    BY <1>1, LatestIs
  <1>3. new = [heard EXCEPT ![nick] = l]
    BY DEF Talk!Heard
  <1> HIDE DEF new, l
  <1>4. new \in Histories /\ new[nick] = l /\ \A n \in Senders : n # nick => new[n] = heard[n]
    BY <1>2, <1>3 DEF Histories
  <1> QED
    BY <1>2, <1>4 DEF new

(* Then nothing is ahead of what is recorded.                               *)
LEMMA RecordedStage ==
    ASSUME Settings, heard \in Histories, NEW nick \in Senders, NEW parts \in Nat,
           NEW start, NEW c, Stage(start, c, heard, nick, parts)
    PROVE  /\ Talk!Heard(nick, parts) \in Histories
           /\ Stage(start, c, Talk!Heard(nick, parts), nick, 0)
  <1> DEFINE new == Talk!Heard(nick, parts)
  <1>1. /\ new \in Histories
        /\ \A n \in Senders : n # nick => new[n] = heard[n]
        /\ \A cnt \in 0 .. MaxCount, age \in 0 .. Aged :
               Recent(heard[nick], parts, cnt, age) => Recent(new[nick], 0, cnt, age)
    BY HeardIs
  <1> HIDE DEF new
  <1>2. ASSUME NEW n \in Senders, NEW cnt \in 0 .. MaxCount, NEW age \in 0 .. Aged,
               Recent(heard[n], Ahead(nick, parts, n), cnt, age)
        PROVE  Recent(new[n], Ahead(nick, 0, n), cnt, age)
    BY <1>1, <1>2 DEF Ahead
  <1>3. c.flood_list \in Tables /\ c.counter \in Counters /\ Backed(c, heard, nick, parts)
        /\ Talk!CountsBounded(c)
    BY DEF Stage, Room
  <1>4. \A x \in Talk!Entries(c.flood_list) :
            x.name \in Senders /\ x.cnt \in 0 .. MaxCount /\ x.age \in 0 .. Aged
    BY <1>3, EntryIs DEF Entry, Talk!CountsBounded, Settings
  <1>5. \A n \in Senders, t \in Talk!OtherTypes :
            c.counter[n][t].count \in 0 .. MaxCount /\ c.counter[n][t].age \in 0 .. Aged
    BY <1>3 DEF Counters
  <1>6. Backed(c, new, nick, 0)
    BY <1>2, <1>3, <1>4, <1>5 DEF Backed
  <1>7. Proven(heard[nick], parts) => Proven(new[nick], 0)
    BY <1>1 DEF Proven
  <1>8. Stage(start, c, new, nick, 0)
    BY <1>6, <1>7 DEF Stage
  <1> QED
    BY <1>1, <1>8 DEF new

(* With nothing ahead, it does not matter of whom.                          *)
LEMMA AnyNick ==
    ASSUME NEW start, NEW c, NEW h, NEW a, NEW b, Stage(start, c, h, a, 0)
    PROVE  Stage(c, c, h, b, 0)
  <1>1. \A n : Ahead(a, 0, n) = Ahead(b, 0, n)
    BY DEF Ahead
  <1>2. Backed(c, h, b, 0)
    BY <1>1 DEF Backed, Stage
  <1> QED
    BY <1>2 DEF Stage

----------------------------------------------------------------------------
(* The invariant.                                                           *)

(* A reply is not sent earlier than last_reply says, which is no more than   *)
(* the seconds since the last one.                                          *)
MInv ==
    /\ traffic \in Traffics /\ heard \in Histories
    /\ Stage(client, client, heard, Nick, 0)
    /\ client.last_reply \in 0 .. CtcpDelay /\ client.replies = 0
    /\ since \in 0 .. CtcpDelay /\ client.last_reply =< since
    /\ gap \in Nat /\ gap >= CtcpDelay

(* Who is ignored now, and was not before, has flooded.                     *)
FloodShown ==
    \A n \in Senders :
        AutoMask[n] \in DOMAIN client'.ignored_nicks \ DOMAIN client.ignored_nicks =>
            \E m \in Senders : AutoMask[m] = AutoMask[n] /\ Proven(heard'[m], 0)

LEMMA DelayIs == CtcpDelay \in Nat
  BY TalkAssumption DEF Talk!TimeAssumption

LEMMA LinesAre ==
    ASSUME traffic \in Traffics
    PROVE  /\ \A line \in traffic.lines : Line(line)
           /\ \A other \in traffic.others : other[1] \in Senders
  BY TalkAssumption DEF Talk!TrafficsAssumption, Line

LEMMA StageShows ==
    ASSUME NEW nick \in Senders, Stage(client, client', heard', nick, 0)
    PROVE  FloodShown
  BY DEF Stage, FloodShown

LEMMA ReadLineKeeps ==
    ASSUME MInv, NEW line \in traffic.lines, Talk!ReadLine(line)
    PROVE  MInv' /\ FloodShown
  <1> DEFINE c == Talk!Handled(client, line)
             d == Talk!Returned(c)
             p == Talk!Parts(line)
             new == Talk!Heard(line.from, p)
  <1>1. Settings /\ CtcpDelay \in Nat /\ Line(line) /\ line.from \in Senders
    BY SettingsHold, DelayIs, LinesAre DEF MInv, Line
  <1>2. p \in Nat
    BY <1>1, PartsAre
  <1>3. Stage(client, client, heard, line.from, 0)
    BY AnyNick DEF MInv
  <1>4. Reads(client, heard, line)
    BY <1>1, <1>3 DEF Reads, MInv
  <1>5. /\ client' = d /\ heard' = new /\ UNCHANGED traffic
        /\ gap' = CASE c.replies = 0 -> gap
                    [] c.replies = 1 -> since
                    [] OTHER         -> 0
        /\ since' = IF c.replies = 0 THEN since ELSE 0
        /\ Talk!Bounded(c, line)
    BY DEF Talk!ReadLine, Talk!LineDone
  <1>6. Stage(client, c, heard, line.from, p) /\ Answered(client, c)
    <2>1. Tells(client, c, heard, line)
      BY <1>4, <1>5, HandledCounts DEF Talk!Bounded
    <2> QED
      BY <2>1 DEF Tells
  <1> HIDE DEF c, p
  <1>7. new \in Histories /\ Stage(client, c, new, line.from, 0)
    BY <1>1, <1>2, <1>6, RecordedStage DEF MInv
  <1>8. /\ DOMAIN d = Fields /\ d.flood_list = c.flood_list /\ d.pos = c.pos
        /\ d.counter = c.counter /\ d.ignored_nicks = c.ignored_nicks
        /\ d.last_reply = c.last_reply /\ d.replies = 0
    <2>1. DOMAIN c = Fields
      BY <1>6 DEF Stage
    <2> QED
      BY <2>1 DEF Talk!Returned, Fields
  <1> HIDE DEF d, new
  <1>9. Stage(client, d, new, line.from, 0)
    BY <1>7, <1>8 DEF Stage, Backed, Talk!CountsBounded
  <1>10. Stage(d, d, new, Nick, 0)
    BY <1>9, AnyNick
  <1>11. /\ d.last_reply \in 0 .. CtcpDelay
         /\ since' \in 0 .. CtcpDelay /\ d.last_reply =< since'
         /\ gap' \in Nat /\ gap' >= CtcpDelay
    <2>1. /\ client.last_reply \in 0 .. CtcpDelay /\ since \in 0 .. CtcpDelay
          /\ client.last_reply =< since /\ gap \in Nat /\ gap >= CtcpDelay
      BY DEF MInv
    <2>2. CASE c.replies = 0
      <3>1. gap' = gap /\ since' = since
        BY <1>5, <2>2
      <3> QED
        BY <1>1, <1>6, <1>8, <2>1, <3>1 DEF Answered
    <2>3. CASE c.replies = 1
      <3>1. gap' = since /\ since' = 0
        BY <1>5, <2>3
      <3>2. client.last_reply >= CtcpDelay /\ d.last_reply = 0
        BY <1>6, <1>8, <2>3 DEF Answered
      <3> QED
        BY <1>1, <2>1, <3>1, <3>2
    <2> QED
      BY <1>6, <2>2, <2>3 DEF Answered
  <1>12. MInv'
    <2>1. traffic' \in Traffics
      BY <1>5 DEF MInv
    <2> QED
      BY <1>5, <1>7, <1>8, <1>10, <1>11, <2>1 DEF MInv
  <1>13. FloodShown
    BY <1>1, <1>5, <1>9, StageShows
  <1> QED
    BY <1>12, <1>13

LEMMA OtherLineKeeps ==
    ASSUME MInv, NEW other \in traffic.others, Talk!OtherLine(other[1], other[2])
    PROVE  MInv' /\ FloodShown
  <1> DEFINE nick == other[1]
             d == Talk!OtherChecked(client, nick, other[2]).client
             new == Talk!Heard(nick, 1)
  <1>1. Settings /\ nick \in Senders
    BY SettingsHold, LinesAre DEF MInv
  <1>2. client' = d /\ heard' = new /\ UNCHANGED <<traffic, since, gap>>
    BY DEF Talk!OtherLine
  <1>3. Stage(client, client, heard, nick, 0) /\ 0 \in Nat /\ 1 \in Nat /\ 0 + 1 = 1
    BY AnyNick DEF MInv
  <1>4. Stage(client, d, heard, nick, 1) /\ OnlyCounted(client, d)
    <2> HIDE DEF nick
    <2> QED
      BY <1>1, <1>3, OtherCheckedIs
  <1> HIDE DEF nick, d
  <1>5. new \in Histories /\ Stage(client, d, new, nick, 0)
    BY <1>1, <1>3, <1>4, RecordedStage DEF MInv
  <1>6. Stage(d, d, new, Nick, 0)
    BY <1>5, AnyNick
  <1> HIDE DEF new
  <1>7. MInv'
    BY <1>2, <1>4, <1>5, <1>6 DEF MInv, OnlyCounted
  <1>8. FloodShown
    BY <1>1, <1>2, <1>5, StageShows
  <1> QED
    BY <1>7, <1>8

----------------------------------------------------------------------------
(* The other steps.                                                         *)

(* A change that the counters, the replies and the history do not see.      *)
SameCounts(c, d) ==
    /\ DOMAIN d = Fields /\ d.flood_list = c.flood_list /\ d.pos = c.pos
    /\ d.counter = c.counter /\ d.last_reply = c.last_reply /\ d.replies = c.replies

LEMMA RestKeeps ==
    ASSUME MInv, SameCounts(client, client'), UNCHANGED <<traffic, heard, since, gap>>
    PROVE  MInv'
  <1> DEFINE d == client'
  <1> HIDE DEF d
  <1>1. SameCounts(client, d)
    BY DEF d
  <1>2. Stage(d, d, heard, Nick, 0)
    BY <1>1 DEF MInv, Stage, Backed, Talk!CountsBounded, SameCounts
  <1> QED
    BY <1>1, <1>2 DEF MInv, SameCounts, d

LEMMA CmdIgnoreKeeps ==
    ASSUME MInv, NEW cmd, Talk!CmdIgnore(cmd)
    PROVE  MInv'
  <1>1. PICK v : client' = [client EXCEPT !.ignored_nicks = v]
    BY Zenon DEF Talk!CmdIgnore
  <1>2. UNCHANGED <<traffic, heard, since, gap>>
    BY Zenon DEF Talk!CmdIgnore
  <1>3. SameCounts(client, client')
    BY <1>1 DEF MInv, Stage, Fields, SameCounts
  <1> QED
    BY <1>2, <1>3, RestKeeps

LEMMA CmdNoFloodKeeps ==
    ASSUME MInv, NEW nick, Talk!CmdNoFlood(nick)
    PROVE  MInv' /\ FloodShown
  <1>1. PICK v : client' = [client EXCEPT !.no_flood_list = v]
    BY DEF Talk!CmdNoFlood
  <1>2. UNCHANGED <<traffic, heard, since, gap>>
    BY DEF Talk!CmdNoFlood
  <1>3. SameCounts(client, client') /\ client'.ignored_nicks = client.ignored_nicks
    BY <1>1 DEF MInv, Stage, Fields, SameCounts
  <1> QED
    BY <1>2, <1>3, RestKeeps DEF FloodShown

LEMMA TimerFiresKeeps ==
    ASSUME MInv, NEW timer, Talk!TimerFires(timer)
    PROVE  MInv' /\ FloodShown
  <1> DEFINE rest == Talk!RemoveIgnore(client.ignored_nicks, timer.mask)
  <1>1. client' = [client EXCEPT !.timers = @ \ {timer}, !.ignored_nicks = rest]
    BY DEF Talk!TimerFires
  <1>2. UNCHANGED <<traffic, heard, since, gap>>
    BY DEF Talk!TimerFires
  <1>3. DOMAIN rest \subseteq DOMAIN client.ignored_nicks
    BY DEF Talk!RemoveIgnore, Talk!Without
  <1> HIDE DEF rest
  <1>4. SameCounts(client, client') /\ client'.ignored_nicks = rest
    BY <1>1 DEF MInv, Stage, Fields, SameCounts
  <1>5. MInv'
    BY <1>2, <1>4, RestKeeps
  <1> QED
    BY <1>3, <1>4, <1>5 DEF FloodShown

(* What is cleaned away has no part in what is left.                        *)
LEMMA CleanFloodKeeps ==
    ASSUME MInv, Talk!CleanFlood
    PROVE  MInv' /\ FloodShown
  <1> DEFINE t == client.flood_list
             new == Talk!CleanFloodList(t)
  <1>1. client' = [client EXCEPT !.flood_list = new] /\ UNCHANGED <<traffic, heard, since, gap>>
    BY DEF Talk!CleanFlood
  <1>2. /\ DOMAIN client = Fields /\ Room(t, client.pos) /\ Talk!CountsBounded(client)
        /\ Backed(client, heard, Nick, 0)
    BY DEF MInv, Stage
  <1>3. /\ t \in Tables /\ IsFiniteSet(Talk!Entries(t)) /\ client.pos \in Int
        /\ Talk!Size(t) =< client.pos /\ Talk!Size(t) =< FloodUsers /\ Talk!Size(t) \in Nat
    BY <1>2, SizeIs DEF Room
  <1>4. Shrunk(t, new)
    BY <1>3, RemoveAgedIs DEF Talk!CleanFloodList
  <1>5. /\ DOMAIN client' = Fields /\ client'.flood_list = new
        /\ client'.pos = client.pos /\ client'.counter = client.counter
        /\ client'.last_reply = client.last_reply /\ client'.replies = client.replies
        /\ client'.ignored_nicks = client.ignored_nicks
    BY <1>1, <1>2 DEF Fields
  <1> DEFINE d == client'
  <1> HIDE DEF d, new, t
  <1>6. Room(d.flood_list, d.pos)
    <2>1. IsFiniteSet(Talk!Entries(new)) /\ Talk!Size(new) =< Talk!Size(t)
      BY <1>3, <1>4, ShrunkSize
    <2>2. Talk!Size(new) \in Nat /\ FloodUsers \in Nat
      BY <2>1, SizeIs, SettingsHold DEF Settings
    <2> QED
      BY <1>3, <1>4, <1>5, <2>1, <2>2 DEF Room, Shrunk, d
  <1>7. Talk!CountsBounded(d) /\ Backed(d, heard, Nick, 0)
    BY <1>2, <1>4, <1>5 DEF Talk!CountsBounded, Backed, Shrunk, d, t
  <1>8. Stage(d, d, heard, Nick, 0)
    BY <1>5, <1>6, <1>7 DEF MInv, Stage, d
  <1>9. MInv'
    BY <1>1, <1>5, <1>8 DEF MInv, d
  <1> QED
    BY <1>5, <1>9 DEF FloodShown

----------------------------------------------------------------------------
(* A second passes.                                                         *)

LEMMA OlderIs ==
    ASSUME Settings, NEW a \in 0 .. Aged
    PROVE  /\ Talk!Older(a) \in 0 .. Aged
           /\ \A b \in 0 .. Aged : b =< a => Talk!Older(b) =< Talk!Older(a)
  BY DEF Settings, Talk!Older

Aging(x) == [x EXCEPT !.age = Talk!Older(@)]

LEMMA AgingIs ==
    ASSUME Settings, NEW x \in Entry
    PROVE  Aging(x) \in Entry /\ Aging(x).name = x.name /\ Aging(x).cnt = x.cnt
           /\ Aging(x).age = Talk!Older(x.age)
  <1>1. Talk!Older(x.age) \in 0 .. Aged
    BY OlderIs DEF Entry
  <1> QED
    BY <1>1 DEF Aging, Entry

AgedTable(t) == [b \in Talk!Buckets |-> [i \in DOMAIN t[b] |-> Aging(t[b][i])]]

LEMMA AgedChain ==
    ASSUME Settings, NEW b, NEW s \in Chain(b)
    PROVE  LET u == [i \in DOMAIN s |-> Aging(s[i])]
           IN  /\ u \in Chain(b)
               /\ \A x : Has(u, x) => \E y : Has(s, y) /\ x = Aging(y)
  <1> DEFINE u == [i \in DOMAIN s |-> Aging(s[i])]
  <1>1. /\ s \in Seq(Entry) /\ Len(s) \in Nat /\ DOMAIN s = 1 .. Len(s)
        /\ \A i \in 1 .. Len(s) : s[i] \in Entry /\ Bucket[s[i].name] = b
        /\ \A i, j \in 1 .. Len(s) : s[i].name = s[j].name => i = j
    BY ChainIs
  <1>2. \A i \in 1 .. Len(s) : u[i] = Aging(s[i]) /\ u[i] \in Entry /\ u[i].name = s[i].name
    BY <1>1, AgingIs
  <1>3. u \in Seq(Entry) /\ Len(u) = Len(s)
    BY <1>1, <1>2
  <1> HIDE DEF u
  <1>4. u \in Chain(b)
    BY <1>1, <1>2, <1>3 DEF Chain
  <1>5. \A x : Has(u, x) => \E y : Has(s, y) /\ x = Aging(y)
    BY <1>2, <1>3 DEF Has
  <1> QED
    BY <1>4, <1>5 DEF u

LEMMA AgedTableIs ==
    ASSUME Settings, NEW t \in Tables
    PROVE  /\ AgedTable(t) \in Tables
           /\ \A x \in Talk!Entries(AgedTable(t)) : \E y \in Talk!Entries(t) : x = Aging(y)
  <1> DEFINE new == AgedTable(t)
  <1>1. \A b \in Talk!Buckets : /\ new[b] \in Chain(b) /\ t[b] \in Chain(b)
                                /\ \A x : Has(new[b], x) => \E y : Has(t[b], y) /\ x = Aging(y)
    <2> SUFFICES ASSUME NEW b \in Talk!Buckets
                 PROVE  /\ new[b] \in Chain(b) /\ t[b] \in Chain(b)
                        /\ \A x : Has(new[b], x) => \E y : Has(t[b], y) /\ x = Aging(y)
      OBVIOUS
    <2> DEFINE s == t[b]
    <2>1. s \in Chain(b) /\ new[b] = [i \in DOMAIN s |-> Aging(s[i])]
      BY DEF Tables, AgedTable
    <2> HIDE DEF s, new
    <2>2. new[b] \in Chain(b) /\ \A x : Has(new[b], x) => \E y : Has(s, y) /\ x = Aging(y)
      BY <2>1, AgedChain
    <2> QED
      BY <2>1, <2>2 DEF s
  <1>2. new \in Tables
    <2>1. new = [b \in Talk!Buckets |-> new[b]]
      BY DEF AgedTable
    <2>2. \A b \in Talk!Buckets : new[b] \in Seq(Entry)
      BY <1>1 DEF Chain
    <2> HIDE DEF new
    <2>3. new \in [Talk!Buckets -> Seq(Entry)]
      BY <2>1, <2>2
    <2> QED
      BY <1>1, <2>3 DEF Tables
  <1> HIDE DEF new
  <1>3. ASSUME NEW x \in Talk!Entries(new) PROVE \E y \in Talk!Entries(t) : x = Aging(y)
    <2>1. PICK b \in Talk!Buckets : Has(new[b], x)
      BY <1>2, EntriesAre
    <2>2. PICK y : Has(t[b], y) /\ x = Aging(y)
      BY <1>1, <2>1
    <2>3. y \in Talk!Entries(t)
      BY <2>1, <2>2, EntriesAre
    <2> QED
      BY <2>2, <2>3
  <1> QED
    BY <1>2, <1>3 DEF new

(* It does not grow by that.                                                *)
LEMMA AgedSize ==
    ASSUME Settings, NEW t \in Tables, IsFiniteSet(Talk!Entries(t))
    PROVE  /\ IsFiniteSet(Talk!Entries(AgedTable(t)))
           /\ Talk!Size(AgedTable(t)) =< Talk!Size(t)
  <1> DEFINE old == Talk!Entries(t)
             new == Talk!Entries(AgedTable(t))
             f == [y \in old |-> Aging(y)]
             T == {f[y] : y \in old}
  <1>1. \A x \in new : \E y \in old : x = Aging(y)
    BY AgedTableIs
  <1>2. IsFiniteSet(old)
    OBVIOUS
  <1> HIDE DEF old, new
  <1>3. f \in Surjection(old, T)
    BY DEF Surjection
  <1>4. new \in SUBSET T
    BY <1>1
  <1> HIDE DEF f, T
  <1>5. IsFiniteSet(T) /\ Cardinality(T) =< Cardinality(old)
    BY <1>2, <1>3, FS_Surjection
  <1>6. IsFiniteSet(new) /\ Cardinality(new) =< Cardinality(T)
    BY <1>4, <1>5, FS_Subset
  <1>7. Cardinality(new) \in Nat /\ Cardinality(old) \in Nat /\ Cardinality(T) \in Nat
    BY <1>2, <1>5, <1>6, FS_CardinalityType
  <1>8. Cardinality(new) =< Cardinality(old)
    BY <1>5, <1>6, <1>7
  <1>9. Talk!Size(AgedTable(t)) = Cardinality(new) /\ Talk!Size(t) = Cardinality(old)
    BY <1>2, <1>6, SizeIs DEF new, old
  <1> QED
    BY <1>6, <1>8, <1>9 DEF new

(* The lines of the history age as those who are counted do.                *)
AgedHistory(ages) == [i \in DOMAIN ages |-> Talk!Older(ages[i])]

LEMMA AgedHistoryIs ==
    ASSUME Settings, NEW ages \in Seq(0 .. Aged)
    PROVE  /\ AgedHistory(ages) \in Seq(0 .. Aged)
           /\ \A k \in Nat, cnt \in Nat, age \in 0 .. Aged :
                  Recent(ages, k, cnt, age) => Recent(AgedHistory(ages), k, cnt, Talk!Older(age))
  <1> DEFINE new == AgedHistory(ages)
  <1>1. Len(ages) \in Nat /\ DOMAIN ages = 1 .. Len(ages)
    OBVIOUS
  <1>2. \A i \in 1 .. Len(ages) : ages[i] \in 0 .. Aged
    BY ElementOfSeq
  <1>3. \A i \in 1 .. Len(ages) : new[i] = Talk!Older(ages[i]) /\ new[i] \in 0 .. Aged
    BY <1>1, <1>2, OlderIs DEF AgedHistory
  <1>4. new = [i \in 1 .. Len(ages) |-> new[i]]
    BY <1>1 DEF AgedHistory
  <1> HIDE DEF new
  <1>5. new \in Seq(0 .. Aged) /\ Len(new) = Len(ages)
    BY <1>1, <1>3, <1>4
  <1>6. ASSUME NEW k \in Nat, NEW cnt \in Nat, NEW age \in 0 .. Aged, Recent(ages, k, cnt, age),
               NEW j \in 1 .. cnt - k
        PROVE  j =< Len(new) /\ new[j] =< Talk!Older(age)
    <2>1. j =< Len(ages) /\ ages[j] =< age /\ j \in 1 .. Len(ages)
      BY <1>1, <1>6 DEF Recent
    <2> QED
      BY <1>2, <1>3, <1>5, <2>1, OlderIs
  <1> QED
    BY <1>5, <1>6 DEF new, Recent

(* Two turns of the same clock: what is behind stays behind.                *)
Waits(time) == IF time < CtcpDelay THEN time + 1 ELSE CtcpDelay

LEMMA WaitsIs ==
    ASSUME NEW a \in 0 .. CtcpDelay, NEW b \in 0 .. CtcpDelay, a =< b
    PROVE  Waits(a) \in 0 .. CtcpDelay /\ Waits(b) \in 0 .. CtcpDelay /\ Waits(a) =< Waits(b)
  BY DelayIs DEF Waits

LEMMA TickKeeps ==
    ASSUME MInv, Talk!Tick
    PROVE  MInv' /\ FloodShown
  <1> DEFINE t == client.flood_list
             n0 == AgedTable(t)
             h0 == [n \in Senders |-> AgedHistory(heard[n])]
             Grown(x) == [x EXCEPT !.age = Talk!Older(@)]
             c0 == [n \in Senders |-> [k \in Talk!OtherTypes |-> Grown(client.counter[n][k])]]
  <1>1. Settings /\ CtcpDelay \in Nat
    BY SettingsHold, DelayIs
  <1>2. /\ DOMAIN client = Fields /\ Room(t, client.pos) /\ Talk!CountsBounded(client)
        /\ client.counter \in Counters /\ Backed(client, heard, Nick, 0) /\ heard \in Histories
    BY DEF MInv, Stage
  <1> DEFINE Sooner(timer) == [timer EXCEPT !.left = IF @ = 0 THEN 0 ELSE @ - 1]
             left == {Sooner(timer) : timer \in client.timers}
  <1>3. client' = [client EXCEPT !.flood_list = n0, !.counter = c0, !.timers = left,
                                 !.last_reply = Waits(@)]
    BY Zenon DEF Talk!Tick, AgedTable, Aging, Waits
  <1>4. heard' = h0
    BY DEF Talk!Tick, AgedHistory
  <1>5. since' = Waits(since) /\ UNCHANGED <<traffic, gap>>
    BY DEF Talk!Tick, Waits
  <1> HIDE DEF n0, h0, c0, left
  <1>6. /\ DOMAIN client' = Fields /\ client'.flood_list = n0
        /\ client'.pos = client.pos /\ client'.counter = c0
        /\ client'.last_reply = Waits(client.last_reply) /\ client'.replies = client.replies
        /\ client'.ignored_nicks = client.ignored_nicks
    BY <1>2, <1>3 DEF Fields
  <1>7. n0 \in Tables /\ \A x \in Talk!Entries(n0) : \E y \in Talk!Entries(t) : x = Aging(y)
    BY <1>1, <1>2, AgedTableIs DEF n0, Room
  <1>8. IsFiniteSet(Talk!Entries(n0)) /\ Talk!Size(n0) =< Talk!Size(t)
    BY <1>1, <1>2, AgedSize DEF n0, Room
  <1>9. \A y \in Talk!Entries(t) : /\ y \in Entry /\ y.name \in Senders /\ y.age \in 0 .. Aged
                                   /\ y.cnt \in Nat /\ y.cnt =< MaxCount
                                   /\ Aging(y).name = y.name /\ Aging(y).cnt = y.cnt
                                   /\ Aging(y).age = Talk!Older(y.age)
    <2>1. \A y \in Talk!Entries(t) : y \in Entry
      BY <1>2, EntryIs DEF Room
    <2>2. \A y \in Talk!Entries(t) : y.cnt =< MaxCount
      BY <1>2 DEF Talk!CountsBounded
    <2> QED
      BY <1>1, <2>1, <2>2, AgingIs DEF Entry
  <1>10. /\ h0 \in Histories
         /\ \A n \in Senders, cnt \in Nat, age \in 0 .. Aged :
                Recent(heard[n], 0, cnt, age) => Recent(h0[n], 0, cnt, Talk!Older(age))
    <2>1. \A n \in Senders : heard[n] \in Seq(0 .. Aged)
      BY <1>2 DEF Histories
    <2>2. 0 \in Nat
      OBVIOUS
    <2>3. \A n \in Senders : /\ AgedHistory(heard[n]) \in Seq(0 .. Aged)
                             /\ \A cnt \in Nat, age \in 0 .. Aged :
                                   Recent(heard[n], 0, cnt, age)
                                       => Recent(AgedHistory(heard[n]), 0, cnt, Talk!Older(age))
      BY <1>1, <2>1, <2>2, AgedHistoryIs
    <2> QED
      BY <2>3 DEF h0, Histories
  <1>11. Talk!Size(t) \in Nat /\ Talk!Size(n0) \in Nat /\ client.pos \in Int /\ FloodUsers \in Nat
    BY <1>1, <1>2, <1>8, SizeIs DEF Room, Settings
  <1>12. Room(n0, client.pos)
    BY <1>2, <1>7, <1>8, <1>11 DEF Room
  <1>13. \A n \in Senders, k \in Talk!OtherTypes :
             /\ client.counter[n][k] \in [count : 0 .. MaxCount, age : 0 .. Aged]
             /\ c0[n][k] \in [count : 0 .. MaxCount, age : 0 .. Aged]
             /\ c0[n][k].count = client.counter[n][k].count
             /\ c0[n][k].age = Talk!Older(client.counter[n][k].age)
    <2>1. ASSUME NEW x \in [count : 0 .. MaxCount, age : 0 .. Aged]
          PROVE  /\ Grown(x) \in [count : 0 .. MaxCount, age : 0 .. Aged]
                 /\ Grown(x).count = x.count /\ Grown(x).age = Talk!Older(x.age)
      BY <1>1, OlderIs
    <2>2. \A n \in Senders, k \in Talk!OtherTypes :
              client.counter[n][k] \in [count : 0 .. MaxCount, age : 0 .. Aged]
      BY <1>2 DEF Counters
    <2>3. \A n \in Senders, k \in Talk!OtherTypes : c0[n][k] = Grown(client.counter[n][k])
      BY DEF c0
    <2> HIDE DEF Grown
    <2> QED
      BY <2>1, <2>2, <2>3
  <1>14. c0 \in Counters
    BY <1>13 DEF Counters, c0
  <1> HIDE DEF Grown, t
  <1> DEFINE d == client'
  <1> HIDE DEF d
  <1>15. Backed(d, h0, Nick, 0)
    <2>1. \A n : Ahead(Nick, 0, n) = 0
      BY DEF Ahead
    <2>2. ASSUME NEW x \in Talk!Entries(n0) PROVE Recent(h0[x.name], 0, x.cnt, x.age)
      <3>1. PICK y \in Talk!Entries(t) : x = Aging(y)
        BY <1>7
      <3>2. Recent(heard[y.name], 0, y.cnt, y.age)
        BY <1>2, <2>1 DEF Backed, t
      <3> QED
        BY <1>9, <1>10, <3>1, <3>2
    <2>3. ASSUME NEW n \in Senders, NEW k \in Talk!OtherTypes
          PROVE  Recent(h0[n], 0, c0[n][k].count, c0[n][k].age)
      <3>1. Recent(heard[n], 0, client.counter[n][k].count, client.counter[n][k].age)
        BY <1>2, <2>1 DEF Backed
      <3>2. client.counter[n][k].count \in Nat /\ client.counter[n][k].age \in 0 .. Aged
        BY <1>1, <1>13 DEF Settings
      <3> QED
        BY <1>10, <1>13, <3>1, <3>2
    <2> QED
      BY <1>6, <2>1, <2>2, <2>3 DEF Backed, d
  <1>16. Talk!CountsBounded(d)
    BY <1>6, <1>7, <1>9 DEF Talk!CountsBounded, d
  <1>17. Stage(d, d, h0, Nick, 0)
    BY <1>6, <1>12, <1>14, <1>15, <1>16 DEF Stage, d
  <1>18. /\ d.last_reply \in 0 .. CtcpDelay /\ since' \in 0 .. CtcpDelay
         /\ d.last_reply =< since' /\ d.replies = 0
    BY <1>5, <1>6, WaitsIs DEF MInv, d
  <1>19. MInv'
    BY <1>4, <1>5, <1>10, <1>17, <1>18 DEF MInv, d
  <1> QED
    BY <1>6, <1>19 DEF FloodShown

----------------------------------------------------------------------------
(* It holds at the start, and is kept.                                      *)

LEMMA InitMInv == Talk!Init => MInv
  <1> SUFFICES ASSUME Talk!Init PROVE MInv
    OBVIOUS
  <1> DEFINE t == [b \in Talk!Buckets |-> <<>>]
             c0 == [n \in Senders |-> [k \in Talk!OtherTypes |-> [count |-> 0, age |-> Aged]]]
             list == [m \in {} |-> Talk!NewIgnore]
  <1>1. Settings /\ CtcpDelay \in Nat
    BY SettingsHold, DelayIs
  <1>2. client = [flood_list |-> t, pos |-> 0, no_flood_list |-> {}, counter |-> c0,
                  ignored_nicks |-> list, timers |-> {}, last_reply |-> CtcpDelay,
                  allow |-> FALSE, text |-> FALSE, replies |-> 0]
    BY DEF Talk!Init
  <1>3. heard = [n \in Senders |-> <<>>] /\ since = CtcpDelay /\ gap = CtcpDelay /\ traffic \in Traffics
    BY DEF Talk!Init
  <1>4. DOMAIN list = {}
    OBVIOUS
  <1>5. t \in Tables /\ \A b \in Talk!Buckets : \A x : ~Has(t[b], x)
    <2>1. \A b : <<>> \in Chain(b)
      BY DEF Chain
    <2> QED
      BY <2>1 DEF Tables, Has
  <1> HIDE DEF t
  <1>6. Talk!Entries(t) = {}
    BY <1>5, EntriesAre
  <1>7. IsFiniteSet(Talk!Entries(t)) /\ Talk!Size(t) = 0
    BY <1>6, FS_EmptySet, SizeIs
  <1>8. Room(t, 0)
    BY <1>1, <1>5, <1>7 DEF Room, Settings
  <1>9. c0 \in Counters /\ \A n \in Senders, k \in Talk!OtherTypes : c0[n][k].count = 0
    BY <1>1 DEF Counters, Settings
  <1> HIDE DEF c0, list
  <1>10. /\ DOMAIN client = Fields /\ client.flood_list = t /\ client.pos = 0
         /\ client.counter = c0 /\ client.last_reply = CtcpDelay /\ client.replies = 0
    BY <1>2 DEF Fields
  <1>11. Backed(client, heard, Nick, 0)
    <2>1. \A n : Ahead(Nick, 0, n) = 0
      BY DEF Ahead
    <2>2. \A h, age : Recent(h, 0, 0, age)
      BY DEF Recent
    <2> QED
      BY <1>6, <1>9, <1>10, <2>1, <2>2 DEF Backed
  <1>12. Stage(client, client, heard, Nick, 0)
    BY <1>6, <1>8, <1>9, <1>10, <1>11 DEF Stage, Talk!CountsBounded
  <1>13. heard \in Histories
    BY <1>3 DEF Histories
  <1> QED
    BY <1>1, <1>3, <1>10, <1>12, <1>13 DEF MInv

LEMMA NextMInv ==
    ASSUME MInv, [Talk!Next]_(Talk!vars)
    PROVE  MInv' /\ (Talk!Typed \/ FloodShown)
  <1>1. CASE UNCHANGED Talk!vars
    <2>1. UNCHANGED <<client, traffic, heard, since, gap>>
      BY <1>1 DEF Talk!vars
    <2> QED
      BY <2>1 DEF MInv, Stage, Backed, Talk!CountsBounded, FloodShown
  <1>2. ASSUME NEW line \in traffic.lines, Talk!ReadLine(line) PROVE MInv' /\ FloodShown
    BY <1>2, ReadLineKeeps
  <1>3. ASSUME NEW other \in traffic.others, Talk!OtherLine(other[1], other[2]) PROVE MInv' /\ FloodShown
    BY <1>3, OtherLineKeeps
  <1>4. ASSUME NEW cmd \in traffic.ignores, Talk!CmdIgnore(cmd) PROVE MInv' /\ Talk!Typed
    BY <1>4, CmdIgnoreKeeps DEF Talk!Typed
  <1>5. ASSUME NEW nick \in traffic.nofloods, Talk!CmdNoFlood(nick) PROVE MInv' /\ FloodShown
    BY <1>5, CmdNoFloodKeeps
  <1>6. CASE Talk!CleanFlood
    BY <1>6, CleanFloodKeeps
  <1>7. ASSUME NEW timer \in client.timers, Talk!TimerFires(timer) PROVE MInv' /\ FloodShown
    BY <1>7, TimerFiresKeeps
  <1>8. CASE Talk!Tick
    BY <1>8, TickKeeps
  <1> QED
    BY <1>1, <1>2, <1>3, <1>4, <1>5, <1>6, <1>7, <1>8 DEF Talk!Next

----------------------------------------------------------------------------
(* What follows from it.                                                    *)

LEMMA TimesMore ==
    ASSUME NEW a \in Nat, NEW b \in Nat, NEW c \in Nat, a =< b
    PROVE  a * c =< b * c
  <1>1. PICK d \in Nat : b = a + d
    <2>1. b - a \in Nat /\ b = a + (b - a)
      OBVIOUS
    <2> QED
      BY <2>1
  <1>2. b * c = a * c + d * c
    BY <1>1
  <1>3. d * c \in Nat /\ a * c \in Nat
    BY <1>1
  <1> QED
    BY <1>2, <1>3

(* Of lines so recent there are as many.                                    *)
LEMMA ManyRecent ==
    ASSUME Settings, NEW ages \in Seq(0 .. Aged), NEW cnt \in Nat, NEW age, Recent(ages, 0, cnt, age)
    PROVE  LET count == Talk!Cardinality({i \in DOMAIN ages : ages[i] <= age})
           IN  count \in Nat /\ cnt =< count
  <1> DEFINE S == {i \in DOMAIN ages : ages[i] <= age}
  <1>1. Len(ages) \in Nat /\ DOMAIN ages = 1 .. Len(ages)
    OBVIOUS
  <1>2. 1 .. cnt \in SUBSET S
    <2>1. cnt - 0 = cnt
      OBVIOUS
    <2> QED
      BY <1>1, <2>1 DEF Recent
  <1>3. S \in SUBSET (1 .. Len(ages))
    BY <1>1
  <1>4. Talk!Cardinality(S) = Cardinality(S)
    BY SameCardinality
  <1> HIDE DEF S
  <1>5. IsFiniteSet(1 .. Len(ages))
    BY <1>1, FS_Interval
  <1>6. IsFiniteSet(S) /\ Cardinality(S) \in Nat
    BY <1>3, <1>5, FS_Subset, FS_CardinalityType
  <1>7. Cardinality(1 .. cnt) =< Cardinality(S)
    BY <1>2, <1>6, FS_Subset
  <1>8. Cardinality(1 .. cnt) = cnt
    <2>1. Cardinality(1 .. cnt) = IF 1 > cnt THEN 0 ELSE cnt - 1 + 1
      BY FS_Interval
    <2> QED
      BY <2>1
  <1> QED
    BY <1>4, <1>6, <1>7, <1>8 DEF S

LEMMA FloodedIs ==
    ASSUME Settings, NEW ages \in Seq(0 .. Aged), Proven(ages, 0)
    PROVE  Talk!Flooded(ages)
  <1>1. PICK cnt \in 0 .. MaxCount, age \in 0 .. Aged : Recent(ages, 0, cnt, age) /\ Enough(cnt, age)
    BY DEF Proven
  <1> DEFINE count == Talk!Cardinality({i \in DOMAIN ages : ages[i] <= age})
  <1>2. cnt \in Nat /\ age \in Nat
    BY DEF Settings
  <1>3. count \in Nat /\ cnt =< count
    BY <1>1, <1>2, ManyRecent
  <1>4. \/ \E type \in DOMAIN FloodAfter :
               /\ count > FloodAfter[type]
               /\ age = 0 \/ count * FloodRate[type] > FloodAfter[type] * age
        \/ /\ "PUBLIC" \in Talk!OtherTypes
           /\ count >= OtherCount["PUBLIC"]
           /\ age = 0 \/ age < OtherRate["PUBLIC"]
    <2> HIDE DEF count
    <2>1. ASSUME NEW type \in Talk!FloodTypes, cnt > FloodAfter[type],
                 age = 0 \/ cnt * FloodRate[type] > FloodAfter[type] * age
          PROVE  /\ type \in DOMAIN FloodAfter /\ count > FloodAfter[type]
                 /\ age = 0 \/ count * FloodRate[type] > FloodAfter[type] * age
      <3> DEFINE after == FloodAfter[type]
                 rate == FloodRate[type]
      <3>1. type \in DOMAIN FloodAfter /\ after \in Nat /\ rate \in Nat
        BY DEF Settings
      <3> HIDE DEF after, rate
      <3>2. cnt * rate =< count * rate
        BY <1>2, <1>3, <3>1, TimesMore
      <3>3. cnt * rate \in Nat /\ count * rate \in Nat /\ after * age \in Nat
        BY <1>2, <1>3, <3>1
      <3>4. age = 0 \/ cnt * rate > after * age
        BY <2>1 DEF after, rate
      <3>5. age = 0 \/ count * rate > after * age
        BY <3>2, <3>3, <3>4
      <3>6. count > after
        BY <1>2, <1>3, <2>1, <3>1 DEF after
      <3> QED
        BY <3>1, <3>5, <3>6 DEF after, rate
    <2>2. ASSUME "PUBLIC" \in Talk!OtherTypes, cnt >= OtherCount["PUBLIC"]
          PROVE  count >= OtherCount["PUBLIC"]
      <3>1. OtherCount["PUBLIC"] \in Nat
        BY <2>2 DEF Settings
      <3> QED
        BY <1>2, <1>3, <2>2, <3>1
    <2> QED
      BY <1>1, <2>1, <2>2 DEF Enough
  <1> QED
    BY <1>4 DEF Talk!Flooded

(* Only who has flooded is ignored without being asked for.                 *)
FloodersOnly ==
    \A n \in Senders :
        AutoMask[n] \in DOMAIN client'.ignored_nicks \ DOMAIN client.ignored_nicks =>
            Talk!Typed \/ \E m \in Senders : AutoMask[m] = AutoMask[n] /\ Talk!Flooded(heard'[m])

LEMMA ShownFlooded ==
    ASSUME MInv', Talk!Typed \/ FloodShown
    PROVE  FloodersOnly
  <1>1. \A m \in Senders : heard'[m] \in Seq(0 .. Aged)
    BY DEF MInv, Histories
  <1> DEFINE h == heard'
  <1>2. \A m \in Senders : Proven(h[m], 0) => Talk!Flooded(h[m])
    <2> HIDE DEF h
    <2> QED
      BY <1>1, SettingsHold, FloodedIs DEF h
  <1> QED
    BY <1>2 DEF FloodShown, FloodersOnly

----------------------------------------------------------------------------
(* The composition.                                                         *)

LEMMA TalkSteps == [Next]_vars => [Talk!Next]_(Talk!vars)
  BY DEF Next, vars, messageVars, Talk!vars

LEMMA TalkInits == Init => Talk!Init
  BY DEF Init

(* So the invariant holds throughout.                                       *)
LEMMA MInvHolds == Spec => []MInv
  <1>1. Init => MInv
    BY TalkInits, InitMInv
  <1>2. MInv /\ [Next]_vars => MInv'
    BY TalkSteps, NextMInv
  <1> QED
    BY <1>1, <1>2, PTL DEF Spec

(* The table of check_flooding never has more entries than FLOOD_USERS,     *)
(* although remove_oldest_flood_hashlist cuts chains and clean_flood_list   *)
(* does not tell how many it has removed.                                   *)
THEOREM TableIsBounded == Spec => []Talk!FloodListBounded
  <1>1. MInv => Talk!FloodListBounded
    BY DEF MInv, Stage, Room, Talk!FloodListBounded
  <1> QED
    BY <1>1, MInvHolds, PTL

(* With the buffer of a process, its line, and the sign-on, whose bounds    *)
(* hold by theorems of their own.                                           *)
THEOREM TrafficTypes == Spec => []TypeOK
  <1>1. Output!TypeOK /\ SignOn!TypeOK /\ Talk!FloodListBounded => TypeOK
    BY DEF TypeOK
  <1> QED
    BY <1>1, TableIsBounded, BufferFits, NickTypesHold, PTL

(* flood_prot ignores only who has sent more than the settings allow within *)
(* the time they give, whatever was removed from the table, aged or counted *)
(* anew in between; and between two CTCP replies at least CTCP_DELAY        *)
(* seconds pass, whoever asks, in however many lines or in one.             *)
THEOREM FloodersAreIgnored == Spec => OnlyFloodersIgnored
  <1>1. MInv /\ [Next]_vars => [FloodersOnly]_(Talk!vars)
    <2> SUFFICES ASSUME MInv, [Next]_vars PROVE FloodersOnly
      OBVIOUS
    <2>1. MInv' /\ (Talk!Typed \/ FloodShown)
      BY TalkSteps, NextMInv
    <2> QED
      BY <2>1, ShownFlooded
  <1>2. MInv => (part = "messages" => Talk!RepliesSpaced)
    BY DEF MInv, Talk!RepliesSpaced
  <1> QED
    BY <1>1, <1>2, MInvHolds, PTL DEF Spec, OnlyFloodersIgnored, Talk!OnlyFloodersIgnored, FloodersOnly
=============================================================================
