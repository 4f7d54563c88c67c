-------------------------- MODULE WhoisQueueProofs --------------------------
(* Proofs about WhoisQueue for any nicknames, requests, sets of nicknames   *)
(* signed on, messages of the user and bounds.                              *)
EXTENDS WhoisQueue, Recursion, FiniteSetTheorems, TLAPS

(* Min is the least element.                                                *)
LEMMA MinIsLeast ==
    ASSUME NEW S \in SUBSET Nat, S # {}
    PROVE  Min(S) \in S /\ \A y \in S : Min(S) =< y
  BY Least DEF Min

----------------------------------------------------------------------------
(* The list.                                                                *)

(* What the fields hold, whatever their order.                              *)
Pointed == /\ head \in Pointers /\ tail \in Pointers
           /\ \A id \in Live : heap[id].next \in Pointers
           /\ Live \subseteq 1 .. asked /\ asked \in 0 .. MaxRequests

Step(id) == IF id \in Live THEN heap[id].next ELSE Null

(* Found follows the next pointers.                                         *)
LEMMA FoundIs ==
    ASSUME Pointed
    PROVE  /\ Found \in [0 .. MaxRequests -> Pointers]
           /\ Found[0] = head
           /\ \A k \in 1 .. MaxRequests : Found[k] = Step(Found[k - 1])
  <1> DEFINE E(f) == [k \in 0 .. MaxRequests |->
                         IF k = 0 THEN head
                         ELSE IF f[k - 1] \in Live THEN heap[f[k - 1]].next ELSE Null]
             T == [k \in Nat |-> [p \in Pointers |-> Step(p)]]
  <1>1. head \in Pointers /\ \A p : Step(p) \in Pointers
    BY DEF Pointed, Step, Pointers
  <1>2. /\ T \in [Nat -> [Pointers -> Pointers]]
        /\ \A k \in Nat, p \in Pointers : T[k][p] = Step(p)
    BY <1>1
  <1> HIDE DEF T
  <1>3. PICK f \in [0 .. MaxRequests -> Pointers] :
            f[0] = head /\ \A k \in 1 .. MaxRequests : f[k] = Step(f[k - 1])
    <2>1. PICK f : Iterates(f, Pointers, T, head, MaxRequests)
      BY <1>1, <1>2, Iteration, BoundsAssumption
    <2>2. \A k \in 1 .. MaxRequests : k \in Nat /\ f[k - 1] \in Pointers
      BY <2>1, BoundsAssumption DEF Iterates
    <2> QED
      BY <1>2, <2>1, <2>2, ZenonT(60) DEF Iterates
  <1>4. f = E(f)
    BY <1>3, BoundsAssumption DEF Step
  <1>5. Found = CHOOSE g : g = E(g)
    BY DEF Found
  <1> HIDE DEF E
  <1>6. Found = E(Found)
    BY <1>4, <1>5
  <1> USE DEF E
  <1>7. Found[0] = head /\ \A k \in 1 .. MaxRequests : Found[k] = Step(Found[k - 1])
    BY <1>6, BoundsAssumption DEF Step
  <1>8. \A k \in 0 .. MaxRequests : Found[k] \in Pointers
    BY <1>1, <1>7, BoundsAssumption
  <1> QED
    BY <1>6, <1>7, <1>8

(* What keeps the list in order.  An entry may be live and lost: nothing    *)
(* but the next pointers of other lost entries leads to it.                 *)
Listed ==
    /\ Pointed
    /\ \A id \in Live : heap[id].next # Null => heap[id].next > id /\ heap[id].next # head
    /\ \A i, j \in Live : heap[i].next = heap[j].next /\ heap[i].next # Null => i = j
    /\ head = Null => tail = Null
    /\ tail # Null => heap[tail].next = Null

(* The refnums found grow, so the list ends within MaxRequests entries.     *)
LEMMA ListEnds ==
    ASSUME Listed
    PROVE  Found[MaxRequests] = Null
  <1> DEFINE Bad == {k \in 0 .. MaxRequests : Found[k] # Null /\ ~(Found[k] >= k + 1)}
  <1>1. /\ Found \in [0 .. MaxRequests -> Pointers]
        /\ Found[0] = head
        /\ \A k \in 1 .. MaxRequests : Found[k] = Step(Found[k - 1])
    BY FoundIs DEF Listed
  <1>2. \A p \in Pointers : p \in Int /\ p =< MaxRequests /\ (p \in Live => p >= 1)
                           /\ (p \notin Live => p = Null)
    BY BoundsAssumption DEF Listed, Pointed, Pointers, Null
  <1>3. Bad = {}
    <2> SUFFICES ASSUME Bad # {} PROVE FALSE
      OBVIOUS
    <2>1. Bad \in SUBSET Nat
      BY BoundsAssumption
    <2>2. PICK m \in Bad : \A y \in Bad : m =< y
      <3> HIDE DEF Bad
      <3> QED
        BY <2>1, Least
    <2>3. m \in 0 .. MaxRequests /\ Found[m] # Null /\ ~(Found[m] >= m + 1)
      OBVIOUS
    <2>4. m # 0
      BY <1>1, <1>2, <2>3
    <2>5. m - 1 \in 0 .. MaxRequests /\ ~(m =< m - 1)
      BY <2>3, <2>4, BoundsAssumption
    <2>6. m - 1 \notin Bad
      BY <2>2, <2>5
    <2>7. Found[m] = Step(Found[m - 1]) /\ Found[m - 1] \in Pointers
      BY <1>1, <2>3, <2>4, <2>5
    <2>8. Found[m - 1] \in Live /\ Found[m] = heap[Found[m - 1]].next
      BY <2>3, <2>7 DEF Step
    <2>9. Found[m - 1] >= m
      <3>1. Found[m - 1] # Null
        BY <1>2, <2>7, <2>8 DEF Null
      <3> QED
        BY <2>3, <2>5, <2>6, <3>1
    <2>10. Found[m] > Found[m - 1] /\ Found[m] \in Int
      BY <1>1, <1>2, <2>3, <2>8 DEF Listed
    <2> QED
      BY <1>2, <2>3, <2>7, <2>9, <2>10
  <1>4. MaxRequests \in 0 .. MaxRequests
    BY BoundsAssumption
  <1>5. Found[MaxRequests] = Null \/ Found[MaxRequests] >= MaxRequests + 1
    BY <1>3, <1>4
  <1> HIDE DEF Bad
  <1> QED
    BY <1>1, <1>2, <1>4, <1>5, BoundsAssumption

(* The entries of the list are live, linked one to the next, the last to    *)
(* none, and in the order they were added.                                  *)
LEMMA ChainIs ==
    ASSUME Listed
    PROVE  /\ Length \in 0 .. MaxRequests
           /\ Length = 0 <=> head = Null
           /\ Chain \in [1 .. Length -> Live]
           /\ Length > 0 => Chain[1] = head /\ heap[Chain[Length]].next = Null
           /\ \A k \in 1 .. Length - 1 : Chain[k + 1] = heap[Chain[k]].next
           /\ \A i, j \in 1 .. Length : i < j => Chain[i] < Chain[j]
  <1> DEFINE S == {k \in 0 .. MaxRequests : Found[k] = Null}
  <1>1. /\ Found \in [0 .. MaxRequests -> Pointers]
        /\ Found[0] = head
        /\ \A k \in 1 .. MaxRequests : Found[k] = Step(Found[k - 1])
    BY FoundIs DEF Listed
  <1>2. S \in SUBSET Nat /\ S # {}
    BY ListEnds, BoundsAssumption
  <1>3. Length \in S /\ \A y \in S : Length =< y
    BY <1>2, MinIsLeast DEF Length
  <1>4. Length \in 0 .. MaxRequests /\ Found[Length] = Null
    BY <1>3
  <1>5. \A k \in 0 .. Length - 1 : k \in 0 .. MaxRequests /\ Found[k] \in Live
    BY <1>1, <1>3, <1>4, BoundsAssumption DEF Pointers
  <1> HIDE DEF Length
  <1>6. Chain = [k \in 1 .. Length |-> Found[k - 1]]
    BY DEF Chain
  <1>7. Chain \in [1 .. Length -> Live]
    BY <1>4, <1>5, <1>6
  <1>8. \A k \in 1 .. Length : Found[k] = heap[Chain[k]].next
    BY <1>1, <1>4, <1>5, <1>6, BoundsAssumption DEF Step
  <1>9. Length = 0 <=> head = Null
    BY <1>1, <1>3, <1>4, <1>5, BoundsAssumption DEF Listed, Pointed, Null
  <1>10. \A k \in 1 .. Length - 1 : Chain[k + 1] = heap[Chain[k]].next
    BY <1>4, <1>6, <1>8
  <1>11. Length > 0 => Chain[1] = head /\ heap[Chain[Length]].next = Null
    BY <1>1, <1>4, <1>6, <1>8
  <1>12. \A k \in 1 .. Length : Chain[k] \in Int /\ Chain[k] # Null
    <2>1. \A id \in Live : id \in Int /\ id # Null
      BY DEF Listed, Pointed, Null
    <2> QED
      BY <1>4, <1>7, <2>1
  <1>13. \A k \in 1 .. Length - 1 : Chain[k + 1] > Chain[k]
    <2> SUFFICES ASSUME NEW k \in 1 .. Length - 1 PROVE Chain[k + 1] > Chain[k]
      OBVIOUS
    <2>1. k \in 1 .. Length /\ k + 1 \in 1 .. Length
      BY <1>4
    <2>2. Chain[k] \in Live /\ heap[Chain[k]].next = Chain[k + 1] /\ Chain[k + 1] # Null
      BY <1>7, <1>10, <1>12, <2>1
    <2> QED
      BY <2>2 DEF Listed
  <1> HIDE DEF Chain
  <1>14. ASSUME NEW i \in 1 .. Length
         PROVE  \A j \in 1 .. Length : i < j => Chain[i] < Chain[j]
    <2> DEFINE Bad == {j \in 1 .. Length : i < j /\ ~(Chain[i] < Chain[j])}
    <2> SUFFICES ASSUME Bad # {} PROVE FALSE
      OBVIOUS
    <2>0. Bad \in SUBSET Nat
      BY <1>4
    <2>1. PICK m \in Bad : \A y \in Bad : m =< y
      <3> HIDE DEF Bad
      <3> QED
        BY <2>0, Least
    <2>2. m \in 1 .. Length /\ i < m /\ ~(Chain[i] < Chain[m])
      OBVIOUS
    <2>3. m - 1 \in 1 .. Length - 1 /\ m - 1 \in 1 .. Length /\ (m - 1) + 1 = m
      BY <1>4, <1>14, <2>2
    <2>4. i = m - 1 \/ Chain[i] < Chain[m - 1]
      BY <1>4, <1>14, <2>1, <2>2, <2>3
    <2>5. Chain[m] > Chain[m - 1]
      BY <1>13, <2>3
    <2> QED
      BY <1>12, <2>2, <2>3, <2>4, <2>5
  <1> QED
    BY <1>4, <1>7, <1>9, <1>10, <1>11, <1>14

----------------------------------------------------------------------------
(* The nicks of an answer.                                                  *)

(* Picked goes through the sequence.                                        *)
Picks(p, s, S, V) ==
    /\ p \in [0 .. Len(s) -> Seq(V)] /\ p[0] = <<>>
    /\ \A i \in 1 .. Len(s) : p[i] = IF s[i] \in S THEN Append(p[i - 1], s[i]) ELSE p[i - 1]

\* The recursion of Picked: the nicks of s that are in S, taken one by one.
LEMMA PickedIs ==
    ASSUME NEW V, NEW s \in Seq(V), NEW S
    PROVE  \E p : Picks(p, s, S, V) /\ Picked(s, S) = p[Len(s)]
  <1> DEFINE E(h) == [i \in 0 .. Len(s) |->
                         IF i = 0 THEN <<>>
                         ELSE IF s[i] \in S THEN Append(h[i - 1], s[i]) ELSE h[i - 1]]
             T == [k \in Nat |-> [q \in Seq(V) |->
                      IF k \in 1 .. Len(s) /\ s[k] \in S THEN Append(q, s[k]) ELSE q]]
             picked == CHOOSE h : h = E(h)
  <1>1. /\ T \in [Nat -> [Seq(V) -> Seq(V)]]
        /\ \A k \in 1 .. Len(s), q \in Seq(V) :
              T[k][q] = IF s[k] \in S THEN Append(q, s[k]) ELSE q
    OBVIOUS
  <1> HIDE DEF T
  <1>2. <<>> \in Seq(V) /\ Len(s) \in Nat
    OBVIOUS
  <1>3. PICK h : Iterates(h, Seq(V), T, <<>>, Len(s))
    BY <1>1, <1>2, Iteration
  <1>4. h = E(h)
    <2>1. h \in [0 .. Len(s) -> Seq(V)] /\ h[0] = <<>>
      BY <1>3 DEF Iterates
    <2>2. ASSUME NEW i \in 1 .. Len(s)
          PROVE  h[i] = IF s[i] \in S THEN Append(h[i - 1], s[i]) ELSE h[i - 1]
      <3>1. h[i] = T[i][h[i - 1]]
        BY <1>3 DEF Iterates
      <3>2. i - 1 \in 0 .. Len(s)
        BY <1>2
      <3>3. h[i - 1] \in Seq(V)
        BY <2>1, <3>2
      <3> QED
        BY <1>1, <3>1, <3>3
    <2>3. ASSUME NEW i \in 0 .. Len(s) PROVE h[i] = E(h)[i]
      <3>1. CASE i = 0
        BY <2>1, <3>1
      <3>2. CASE i # 0
        <4>1. i \in 1 .. Len(s)
          BY <1>2, <3>2
        <4> QED
          BY <2>2, <3>2, <4>1
      <3> QED
        BY <3>1, <3>2
    <2>4. E(h) = [i \in 0 .. Len(s) |-> E(h)[i]]
      OBVIOUS
    <2> HIDE DEF E
    <2> QED
      BY <2>1, <2>3, <2>4
  <1>5. picked = E(picked)
    <2> HIDE DEF E
    <2> QED
      BY <1>4
  <1>6. Picked(s, S) = picked[Len(s)]
    BY DEF Picked
  <1>7. /\ picked[0] = <<>>
        /\ \A i \in 1 .. Len(s) :
              picked[i] = IF s[i] \in S THEN Append(picked[i - 1], s[i]) ELSE picked[i - 1]
    <2>1. \A i \in 0 .. Len(s) : picked[i] = E(picked)[i]
      <3> HIDE DEF E
      <3> QED
        BY <1>5
    <2> HIDE DEF picked
    <2>2. E(picked)[0] = <<>>
      BY <1>2
    <2>3. ASSUME NEW i \in 1 .. Len(s)
          PROVE  E(picked)[i] = IF s[i] \in S THEN Append(picked[i - 1], s[i]) ELSE picked[i - 1]
      BY <1>2
    <2> HIDE DEF E
    <2> QED
      BY <1>2, <2>1, <2>2, <2>3
  <1>8. \A k \in 0 .. Len(s) : picked[k] \in Seq(V)
    <2> DEFINE Bad == {k \in 0 .. Len(s) : picked[k] \notin Seq(V)}
    <2> HIDE DEF picked
    <2>1. ASSUME NEW k \in 1 .. Len(s), k \in Bad PROVE k - 1 \in Bad
      <3>1. k - 1 \in 0 .. Len(s) /\ s[k] \in V /\ picked[k] \notin Seq(V)
        BY <1>2, <2>1
      <3>2. picked[k] = IF s[k] \in S THEN Append(picked[k - 1], s[k]) ELSE picked[k - 1]
        BY <1>7
      <3>3. picked[k - 1] \notin Seq(V)
        <4>1. \A q \in Seq(V) : Append(q, s[k]) \in Seq(V)
          BY <3>1
        <4> QED
          BY <3>1, <3>2, <4>1
      <3> QED
        BY <3>1, <3>3
    <2>2. 0 \notin Bad /\ Bad \in SUBSET (0 .. Len(s))
      <3>1. picked[0] \in Seq(V)
        BY <1>2, <1>7
      <3> QED
        BY <3>1
    <2>3. Bad = {}
      <3> HIDE DEF Bad
      <3> QED
        BY <1>2, <2>1, <2>2, NoneBad
    <2> QED
      BY <2>3
  <1>9. picked \in [0 .. Len(s) -> Seq(V)]
    <2>1. picked = [k \in 0 .. Len(s) |-> picked[k]]
      <3> DEFINE F == [k \in 0 .. Len(s) |-> picked[k]]
      <3>1. DOMAIN E(picked) = 0 .. Len(s) /\ E(picked) = [k \in DOMAIN E(picked) |-> E(picked)[k]]
        OBVIOUS
      <3> HIDE DEF E
      <3> QED
        BY <1>5, <3>1
    <2> HIDE DEF picked
    <2> QED
      BY <1>8, <2>1
  <1> HIDE DEF picked
  <1> QED
    BY <1>6, <1>7, <1>9 DEF Picks

\* Picked returns nicks of S.
LEMMA PickedType ==
    ASSUME NEW V, NEW s \in Seq(V), NEW S
    PROVE  Picked(s, S) \in Seq(V)
  <1>1. PICK p : Picks(p, s, S, V) /\ Picked(s, S) = p[Len(s)]
    BY PickedIs
  <1>2. Len(s) \in 0 .. Len(s)
    OBVIOUS
  <1> QED
    BY <1>1, <1>2 DEF Picks

(* The answers used up after each nick are at most one more than before it. *)
LEMMA UsedIs ==
    ASSUME NEW nicks \in Seq(Nicks), NEW here \in Seq(Nicks)
    PROVE  /\ Used(nicks, here)[0] = 0
           /\ \A i \in 0 .. Len(nicks) : Used(nicks, here)[i] \in 0 .. Len(here)
           /\ \A i \in 1 .. Len(nicks) :
                 LET u == Used(nicks, here)[i - 1]
                 IN  Used(nicks, here)[i] = IF u < Len(here) /\ here[u + 1] = nicks[i]
                                            THEN u + 1 ELSE u
  <1> DEFINE E(u) == [i \in 0 .. Len(nicks) |->
                         IF i = 0 THEN 0
                         ELSE IF u[i - 1] < Len(here) /\ here[u[i - 1] + 1] = nicks[i]
                              THEN u[i - 1] + 1 ELSE u[i - 1]]
             S == 0 .. Len(here)
             T == [k \in Nat |-> [v \in S |->
                      IF v < Len(here) /\ here[v + 1] = nicks[k] THEN v + 1 ELSE v]]
             used == CHOOSE u : u = E(u)
  <1>1. /\ T \in [Nat -> [S -> S]]
        /\ \A k \in Nat, v \in S :
              T[k][v] = IF v < Len(here) /\ here[v + 1] = nicks[k] THEN v + 1 ELSE v
    OBVIOUS
  <1>2. 0 \in S /\ Len(nicks) \in Nat
    OBVIOUS
  <1> HIDE DEF T, S
  <1>3. PICK u : Iterates(u, S, T, 0, Len(nicks))
    BY <1>1, <1>2, Iteration
  <1>4. u = E(u)
    <2>1. u \in [0 .. Len(nicks) -> S] /\ u[0] = 0
      BY <1>3 DEF Iterates
    <2>2. ASSUME NEW i \in 1 .. Len(nicks)
          PROVE  u[i] = IF u[i - 1] < Len(here) /\ here[u[i - 1] + 1] = nicks[i]
                        THEN u[i - 1] + 1 ELSE u[i - 1]
      <3>1. u[i] = T[i][u[i - 1]]
        BY <1>3 DEF Iterates
      <3>2. i - 1 \in 0 .. Len(nicks) /\ i \in Nat
        BY <1>2
      <3>3. u[i - 1] \in S
        BY <2>1, <3>2
      <3> QED
        BY <1>1, <3>1, <3>2, <3>3
    <2>3. u = [i \in 0 .. Len(nicks) |-> u[i]]
      BY <2>1
    <2>4. \A i \in 0 .. Len(nicks) : i = 0 \/ i \in 1 .. Len(nicks)
      BY <1>2
    <2>5. \A i \in 0 .. Len(nicks) : u[i] = E(u)[i]
      <3> TAKE i \in 0 .. Len(nicks)
      <3>1. CASE i = 0
        BY <2>1, <3>1
      <3>2. CASE i \in 1 .. Len(nicks) /\ i # 0
        BY <2>2, <3>2
      <3> QED
        BY <2>4, <3>1, <3>2
    <2> QED
      BY <2>3, <2>5, Zenon
  <1>5. used = E(used)
    <2> HIDE DEF E
    <2> QED
      BY <1>4
  <1>6. Used(nicks, here) = used
    BY DEF Used
  <1> HIDE DEF used
  <1>7. /\ used[0] = 0
        /\ \A i \in 1 .. Len(nicks) :
              used[i] = IF used[i - 1] < Len(here) /\ here[used[i - 1] + 1] = nicks[i]
                        THEN used[i - 1] + 1 ELSE used[i - 1]
    <2>1. \A i \in 0 .. Len(nicks) : used[i] = E(used)[i]
      <3> HIDE DEF E
      <3> QED
        BY <1>5
    <2>2. E(used)[0] = 0
      BY <1>2
    <2>3. \A i \in 1 .. Len(nicks) :
             E(used)[i] = IF used[i - 1] < Len(here) /\ here[used[i - 1] + 1] = nicks[i]
                          THEN used[i - 1] + 1 ELSE used[i - 1]
      BY <1>2
    <2> HIDE DEF E
    <2> QED
      BY <1>2, <2>1, <2>2, <2>3
  <1> HIDE DEF E
  <1>8. \A k \in 0 .. Len(nicks) : used[k] \in S
    <2> DEFINE Bad == {k \in 0 .. Len(nicks) : used[k] \notin S}
    <2> SUFFICES ASSUME Bad # {} PROVE FALSE
      OBVIOUS
    <2>1. Bad \in SUBSET Nat
      BY <1>2
    <2>2. PICK m \in Bad : \A y \in Bad : m =< y
      <3> HIDE DEF Bad
      <3> QED
        BY <2>1, Least
    <2>3. m \in 0 .. Len(nicks) /\ used[m] \notin S
      OBVIOUS
    <2>4. m # 0
      BY <1>2, <1>7, <2>3
    <2>5. m - 1 \in 0 .. Len(nicks) /\ ~(m =< m - 1) /\ m \in 1 .. Len(nicks)
      BY <1>2, <2>3, <2>4
    <2>6. used[m - 1] \in S
      BY <2>2, <2>5
    <2> QED
      BY <1>7, <2>3, <2>5, <2>6 DEF S
  <1> QED
    BY <1>6, <1>7, <1>8 DEF S

(* A nonempty answer reaches the first nick.                                *)
LEMMA ReachedIs ==
    ASSUME NEW nicks \in Seq(Nicks), NEW here \in Seq(Nicks), nicks # <<>>, here # <<>>
    PROVE  /\ Reached(nicks, here) \in 1 .. Len(nicks)
           /\ Rest(nicks, here) \in Seq(Nicks)
           /\ LastReported(nicks, here) \in Nicks
  <1> DEFINE R == {i \in 1 .. Len(nicks) : Used(nicks, here)[i - 1] < Len(here)}
             n == Reached(nicks, here)
  <1>1. Len(nicks) \in Nat \ {0} /\ Len(here) \in Nat \ {0}
    OBVIOUS
  <1>2. 1 \in R
    <2>1. Used(nicks, here)[0] = 0
      BY UsedIs
    <2> QED
      BY <1>1, <2>1
  <1>3. IsFiniteSet(1 .. Len(nicks)) /\ Cardinality(1 .. Len(nicks)) = Len(nicks)
    BY <1>1, FS_Interval
  <1>4. R \subseteq 1 .. Len(nicks)
    OBVIOUS
  <1> HIDE DEF R
  <1>5. Cardinality(R) \in Nat /\ Cardinality(R) =< Len(nicks) /\ Cardinality(R) # 0
    <2>1. IsFiniteSet(R) /\ Cardinality(R) =< Len(nicks)
      BY <1>3, <1>4, FS_Subset
    <2>2. Cardinality(R) \in Nat
      BY <2>1, FS_CardinalityType
    <2>3. Cardinality(R) # 0
      BY <1>2, <2>1, FS_EmptySet
    <2> QED
      BY <2>1, <2>2, <2>3
  <1>6. n \in 1 .. Len(nicks)
    BY <1>1, <1>5 DEF Reached, R
  <1> HIDE DEF n
  <1>7. SubSeq(nicks, n + 1, Len(nicks)) \in Seq(Nicks)
    BY <1>1, <1>6
  <1>8. nicks[n] \in Nicks /\ here[Len(here)] \in Nicks
    BY <1>1, <1>6
  <1> QED
    BY <1>6, <1>7, <1>8 DEF Rest, LastReported, Last, n

----------------------------------------------------------------------------
(* The invariant: the list in order, and what fills its entries, the        *)
(* requests and numerics under way, and the history.                        *)

Entry == [type : Types, nick : Seq(Nicks), isuser : BOOLEAN, next : Nat]
Request == [type : Types \cup {"PRIVMSG"}, nick : Seq(Nicks), id : Nat]
Message == [num : Nat, nick : Seq(Nicks), id : Nat]

Filled == heap \in [Live -> Entry] /\ \A id \in Live : heap[id].nick # <<>>

Mailed == /\ wire \in Seq(Request) /\ \A k \in 1 .. Len(wire) : wire[k].id =< asked
          /\ inbox \in Seq(Message) /\ \A k \in 1 .. Len(inbox) : inbox[k].id =< asked

Recorded == /\ stuff \in Nicks \cup {NoNick}
            /\ \A t \in told : t.entry \in 1 .. asked /\ t.cause \in 0 .. asked

QInv == Listed /\ Filled /\ Mailed /\ Recorded

(* Taking the head: nothing pointed to it, and the tail was not it unless   *)
(* it was the last.                                                         *)
LEMMA PopKeeps ==
    ASSUME Listed, Filled, head \in Live, Pop, asked' = asked
    PROVE  Listed' /\ Filled'
  <1> DEFINE next == heap[head].next
  <1>1. /\ DOMAIN heap' = Live \ {head}
        /\ \A id \in Live \ {head} : heap'[id] = heap[id]
        /\ head' = next /\ tail' = IF next = Null THEN Null ELSE tail
    BY DEF Pop
  <1>2. Filled'
    BY <1>1 DEF Pop, Filled, Live
  <1>3. /\ \A id \in Live : id \in 1 .. asked /\ heap[id].next \in Live \cup {Null}
        /\ head \in Live /\ head # Null /\ tail \in Live \cup {Null}
        /\ asked \in 0 .. MaxRequests
    <2>1. head # Null
      BY DEF Listed, Pointed, Null
    <2> QED
      BY <2>1 DEF Listed, Pointed, Pointers
  <1>4. \A id \in Live : heap[id].next # head
    BY <1>3 DEF Listed
  <1>5. Pointed'
    <2>1. next # Null => tail # head
      BY <1>3 DEF Listed
    <2>2. head' \in Live' \cup {Null} /\ tail' \in Live' \cup {Null}
      BY <1>1, <1>3, <1>4, <2>1 DEF Live
    <2>3. \A id \in Live' : heap'[id].next \in Live' \cup {Null}
      BY <1>1, <1>3, <1>4 DEF Live
    <2>4. Live' \subseteq 1 .. asked'
      BY <1>1, <1>3 DEF Live
    <2> QED
      BY <1>3, <2>2, <2>3, <2>4 DEF Pointed, Pointers
  <1>6. \A id \in Live' : heap'[id].next # Null => heap'[id].next > id /\ heap'[id].next # head'
    BY <1>1, <1>3 DEF Listed, Live
  <1>7. \A i, j \in Live' : heap'[i].next = heap'[j].next /\ heap'[i].next # Null => i = j
    BY <1>1 DEF Listed, Live
  <1>8. /\ head' = Null => tail' = Null
        /\ tail' # Null => heap'[tail'].next = Null
    <2>1. next # Null => tail # head
      BY <1>3 DEF Listed
    <2> QED
      BY <1>1, <1>3, <2>1 DEF Listed, Live
  <1> QED
    BY <1>2, <1>5, <1>6, <1>7, <1>8 DEF Listed

(* Cutting the head's nicks, whether or not the tail is forgotten.          *)
LEMMA CutKeeps ==
    ASSUME Listed, Filled, head \in Live, NEW rest \in Seq(Nicks), rest # <<>>,
           heap' = [heap EXCEPT ![head].nick = rest], head' = head,
           tail' \in {tail, Null}, asked' = asked
    PROVE  Listed' /\ Filled'
  <1>1. /\ DOMAIN heap' = Live
        /\ \A id \in Live : heap'[id] = IF id = head THEN [heap[id] EXCEPT !.nick = rest]
                                        ELSE heap[id]
    BY DEF Live
  <1>2. \A id \in Live : heap[id] \in Entry /\ heap[id].nick # <<>>
    BY DEF Filled
  <1>3. [heap[head] EXCEPT !.nick = rest] \in Entry
    BY <1>2 DEF Entry
  <1>4. \A id \in Live : /\ heap'[id] \in Entry /\ heap'[id].nick # <<>>
                         /\ heap'[id].next = heap[id].next
    BY <1>1, <1>2, <1>3 DEF Entry
  <1>5. heap' \in [Live -> Entry]
    BY <1>1, <1>4 DEF Live
  <1>6. Live' = Live
    BY <1>1 DEF Live
  <1>7. Filled'
    BY <1>4, <1>5, <1>6 DEF Filled
  <1>8. head # Null
    BY DEF Listed, Pointed, Null
  <1>9. Pointed'
    BY <1>4, <1>6 DEF Listed, Pointed, Pointers
  <1> QED
    BY <1>4, <1>6, <1>7, <1>8, <1>9 DEF Listed

(* Adding an entry behind the tail.                                         *)
LEMMA LinkKeeps ==
    ASSUME Listed, Filled, NEW a \in Asks, asked < MaxRequests,
           Linked(asked + 1, a), asked' = asked + 1
    PROVE  Listed' /\ Filled'
  <1> DEFINE new == asked + 1
             r == [type |-> a.type, nick |-> a.nick, isuser |-> a.isuser, next |-> Null]
  <1>1. /\ DOMAIN heap' = Live \cup {new}
        /\ \A id \in Live \cup {new} : heap'[id] = IF id = new THEN r
                                        ELSE IF id = tail THEN [heap[id] EXCEPT !.next = new]
                                        ELSE heap[id]
        /\ heap' = [id \in DOMAIN heap' |-> heap'[id]]
        /\ head' = IF head = Null THEN new ELSE head
        /\ tail' = new
    BY DEF Linked, Live
  <1>2. /\ \A id \in Live : id \in 1 .. asked /\ heap[id].next \in Live \cup {Null}
        /\ head \in Live \cup {Null} /\ tail \in Live \cup {Null}
        /\ asked \in Nat /\ MaxRequests \in Nat
    BY BoundsAssumption DEF Listed, Pointed, Pointers
  <1>3. new \notin Live /\ new # Null /\ new \in Nat
    BY <1>2 DEF Null
  <1>4. r \in Entry /\ r.nick # <<>> /\ r.next = Null
    BY AsksAssumption DEF Entry, Null
  <1>5. \A id \in Live : heap[id] \in Entry /\ heap[id].nick # <<>>
    BY DEF Filled
  <1>6. \A id \in Live : [heap[id] EXCEPT !.next = new] \in Entry
    BY <1>3, <1>5 DEF Entry
  <1> HIDE DEF r
  <1>7. \A id \in Live \cup {new} :
           /\ heap'[id] \in Entry /\ heap'[id].nick # <<>>
           /\ heap'[id].next = IF id = new THEN Null
                               ELSE IF id = tail THEN new ELSE heap[id].next
    BY <1>1, <1>4, <1>5, <1>6 DEF Entry
  <1>8. Live' = Live \cup {new}
    BY <1>1 DEF Live
  <1>9. heap' \in [Live' -> Entry]
    BY <1>1, <1>7, <1>8
  <1>10. Filled'
    BY <1>7, <1>8, <1>9 DEF Filled
  <1> HIDE DEF new
  <1>11. \A id \in Live' : heap'[id].next \in Live' \cup {Null}
    BY <1>2, <1>7, <1>8
  <1>12. Live' \subseteq 1 .. asked' /\ asked' \in 0 .. MaxRequests
    BY <1>2, <1>8 DEF new
  <1>13. Pointed'
    BY <1>1, <1>2, <1>8, <1>11, <1>12 DEF Pointed, Pointers
  <1>14. \A id \in Live' : heap'[id].next # Null =>
             heap'[id].next > id /\ heap'[id].next # head'
    <2> SUFFICES ASSUME NEW id \in Live', heap'[id].next # Null
                 PROVE  heap'[id].next > id /\ heap'[id].next # head'
      OBVIOUS
    <2>1. id \in Live /\ id # new
      BY <1>7, <1>8
    <2>2. CASE id = tail
      <3>1. tail # Null /\ head # Null
        BY <1>2, <2>1, <2>2 DEF Listed, Null
      <3>2. head \in Live /\ head # new
        BY <1>2, <1>3, <3>1
      <3> QED
        BY <1>1, <1>2, <1>7, <1>8, <2>1, <2>2, <3>1, <3>2 DEF new
    <2>3. CASE id # tail
      <3>1. heap'[id].next = heap[id].next /\ heap[id].next \in Live
        BY <1>2, <1>7, <1>8, <2>1, <2>3
      <3> QED
        BY <1>1, <1>3, <2>1, <3>1 DEF Listed
    <2> QED
      BY <2>2, <2>3
  <1>15. \A i, j \in Live' : heap'[i].next = heap'[j].next /\ heap'[i].next # Null => i = j
    BY <1>2, <1>3, <1>7, <1>8 DEF Listed
  <1>16. /\ head' = Null => tail' = Null
         /\ tail' # Null => heap'[tail'].next = Null
    BY <1>1, <1>3, <1>7
  <1> QED
    BY <1>10, <1>13, <1>14, <1>15, <1>16 DEF Listed

(* Freeing the entries found: no other entry leads to one of them.          *)
LEMMA CleanKeeps ==
    ASSUME Listed, Filled, CleanWhoisQueue
    PROVE  Listed' /\ Filled'
  <1> DEFINE R == Range(Chain)
  <1>1. /\ DOMAIN heap' = Live \ R
        /\ \A id \in Live \ R : heap'[id] = heap[id]
        /\ head' = Null /\ tail' = IF head = Null THEN tail ELSE Null
        /\ asked' = asked
    BY DEF CleanWhoisQueue, Live
  <1>2. \A id \in Live \ R : heap[id].next \notin R
    <2> SUFFICES ASSUME NEW id \in Live \ R, NEW k \in 1 .. Length,
                        heap[id].next = Chain[k]
                 PROVE  FALSE
      BY ChainIs DEF Range
    <2>1. Length \in Nat /\ Chain \in [1 .. Length -> Live]
      BY ChainIs
    <2>2. Chain[k] # Null /\ heap[id].next # Null
      BY <2>1 DEF Listed, Pointed, Null
    <2>3. CASE k = 1
      BY <2>1, <2>2, <2>3, ChainIs DEF Listed
    <2>4. CASE k # 1
      <3>1. k - 1 \in 1 .. Length - 1 /\ k - 1 \in 1 .. Length /\ (k - 1) + 1 = k
        BY <2>1, <2>4
      <3>2. heap[Chain[k - 1]].next = Chain[k] /\ Chain[k - 1] \in Live
        BY <2>1, <3>1, ChainIs
      <3>3. id = Chain[k - 1]
        BY <2>2, <3>2 DEF Listed
      <3> QED
        BY <2>1, <3>1, <3>3 DEF Range
    <2> QED
      BY <2>3, <2>4
  <1> HIDE DEF R
  <1>3. Live' = Live \ R /\ Live' \subseteq Live
    BY <1>1 DEF Live
  <1>4. Filled'
    BY <1>1, <1>3 DEF CleanWhoisQueue, Filled, R
  <1>5. Pointed'
    BY <1>1, <1>2, <1>3 DEF Listed, Pointed, Pointers
  <1>6. tail' = Null
    BY <1>1 DEF Listed
  <1> QED
    BY <1>1, <1>3, <1>4, <1>5, <1>6 DEF Listed

----------------------------------------------------------------------------
(* The actions.                                                             *)

(* The numerics of an answer carry the number of their request.             *)
LEMMA RepliesMail ==
    ASSUME NEW r \in Request, NEW on
    PROVE  /\ Replies(r, on) \in Seq(Message)
           /\ \A k \in 1 .. Len(Replies(r, on)) : Replies(r, on)[k].id = r.id
  <1> DEFINE here == Picked(r.nick, on)
  <1>1. r.nick \in Seq(Nicks) /\ r.id \in Nat /\ r.type \in {"ISON", "USERHOST", "WHOIS", "PRIVMSG"}
    BY DEF Request, Types
  <1>2. here \in Seq(Nicks)
    BY <1>1, PickedType
  <1> HIDE DEF here
  <1>3. ASSUME NEW num \in Nat, NEW nick \in Seq(Nicks)
        PROVE  Numeric(num, nick, r) \in Message /\ Numeric(num, nick, r).id = r.id
    BY <1>1, <1>3 DEF Numeric, Message
  <1>4. ASSUME NEW m \in Message, m.id = r.id
        PROVE  /\ <<m>> \in Seq(Message)
               /\ \A k \in 1 .. Len(<<m>>) : <<m>>[k].id = r.id
    BY <1>4
  <1>5. ASSUME NEW m \in Message, m.id = r.id, NEW n \in Message, n.id = r.id
        PROVE  /\ <<m, n>> \in Seq(Message)
               /\ \A k \in 1 .. Len(<<m, n>>) : <<m, n>>[k].id = r.id
    BY <1>5
  <1>6. CASE r.type = "ISON"
    <2>1. Replies(r, on) = <<Numeric(303, here, r)>>
      BY <1>6 DEF Replies, here
    <2> QED
      BY <1>2, <1>3, <1>4, <2>1
  <1>7. CASE r.type = "USERHOST"
    <2>1. Replies(r, on) = <<Numeric(302, here, r)>>
      BY <1>7 DEF Replies, here
    <2> QED
      BY <1>2, <1>3, <1>4, <2>1
  <1>8. CASE r.type = "WHOIS"
    <2> DEFINE num == IF here = <<>> THEN 401 ELSE 311
    <2>1. Replies(r, on) = <<Numeric(num, r.nick, r), Numeric(318, r.nick, r)>>
      BY <1>8 DEF Replies, here
    <2>2. num \in Nat
      OBVIOUS
    <2> HIDE DEF num
    <2> QED
      BY <1>1, <1>3, <1>5, <2>1, <2>2
  <1>9. CASE r.type = "PRIVMSG"
    <2>1. Replies(r, on) = IF here = <<>> THEN <<Numeric(401, r.nick, r)>> ELSE <<>>
      BY <1>9 DEF Replies, here
    <2>2. CASE here = <<>>
      BY <1>1, <1>3, <1>4, <2>1, <2>2
    <2>3. CASE here # <<>>
      BY <2>1, <2>3
    <2> QED
      BY <2>2, <2>3
  <1> QED
    BY <1>1, <1>6, <1>7, <1>8, <1>9

(* Reading a numeric leaves the others.                                     *)
LEMMA ReadsMail ==
    ASSUME QInv, NEW num, Reads(num)
    PROVE  /\ Mailed' /\ asked' = asked
           /\ M \in Message /\ M.id \in 0 .. asked
  <1>1. /\ inbox \in Seq(Message) /\ inbox # <<>> /\ inbox' = Tail(inbox)
        /\ \A k \in 1 .. Len(inbox) : inbox[k].id =< asked
        /\ asked' = asked /\ wire' = wire
    BY DEF QInv, Mailed, Reads
  <1>2. /\ inbox' \in Seq(Message) /\ Len(inbox') = Len(inbox) - 1
        /\ \A k \in 1 .. Len(inbox') : inbox'[k] = inbox[k + 1] /\ k + 1 \in 1 .. Len(inbox)
    BY <1>1
  <1>3. \A k \in 1 .. Len(inbox') : inbox'[k].id =< asked
    BY <1>1, <1>2
  <1>4. inbox[1] \in Message /\ inbox[1].id =< asked /\ M = inbox[1]
    BY <1>1 DEF M
  <1>5. asked \in Nat
    BY BoundsAssumption DEF QInv, Listed, Pointed
  <1> QED
    BY <1>1, <1>2, <1>3, <1>4, <1>5 DEF QInv, Mailed, Message

(* What the history and whois_stuff hold stays, and so does what is added   *)
(* for the head.                                                            *)
LEMMA CallKeeps ==
    ASSUME QInv, NEW C, told' = told \cup C, asked' = asked,
           \A t \in C : t.entry \in Live /\ t.cause \in 0 .. asked,
           stuff' \in Nicks \cup {NoNick}
    PROVE  Recorded'
  BY DEF QInv, Listed, Pointed, Recorded

(* Nothing done to the list.                                                *)
LEMMA ListStays ==
    ASSUME Listed, Filled, UNCHANGED queue, asked' = asked
    PROVE  Listed' /\ Filled'
  BY DEF queue, Listed, Filled, Pointed, Pointers, Live

\* add_to_whois_queue keeps the invariant.
LEMMA AddKeeps ==
    ASSUME QInv, NEW a \in Asks, TypedAddToWhoisQueue(a)
    PROVE  QInv'
  <1>1. /\ asked < MaxRequests /\ asked' = asked + 1 /\ Linked(asked + 1, a)
        /\ wire' = Append(wire, [type |-> a.type, nick |-> a.nick, id |-> asked + 1])
        /\ stuff' = stuff /\ inbox' = inbox /\ told' = told
    BY DEF TypedAddToWhoisQueue
  <1>2. Listed' /\ Filled'
    BY <1>1, LinkKeeps DEF QInv
  <1>3. asked \in Nat
    BY BoundsAssumption DEF QInv, Listed, Pointed
  <1>4. [type |-> a.type, nick |-> a.nick, id |-> asked + 1] \in Request
    BY <1>3, AsksAssumption DEF Request
  <1>5. Mailed'
    <2>1. wire \in Seq(Request) /\ \A k \in 1 .. Len(wire) : wire[k].id \in Nat /\ wire[k].id =< asked
      <3>1. wire \in Seq(Request) /\ \A k \in 1 .. Len(wire) : wire[k] \in Request /\ wire[k].id =< asked
        BY DEF QInv, Mailed
      <3> QED
        BY <3>1 DEF Request
    <2>2. wire' \in Seq(Request) /\ \A k \in 1 .. Len(wire') : wire'[k].id =< asked'
      BY <1>1, <1>3, <1>4, <2>1
    <2>3. \A k \in 1 .. Len(inbox) : inbox[k].id \in Nat
      <3>1. \A k \in 1 .. Len(inbox) : inbox[k] \in Message
        BY DEF QInv, Mailed
      <3> QED
        BY <3>1 DEF Message
    <2>4. inbox' \in Seq(Message) /\ \A k \in 1 .. Len(inbox') : inbox'[k].id =< asked'
      BY <1>1, <1>3, <2>3 DEF QInv, Mailed
    <2> QED
      BY <2>2, <2>4 DEF Mailed
  <1>6. Recorded'
    BY <1>1, <1>3 DEF QInv, Recorded
  <1> QED
    BY <1>2, <1>5, <1>6 DEF QInv

\* So does a request that is sent beside the queue,
LEMMA SendKeeps ==
    ASSUME QInv, NEW nick \in Talks, NEW type \in {"WHOIS", "PRIVMSG"}, Send(type, nick)
    PROVE  QInv'
  <1>1. /\ wire' = Append(wire, [type |-> type, nick |-> <<nick>>, id |-> Null])
        /\ UNCHANGED queue /\ asked' = asked /\ stuff' = stuff
        /\ inbox' = inbox /\ told' = told
    BY DEF Send, queue
  <1>2. [type |-> type, nick |-> <<nick>>, id |-> Null] \in Request
    BY TalksAssumption DEF Request, Null, Types
  <1>3. asked \in Nat
    BY BoundsAssumption DEF QInv, Listed, Pointed
  <1>4. Mailed'
    BY <1>1, <1>2, <1>3 DEF QInv, Mailed, Null
  <1>5. Recorded'
    BY <1>1 DEF QInv, Recorded
  <1> QED
    BY <1>1, <1>4, <1>5, ListStays DEF QInv

\* an answer that the server sends,
LEMMA ReplyKeeps ==
    ASSUME QInv, Reply
    PROVE  QInv'
  <1>1. /\ wire # <<>> /\ wire' = Tail(wire) /\ UNCHANGED queue
        /\ asked' = asked /\ stuff' = stuff /\ told' = told
    BY DEF Reply, queue
  <1>2. PICK on \in Online : inbox' = inbox \o Replies(Head(wire), on)
    BY DEF Reply
  <1> DEFINE r == Head(wire)
             new == Replies(r, on)
  <1>3. r \in Request /\ r.id =< asked
    BY <1>1 DEF QInv, Mailed
  <1>4. new \in Seq(Message) /\ \A k \in 1 .. Len(new) : new[k].id = r.id
    BY <1>3, RepliesMail
  <1>5. inbox' = inbox \o new
    BY <1>2
  <1> HIDE DEF r, new
  <1>6. inbox' \in Seq(Message) /\ \A k \in 1 .. Len(inbox') : inbox'[k].id =< asked
    <2>1. inbox \in Seq(Message) /\ \A k \in 1 .. Len(inbox) : inbox[k].id =< asked
      BY DEF QInv, Mailed
    <2>2. inbox' \in Seq(Message) /\ Len(inbox') = Len(inbox) + Len(new)
      BY <1>4, <1>5, <2>1
    <2>3. ASSUME NEW k \in 1 .. Len(inbox') PROVE inbox'[k].id =< asked
      <3>1. CASE k =< Len(inbox)
        BY <1>4, <1>5, <2>1, <2>2, <3>1
      <3>2. CASE k > Len(inbox)
        <4>1. inbox'[k] = new[k - Len(inbox)] /\ k - Len(inbox) \in 1 .. Len(new)
          BY <1>4, <1>5, <2>1, <2>2, <3>2
        <4> QED
          BY <1>3, <1>4, <4>1
      <3> QED
        BY <2>1, <2>2, <3>1, <3>2
    <2> QED
      BY <2>2, <2>3
  <1>7. wire' \in Seq(Request) /\ \A k \in 1 .. Len(wire') : wire'[k].id =< asked
    BY <1>1 DEF QInv, Mailed
  <1>8. Mailed'
    BY <1>1, <1>6, <1>7 DEF Mailed
  <1>9. Recorded'
    BY <1>1 DEF QInv, Recorded
  <1> QED
    BY <1>1, <1>8, <1>9, ListStays DEF QInv

\* 303 (ison_returned),
LEMMA IsonKeeps ==
    ASSUME QInv, IsonReturned
    PROVE  QInv'
  <1>1. /\ Mailed' /\ asked' = asked /\ M.id \in 0 .. asked /\ stuff' = stuff
    BY ReadsMail DEF IsonReturned
  <1>2. CASE HeadIs("ISON")
    <2>1. Pop /\ told' = told \cup {Call(head, M.id, heap[head].nick, TRUE)} /\ head \in Live
      BY <1>2 DEF IsonReturned, HeadIs
    <2>2. Listed' /\ Filled'
      BY <1>1, <2>1, PopKeeps DEF QInv
    <2>3. Recorded'
      <3> DEFINE C == told' \ told
      <3>1. told' = told \cup C /\ \A t \in C : t.entry = head /\ t.cause = M.id
        BY <2>1 DEF Call
      <3> HIDE DEF C
      <3> QED
        BY <1>1, <2>1, <3>1, CallKeeps DEF QInv, Recorded
    <2> QED
      BY <1>1, <2>2, <2>3 DEF QInv
  <1>3. CASE ~HeadIs("ISON")
    <2>1. UNCHANGED queue /\ told' = told
      BY <1>3 DEF IsonReturned, queue
    <2> QED
      BY <1>1, <2>1, ListStays DEF QInv, Recorded
  <1> QED
    BY <1>2, <1>3

\* 311 (whois_name),
LEMMA WhoisNameKeeps ==
    ASSUME QInv, WhoisName
    PROVE  QInv'
  <1>1. /\ Mailed' /\ asked' = asked /\ UNCHANGED queue /\ told' = told
    BY ReadsMail DEF WhoisName, queue
  <1>2. stuff' \in Nicks \cup {NoNick}
    <2>1. CASE HeadIs("WHOIS") /\ heap[head].nick = <<N>>
      <3>1. heap[head].nick \in Seq(Nicks) /\ stuff' = N
        BY <2>1 DEF HeadIs, QInv, Filled, Entry, WhoisName
      <3>2. heap[head].nick[1] = N /\ Len(heap[head].nick) = 1
        BY <2>1
      <3> QED
        BY <3>1, <3>2
    <2>2. CASE ~(HeadIs("WHOIS") /\ heap[head].nick = <<N>>)
      BY <2>2 DEF QInv, Recorded, WhoisName
    <2> QED
      BY <2>1, <2>2
  <1>3. Recorded'
    BY <1>1, <1>2 DEF QInv, Recorded
  <1> QED
    BY <1>1, <1>3, ListStays DEF QInv

\* 318 (end_of_whois),
LEMMA EndKeeps ==
    ASSUME QInv, EndOfWhois
    PROVE  QInv'
  <1>1. /\ Mailed' /\ asked' = asked /\ M.id \in 0 .. asked /\ stuff' = stuff
    BY ReadsMail DEF EndOfWhois
  <1>2. CASE HeadIs("WHOIS") /\ heap[head].nick = <<N>>
    <2>1. Pop /\ told' = told \cup {Call(head, M.id, heap[head].nick, stuff = N)} /\ head \in Live
      BY <1>2 DEF EndOfWhois, HeadIs
    <2>2. Listed' /\ Filled'
      BY <1>1, <2>1, PopKeeps DEF QInv
    <2>3. Recorded'
      <3> DEFINE C == told' \ told
      <3>1. told' = told \cup C /\ \A t \in C : t.entry = head /\ t.cause = M.id
        BY <2>1 DEF Call
      <3> HIDE DEF C
      <3> QED
        BY <1>1, <2>1, <3>1, CallKeeps DEF QInv, Recorded
    <2> QED
      BY <1>1, <2>2, <2>3 DEF QInv
  <1>3. CASE ~(HeadIs("WHOIS") /\ heap[head].nick = <<N>>)
    <2>1. UNCHANGED queue /\ told' = told
      BY <1>3 DEF EndOfWhois, queue
    <2> QED
      BY <1>1, <2>1, ListStays DEF QInv, Recorded
  <1> QED
    BY <1>2, <1>3

(* A nick is cut out before the last one, so that something is left.        *)
LEMMA NoSuchKeeps ==
    ASSUME QInv, NoSuchNickname
    PROVE  QInv'
  <1>1. /\ Mailed' /\ asked' = asked /\ UNCHANGED <<stuff, told>>
    BY ReadsMail DEF NoSuchNickname
  <1>2. Recorded'
    BY <1>1 DEF QInv, Recorded
  <1>3. CASE HeadIs("USERHOST") /\ Contains(heap[head].nick, N)
    <2> DEFINE nicks == heap[head].nick
               S == {k \in 1 .. Len(nicks) : nicks[k] = N}
               i == Min(S)
    <2>1. head \in Live /\ nicks \in Seq(Nicks)
      BY <1>3 DEF HeadIs, QInv, Filled, Entry
    <2>2. S \in SUBSET Nat /\ S # {}
      BY <1>3, <2>1 DEF Contains
    <2>3. i \in S
      <3> HIDE DEF S
      <3> QED
        BY <2>2, MinIsLeast
    <2>4. IF i = Len(nicks) THEN Pop
          ELSE heap' = [heap EXCEPT ![head].nick = RemoveAt(nicks, i)] /\ UNCHANGED <<head, tail>>
      BY <1>3 DEF NoSuchNickname
    <2> HIDE DEF i
    <2>5. i \in 1 .. Len(nicks)
      BY <2>3
    <2>6. CASE i = Len(nicks)
      BY <1>1, <1>2, <2>1, <2>4, <2>6, PopKeeps DEF QInv
    <2>7. CASE i # Len(nicks)
      <3> DEFINE rest == RemoveAt(nicks, i)
      <3>1. heap' = [heap EXCEPT ![head].nick = rest] /\ head' = head /\ tail' = tail
        BY <2>4, <2>7
      <3>2. rest \in Seq(Nicks) /\ rest # <<>>
        <4> HIDE DEF nicks
        <4>1. rest = SubSeq(nicks, 1, i - 1) \o SubSeq(nicks, i + 1, Len(nicks))
          BY DEF RemoveAt
        <4>2. SubSeq(nicks, 1, i - 1) \in Seq(Nicks)
          BY <2>1, <2>5
        <4>3. SubSeq(nicks, i + 1, Len(nicks)) \in Seq(Nicks)
              /\ Len(SubSeq(nicks, i + 1, Len(nicks))) > 0
          BY <2>1, <2>5, <2>7
        <4> DEFINE a == SubSeq(nicks, 1, i - 1)
                   b == SubSeq(nicks, i + 1, Len(nicks))
        <4>4. rest = a \o b
          BY <4>1
        <4> HIDE DEF a, b, rest
        <4>5. a \in Seq(Nicks) /\ b \in Seq(Nicks) /\ Len(b) > 0
          BY <4>2, <4>3 DEF a, b
        <4>6. a \o b \in Seq(Nicks) /\ Len(a \o b) > 0
          BY <4>5
        <4> QED
          BY <4>4, <4>6
      <3> HIDE DEF rest
      <3>3. Listed' /\ Filled'
        BY <1>1, <2>1, <3>1, <3>2, CutKeeps DEF QInv
      <3> QED
        BY <1>1, <1>2, <3>3 DEF QInv
    <2> QED
      BY <2>6, <2>7
  <1>4. CASE ~(HeadIs("USERHOST") /\ Contains(heap[head].nick, N))
    <2>1. UNCHANGED queue
      BY <1>4 DEF NoSuchNickname, queue
    <2> QED
      BY <1>1, <1>2, <2>1, ListStays DEF QInv
  <1> QED
    BY <1>3, <1>4

\* 302 (userhost_returned),
LEMMA UserhostKeeps ==
    ASSUME QInv, UserhostReturned
    PROVE  QInv'
  <1>1. /\ Mailed' /\ asked' = asked /\ M \in Message /\ M.id \in 0 .. asked
    BY ReadsMail DEF UserhostReturned
  <1>2. CASE M.nick # <<>> /\ HeadIs("USERHOST")
    <2> DEFINE nicks == heap[head].nick
               here == M.nick
               rest == Rest(nicks, here)
    <2>1. /\ head \in Live /\ nicks \in Seq(Nicks) /\ nicks # <<>>
          /\ here \in Seq(Nicks) /\ here # <<>>
      BY <1>1, <1>2 DEF HeadIs, QInv, Filled, Entry, Message
    <2>2. /\ told' = told \cup Reported(nicks, here)
          /\ stuff' = IF heap[head].isuser THEN stuff ELSE LastReported(nicks, here)
          /\ IF rest = <<>> THEN Pop ELSE PushedBack(rest)
      BY <1>2 DEF UserhostReturned
    <2> HIDE DEF nicks, here
    <2>3. rest \in Seq(Nicks) /\ LastReported(nicks, here) \in Nicks
      BY <2>1, ReachedIs
    <2>4. \A t \in Reported(nicks, here) : t.entry = head /\ t.cause = M.id
      BY DEF Reported, Call
    <2>5. stuff' \in Nicks \cup {NoNick}
      BY <2>2, <2>3 DEF QInv, Recorded
    <2>6. Recorded'
      BY <1>1, <2>1, <2>2, <2>4, <2>5, CallKeeps
    <2> HIDE DEF rest
    <2>7. Listed' /\ Filled'
      <3>1. CASE rest = <<>>
        BY <1>1, <2>1, <2>2, <3>1, PopKeeps DEF QInv
      <3>2. CASE rest # <<>>
        <4>1. PushedBack(rest)
          BY <2>2, <3>2
        <4>2. heap' = [heap EXCEPT ![head].nick = rest] /\ head' = head /\ tail' \in {tail, Null}
          BY <4>1 DEF PushedBack
        <4> QED
          BY <1>1, <2>1, <2>3, <3>2, <4>2, CutKeeps DEF QInv
      <3> QED
        BY <3>1, <3>2
    <2> QED
      BY <1>1, <2>6, <2>7 DEF QInv
  <1>3. CASE ~(M.nick # <<>> /\ HeadIs("USERHOST"))
    <2>1. UNCHANGED queue /\ stuff' = stuff /\ told' = told
      BY <1>3 DEF UserhostReturned, queue
    <2> QED
      BY <1>1, <2>1, ListStays DEF QInv, Recorded
  <1> QED
    BY <1>2, <1>3

\* and clean_whois_queue.
LEMMA CleanQueueKeeps ==
    ASSUME QInv, CleanWhoisQueue
    PROVE  QInv'
  <1>1. /\ wire' = <<>> /\ inbox' = <<>> /\ asked' = asked /\ UNCHANGED <<stuff, told>>
    BY DEF CleanWhoisQueue
  <1> QED
    BY <1>1, CleanKeeps DEF QInv, Mailed, Recorded

\* The invariant holds at first.
LEMMA InitQInv == Init => QInv
  <1> SUFFICES ASSUME Init PROVE QInv
    OBVIOUS
  <1>1. Live = {} /\ heap = [id \in {} |-> heap[id]]
    BY DEF Init, Live
  <1>2. Listed
    BY <1>1, BoundsAssumption DEF Init, Listed, Pointed, Pointers
  <1>3. Filled
    BY <1>1 DEF Filled
  <1> QED
    BY <1>2, <1>3 DEF Init, QInv, Mailed, Recorded

\* Every step keeps it.
LEMMA NextQInv == QInv /\ [Next]_vars => QInv'
  <1> SUFFICES ASSUME QInv, [Next]_vars PROVE QInv'
    OBVIOUS
  <1>1. CASE UNCHANGED vars
    <2>1. UNCHANGED queue /\ UNCHANGED <<stuff, asked, wire, inbox, told>>
      BY <1>1 DEF vars, queue
    <2> QED
      BY <2>1, ListStays DEF QInv, Mailed, Recorded
  <1>2. CASE \E a \in Asks : TypedAddToWhoisQueue(a)
    BY <1>2, AddKeeps
  <1>3. CASE \E nick \in Talks : Send("WHOIS", nick) \/ Send("PRIVMSG", nick)
    BY <1>3, SendKeeps
  <1>4. CASE Reply
    BY <1>4, ReplyKeeps
  <1>5. CASE ReadNumeric
    BY <1>5, IsonKeeps, UserhostKeeps, WhoisNameKeeps, EndKeeps, NoSuchKeeps DEF ReadNumeric
  <1>6. CASE CleanWhoisQueue
    BY <1>6, CleanQueueKeeps
  <1> QED
    BY <1>1, <1>2, <1>3, <1>4, <1>5, <1>6 DEF Next

----------------------------------------------------------------------------
(* The theorems.                                                            *)

LEMMA InductiveQueue == Spec => []QInv
  BY InitQInv, NextQInv, PTL DEF Spec

(* Whatever the server answers and the user sends besides, no pointer of    *)
(* whois_queue is to an entry that was freed, the list comes to an end, and *)
(* every call of an entry's function was for a request that was added.      *)
THEOREM TypeCorrect == Spec => []TypeOK
  <1>1. QInv => TypeOK
    <2> SUFFICES ASSUME QInv PROVE TypeOK
      OBVIOUS
    <2>1. Found[MaxRequests] = Null
      BY ListEnds DEF QInv
    <2>2. Live \subseteq Ids /\ asked \in 0 .. MaxRequests
      BY BoundsAssumption DEF QInv, Listed, Pointed, Ids
    <2>3. head \in Pointers /\ tail \in Pointers /\ \A id \in Live : heap[id].next \in Pointers
      BY DEF QInv, Listed, Pointed
    <2>4. \A id \in Live : /\ heap[id].type \in Types /\ heap[id].nick \in Seq(Nicks)
                           /\ heap[id].nick # <<>>
      BY DEF QInv, Filled, Entry
    <2> QED
      BY <2>1, <2>2, <2>3, <2>4 DEF TypeOK, QInv, Recorded
  <1> QED
    BY InductiveQueue, <1>1, PTL

(* The entries are in the order they were added, and there is no tail       *)
(* without a head and none with an entry behind it, whatever was put back,  *)
(* cut out, dropped or forgotten with the connection.                       *)
THEOREM QueueInOrder == Spec => []InOrder
  <1>1. QInv => InOrder
    <2> SUFFICES ASSUME QInv PROVE InOrder
      OBVIOUS
    <2>1. /\ Chain \in [1 .. Length -> Live]
          /\ \A i, j \in 1 .. Length : i < j => Chain[i] < Chain[j]
      BY ChainIs DEF QInv
    <2> HIDE DEF Chain
    <2> QED
      BY <2>1 DEF InOrder, QInv, Listed
  <1> QED
    BY InductiveQueue, <1>1, PTL

----------------------------------------------------------------------------
(* Lockstep.  When everybody is signed on and the user asks nothing         *)
(* himself, the entries of the queue are the requests under way in their    *)
(* order, and the queue implements the abstract Requests.                   *)

(* Everybody is signed on, and nothing but the queue asks the server.       *)
Quiet == Online \subseteq {Nicks} /\ Talks = {}

----------------------------------------------------------------------------
(* Sequences in the order of their elements.                                *)

Increasing(c) == \A i, j \in 1 .. Len(c) : i < j => c[i] < c[j]

Lists(c, S) == /\ c \in Seq(Nat) /\ Increasing(c)
               /\ \A k \in 1 .. Len(c) : c[k] \in S
               /\ \A x \in S : \E k \in 1 .. Len(c) : c[k] = x

(* A set is listed in its order by one sequence only.                       *)
LEMMA ListsOnce ==
    ASSUME NEW S, NEW c, NEW d, Lists(c, S), Lists(d, S)
    PROVE  c = d
  <1>1. /\ c \in Seq(Nat) /\ d \in Seq(Nat) /\ Len(c) \in Nat /\ Len(d) \in Nat
        /\ \A k \in 1 .. Len(c) : c[k] \in Nat
        /\ \A k \in 1 .. Len(d) : d[k] \in Nat
    BY DEF Lists
  <1>2. /\ \A i, j \in 1 .. Len(c) : i < j => c[i] < c[j]
        /\ \A i, j \in 1 .. Len(d) : i < j => d[i] < d[j]
    BY DEF Lists, Increasing
  <1>3. /\ \A k \in 1 .. Len(c) : \E l \in 1 .. Len(d) : d[l] = c[k]
        /\ \A k \in 1 .. Len(d) : \E l \in 1 .. Len(c) : c[l] = d[k]
    BY DEF Lists
  <1> DEFINE Bad == {k \in 1 .. Len(c) : k \in 1 .. Len(d) /\ c[k] # d[k]}
  <1>4. Bad = {}
    <2> SUFFICES ASSUME Bad # {} PROVE FALSE
      OBVIOUS
    <2>1. Bad \in SUBSET Nat
      BY <1>1
    <2>2. PICK m \in Bad : \A y \in Bad : m =< y
      <3> HIDE DEF Bad
      <3> QED
        BY <2>1, Least
    <2>3. m \in 1 .. Len(c) /\ m \in 1 .. Len(d) /\ c[m] # d[m]
      OBVIOUS
    <2>4. \A k \in 1 .. Len(c) : k < m => k \in 1 .. Len(d) /\ c[k] = d[k]
      <3>1. \A k \in 1 .. Len(c) : k < m => k \notin Bad /\ k \in 1 .. Len(d)
        <4> HIDE DEF Bad
        <4> QED
          BY <1>1, <2>2, <2>3
      <3> QED
        BY <3>1
    <2>5. PICK l \in 1 .. Len(d) : d[l] = c[m]
      BY <1>3, <2>3
    <2>6. PICK n \in 1 .. Len(c) : c[n] = d[m]
      BY <1>3, <2>3
    <2> HIDE DEF Bad
    <2>7. l > m
      <3>1. ASSUME l < m PROVE FALSE
        <4>1. l \in 1 .. Len(c)
          BY <1>1, <2>3, <2>5, <3>1
        <4>2. c[l] = d[l] /\ c[l] < c[m]
          BY <1>2, <2>3, <2>4, <3>1, <4>1
        <4> QED
          BY <1>1, <2>3, <2>5, <4>2, SMTT(30)
      <3> QED
        BY <2>3, <2>5, <3>1
    <2>8. n > m
      <3>1. ASSUME n < m PROVE FALSE
        <4>1. n \in 1 .. Len(d) /\ c[n] = d[n]
          BY <2>4, <2>6, <3>1
        <4>2. d[n] < d[m]
          BY <1>2, <2>3, <3>1, <4>1
        <4> QED
          BY <1>1, <2>3, <2>6, <4>1, <4>2
      <3> QED
        BY <2>3, <2>6, <3>1
    <2>9. d[m] < c[m]
      BY <1>2, <2>3, <2>5, <2>7
    <2>10. c[m] < d[m]
      BY <1>2, <2>3, <2>6, <2>8
    <2> QED
      BY <1>1, <2>3, <2>9, <2>10, SMTT(30)
  <1>5. \A k \in 1 .. Len(c) : k \in 1 .. Len(d) => c[k] = d[k]
    BY <1>4
  <1> HIDE DEF Bad
  <1>6. ~(Len(c) < Len(d))
    <2> SUFFICES ASSUME Len(c) < Len(d) PROVE FALSE
      OBVIOUS
    <2>1. Len(c) + 1 \in 1 .. Len(d)
      BY <1>1
    <2>2. PICK l \in 1 .. Len(c) : c[l] = d[Len(c) + 1]
      BY <1>3, <2>1
    <2>3. l \in 1 .. Len(d) /\ d[l] = c[l] /\ l < Len(c) + 1
      BY <1>1, <1>5, <2>2, SMTT(30)
    <2>4. d[l] < d[Len(c) + 1]
      BY <1>2, <2>1, <2>3
    <2> QED
      BY <1>1, <2>1, <2>2, <2>3, <2>4
  <1>7. ~(Len(d) < Len(c))
    <2> SUFFICES ASSUME Len(d) < Len(c) PROVE FALSE
      OBVIOUS
    <2>1. Len(d) + 1 \in 1 .. Len(c)
      BY <1>1
    <2>2. PICK l \in 1 .. Len(d) : d[l] = c[Len(d) + 1]
      BY <1>3, <2>1
    <2>3. l \in 1 .. Len(c) /\ d[l] = c[l] /\ l < Len(d) + 1
      BY <1>1, <1>5, <2>2
    <2>4. c[l] < c[Len(d) + 1]
      BY <1>2, <2>1, <2>3
    <2> QED
      BY <1>1, <2>1, <2>2, <2>3, <2>4
  <1>8. Len(c) = Len(d) /\ \A k \in 1 .. Len(c) : c[k] = d[k]
    BY <1>1, <1>5, <1>6, <1>7
  <1> QED
    BY <1>1, <1>8, SMTT(30)

(* One more, greater than the others.                                       *)
LEMMA AppendLists ==
    ASSUME NEW A, NEW q \in Seq(Nat), Lists(q, A), NEW x \in Nat, \A y \in A : y < x
    PROVE  Lists(Append(q, x), A \cup {x})
  <1> DEFINE n == Len(q)
             a == Append(q, x)
  <1>1. /\ n \in Nat /\ a \in Seq(Nat) /\ Len(a) = n + 1
        /\ \A i \in 1 .. n : a[i] = q[i]
        /\ a[n + 1] = x
    OBVIOUS
  <1>2. \A i \in 1 .. n : q[i] \in A /\ q[i] < x
    BY DEF Lists
  <1>3. \A i, j \in 1 .. n : i < j => q[i] < q[j]
    BY DEF Lists, Increasing
  <1>4. \A y \in A : \E i \in 1 .. n : q[i] = y
    BY DEF Lists
  <1> HIDE DEF n, a
  <1>5. ASSUME NEW i \in 1 .. n + 1, NEW j \in 1 .. n + 1, i < j PROVE a[i] < a[j]
    <2>1. i \in 1 .. n /\ a[i] = q[i]
      BY <1>1, <1>5
    <2>2. CASE j = n + 1
      BY <1>1, <1>2, <2>1, <2>2
    <2>3. CASE j # n + 1
      <3>1. j \in 1 .. n
        BY <1>1, <2>3
      <3> QED
        BY <1>1, <1>3, <1>5, <2>1, <3>1
    <2> QED
      BY <2>2, <2>3
  <1>6. \A i \in 1 .. n + 1 : a[i] \in A \cup {x}
    BY <1>1, <1>2, SMTT(30)
  <1>7. ASSUME NEW y \in A \cup {x} PROVE \E i \in 1 .. n + 1 : a[i] = y
    <2>1. CASE y = x
      BY <1>1, <2>1
    <2>2. CASE y \in A
      <3>1. PICK i \in 1 .. n : q[i] = y
        BY <1>4, <2>2
      <3> QED
        BY <1>1, <3>1
    <2> QED
      BY <2>1, <2>2
  <1> QED
    BY <1>1, <1>5, <1>6, <1>7 DEF Lists, Increasing, a

(* One less, the first.                                                     *)
LEMMA TailLists ==
    ASSUME NEW A, NEW q \in Seq(Nat), Lists(q, A), q # <<>>
    PROVE  Lists(Tail(q), A \ {q[1]})
  <1> DEFINE n == Len(q)
             t == Tail(q)
  <1>1. /\ n \in Nat /\ n > 0 /\ t \in Seq(Nat) /\ Len(t) = n - 1
        /\ \A i \in 1 .. n - 1 : t[i] = q[i + 1]
        /\ \A i \in 1 .. n : q[i] \in Nat
    OBVIOUS
  <1>2. \A i \in 1 .. n : q[i] \in A
    BY DEF Lists
  <1>3. \A i, j \in 1 .. n : i < j => q[i] < q[j]
    BY DEF Lists, Increasing
  <1>4. \A y \in A : \E i \in 1 .. n : q[i] = y
    BY DEF Lists
  <1> HIDE DEF n, t
  <1>5. \A i \in 1 .. n - 1 : i + 1 \in 1 .. n /\ q[1] < q[i + 1]
    BY <1>1, <1>3
  <1>6. ASSUME NEW i \in 1 .. n - 1, NEW j \in 1 .. n - 1, i < j PROVE t[i] < t[j]
    BY <1>1, <1>3, <1>5, <1>6
  <1>7. ASSUME NEW i \in 1 .. n - 1 PROVE t[i] \in A \ {q[1]}
    <2>1. q[1] \in Nat /\ q[i + 1] \in Nat /\ q[1] < q[i + 1]
      BY <1>1, <1>5
    <2> QED
      BY <1>1, <1>2, <1>5, <2>1, SMTT(30)
  <1>8. ASSUME NEW y \in A \ {q[1]} PROVE \E i \in 1 .. n - 1 : t[i] = y
    <2>1. PICK i \in 1 .. n : q[i] = y
      BY <1>4
    <2>2. i - 1 \in 1 .. n - 1 /\ (i - 1) + 1 = i
      BY <1>1, <2>1
    <2> QED
      BY <1>1, <2>1, <2>2
  <1> QED
    BY <1>1, <1>6, <1>7, <1>8 DEF Lists, Increasing, t

(* Picked keeps the order of what it picks.                                 *)
LEMMA PickedLists ==
    ASSUME NEW s \in Seq(Nat), NEW S,
           \A i, j \in 1 .. Len(s) : i < j /\ s[i] \in S /\ s[j] \in S => s[i] < s[j]
    PROVE  Lists(Picked(s, S), {x \in S : \E k \in 1 .. Len(s) : s[k] = x})
  <1>1. PICK p : Picks(p, s, S, Nat) /\ Picked(s, S) = p[Len(s)]
    BY PickedIs
  <1>2. /\ \A i \in 0 .. Len(s) : p[i] \in Seq(Nat)
        /\ p[0] = <<>>
        /\ \A i \in 1 .. Len(s) : p[i] = IF s[i] \in S THEN Append(p[i - 1], s[i]) ELSE p[i - 1]
    BY <1>1 DEF Picks
  <1> DEFINE Set(i) == {x \in S : \E k \in 1 .. i : s[k] = x}
             Bad == {i \in 0 .. Len(s) : ~Lists(p[i], Set(i))}
  <1>3. Len(s) \in Nat /\ \A k \in 1 .. Len(s) : s[k] \in Nat
    OBVIOUS
  <1>4. 0 \notin Bad
    <2>1. Lists(<<>>, Set(0))
      BY DEF Lists, Increasing
    <2> HIDE DEF Set
    <2> QED
      BY <1>2, <2>1
  <1>5. ASSUME NEW k \in 1 .. Len(s), k - 1 \notin Bad PROVE k \notin Bad
    <2>1. k - 1 \in 0 .. Len(s) /\ k \in 0 .. Len(s)
      BY <1>3
    <2>2. Lists(p[k - 1], Set(k - 1))
      <3> HIDE DEF Set
      <3> QED
        BY <1>5, <2>1
    <2>3. CASE s[k] \notin S
      <3>1. p[k] = p[k - 1]
        BY <1>2, <2>3
      <3>2. Set(k) = Set(k - 1)
        BY <1>3, <2>3
      <3> HIDE DEF Set
      <3> QED
        BY <2>2, <3>1, <3>2
    <2>4. CASE s[k] \in S
      <3> DEFINE q == p[k - 1]
                 x == s[k]
      <3>1. p[k] = Append(q, x) /\ q \in Seq(Nat) /\ x \in Nat
        BY <1>2, <1>3, <2>1, <2>4
      <3>2. Set(k) = Set(k - 1) \cup {x}
        BY <1>3, <2>4
      <3>3. \A y \in Set(k - 1) : y < x
        BY <1>3, <2>4
      <3> HIDE DEF Set, q, x
      <3>4. Lists(q, Set(k - 1))
        BY <2>2 DEF q
      <3>5. Lists(Append(q, x), Set(k - 1) \cup {x})
        BY <3>1, <3>3, <3>4, AppendLists
      <3> QED
        BY <3>1, <3>2, <3>5
    <2> QED
      BY <2>3, <2>4
  <1>6. Bad = {}
    <2>1. Bad \in SUBSET (0 .. Len(s))
      OBVIOUS
    <2> HIDE DEF Bad
    <2> QED
      BY <1>3, <1>4, <1>5, <2>1, NoneBad
  <1>7. Lists(p[Len(s)], Set(Len(s)))
    <2>1. Len(s) \in 0 .. Len(s)
      BY <1>3
    <2> HIDE DEF Set
    <2> QED
      BY <1>6, <2>1
  <1> QED
    BY <1>1, <1>7

(* Everybody signed on: the answer names every nick of the request.         *)
LEMMA PickedAll ==
    ASSUME NEW V, NEW s \in Seq(V)
    PROVE  Picked(s, V) = s
  <1>1. PICK p : Picks(p, s, V, V) /\ Picked(s, V) = p[Len(s)]
    BY PickedIs
  <1>2. Len(s) \in Nat /\ \A k \in 1 .. Len(s) : s[k] \in V
    OBVIOUS
  <1>3. /\ \A i \in 0 .. Len(s) : p[i] \in Seq(V)
        /\ p[0] = <<>>
        /\ \A i \in 1 .. Len(s) : p[i] = Append(p[i - 1], s[i])
    BY <1>1, <1>2 DEF Picks
  <1> DEFINE Bad == {i \in 0 .. Len(s) : ~(Len(p[i]) = i /\ \A k \in 1 .. i : p[i][k] = s[k])}
  <1>4. 0 \notin Bad
    BY <1>3
  <1>5. ASSUME NEW i \in 1 .. Len(s), i - 1 \notin Bad PROVE i \notin Bad
    <2>1. i - 1 \in 0 .. Len(s)
      BY <1>2
    <2> DEFINE q == p[i - 1]
    <2>2. q \in Seq(V) /\ Len(q) = i - 1 /\ \A k \in 1 .. i - 1 : q[k] = s[k]
      BY <1>3, <1>5, <2>1
    <2>3. p[i] = Append(q, s[i])
      BY <1>3
    <2> HIDE DEF q
    <2>4. Len(p[i]) = i /\ \A k \in 1 .. i : p[i][k] = s[k]
      BY <1>2, <2>2, <2>3
    <2> QED
      BY <2>4
  <1>6. Bad = {}
    <2>1. Bad \in SUBSET (0 .. Len(s))
      OBVIOUS
    <2> HIDE DEF Bad
    <2> QED
      BY <1>2, <1>4, <1>5, <2>1, NoneBad
  <1>7. Len(s) \in 0 .. Len(s)
    BY <1>2
  <1>8. Len(p[Len(s)]) = Len(s) /\ \A k \in 1 .. Len(s) : p[Len(s)][k] = s[k]
    BY <1>6, <1>7
  <1> DEFINE q == p[Len(s)]
  <1>9. q \in Seq(V) /\ Len(q) = Len(s) /\ \A k \in 1 .. Len(s) : q[k] = s[k]
    BY <1>3, <1>7, <1>8
  <1>10. Picked(s, V) = q
    BY <1>1
  <1> HIDE DEF q
  <1> QED
    BY <1>9, <1>10

----------------------------------------------------------------------------
(* The invariant.                                                           *)

(* Each entry points to the one that was added after it: none is lost.      *)
Compact == /\ Live # {} => head # Null /\ tail # Null
           /\ \A id \in Live : head =< id
           /\ \A id, j \in Live : id < j => heap[id].next # Null /\ heap[id].next =< j

Final == {302, 303, 318}

(* A numeric answers the request of an entry.                               *)
Answers(m) ==
    /\ m.id \in Live
    /\ \/ heap[m.id].type = "ISON" /\ m.num = 303
       \/ heap[m.id].type = "USERHOST" /\ m.num = 302 /\ m.nick = heap[m.id].nick
       \/ heap[m.id].type = "WHOIS" /\ m.num \in {311, 318} /\ m.nick = heap[m.id].nick

Asked(r) == /\ r.id \in Live
            /\ r.type = heap[r.id].type /\ r.nick = heap[r.id].nick

Matched == /\ \A id \in Live : heap[id].type = "WHOIS" => Len(heap[id].nick) = 1
           /\ \A k \in 1 .. Len(wire) : Asked(wire[k])
           /\ \A k \in 1 .. Len(inbox) : Answers(inbox[k])

(* What is under way is in the order of the requests; a 311 comes before    *)
(* its 318, and when it was read whois_stuff is about its nick.             *)
Ordered ==
    /\ \A i, j \in 1 .. Len(wire) : i < j => wire[i].id < wire[j].id
    /\ \A i \in 1 .. Len(inbox), j \in 1 .. Len(wire) : inbox[i].id < wire[j].id
    /\ \A i, j \in 1 .. Len(inbox) : i < j =>
          \/ inbox[i].id < inbox[j].id
          \/ inbox[i].id = inbox[j].id /\ inbox[i].num = 311 /\ inbox[j].num = 318
    /\ \A j \in 2 .. Len(inbox) : inbox[j].num = 318 =>
          inbox[j - 1].num = 311 /\ inbox[j - 1].id = inbox[j].id
    /\ inbox # <<>> /\ inbox[1].num = 318 => stuff = inbox[1].nick[1]

(* Every entry waits for something that is under way.                       *)
Expected == \A id \in Live :
    \/ \E k \in 1 .. Len(inbox) : inbox[k].id = id /\ inbox[k].num \in Final
    \/ \E k \in 1 .. Len(wire) : wire[k].id = id

Honest == \A t \in told : t.cause = t.entry /\ t.on

LInv == QInv /\ Compact /\ Matched /\ Ordered /\ Expected /\ Honest

(* The list of a compact queue goes through all its entries.                *)
LEMMA ChainLists ==
    ASSUME Listed, Compact
    PROVE  Lists(Chain, Live)
  <1>1. /\ Length \in Nat /\ (Length = 0 <=> head = Null)
        /\ Chain \in [1 .. Length -> Live]
        /\ Length > 0 => Chain[1] = head /\ heap[Chain[Length]].next = Null
        /\ \A k \in 1 .. Length - 1 : Chain[k + 1] = heap[Chain[k]].next
        /\ \A i, j \in 1 .. Length : i < j => Chain[i] < Chain[j]
    BY ChainIs
  <1> HIDE DEF Chain
  <1>2. /\ \A id \in Live : id \in Nat /\ id # Null
        /\ head \in Live \cup {Null}
    BY DEF Listed, Pointed, Pointers, Null
  <1>3. Chain \in Seq(Nat) /\ Len(Chain) = Length /\ Increasing(Chain)
    <2>1. Chain \in [1 .. Length -> Nat]
      BY <1>1, <1>2
    <2> QED
      BY <1>1, <2>1 DEF Increasing
  <1>4. ASSUME NEW id \in Live, \A k \in 1 .. Length : Chain[k] # id
        PROVE  FALSE
    <2>1. head # Null /\ Length > 0
      BY <1>1 DEF Compact
    <2> DEFINE Bad == {k \in 0 .. Length - 1 : ~(Chain[k + 1] < id)}
    <2>2. 0 \notin Bad
      <3>1. Chain[1] = head /\ 1 \in 1 .. Length
        BY <1>1, <2>1
      <3>2. Chain[1] # id /\ head =< id /\ head \in Nat /\ id \in Nat
        BY <1>2, <1>4, <2>1, <3>1 DEF Compact
      <3> QED
        BY <3>1, <3>2
    <2>3. ASSUME NEW k \in 1 .. Length - 1, k - 1 \notin Bad PROVE k \notin Bad
      <3>1. k \in 1 .. Length /\ k + 1 \in 1 .. Length /\ (k - 1) + 1 = k /\ k - 1 \in 0 .. Length - 1
        BY <1>1
      <3>2. Chain[k] < id /\ Chain[k] \in Live
        BY <1>1, <2>3, <3>1
      <3>3. Chain[k + 1] = heap[Chain[k]].next /\ Chain[k + 1] =< id
        BY <1>1, <3>2 DEF Compact
      <3>4. Chain[k + 1] # id /\ Chain[k + 1] \in Nat
        BY <1>1, <1>2, <1>4, <3>1
      <3> QED
        BY <1>2, <3>3, <3>4
    <2>4. Bad = {}
      <3>1. Length - 1 \in Nat /\ Bad \in SUBSET (0 .. Length - 1)
        BY <1>1, <2>1
      <3> HIDE DEF Bad
      <3> QED
        BY <2>2, <2>3, <3>1, NoneBad
    <2>5. Length - 1 \in 0 .. Length - 1 /\ (Length - 1) + 1 = Length /\ Length \in 1 .. Length
      BY <1>1, <2>1
    <2>6. Chain[Length] < id
      BY <2>4, <2>5
    <2> QED
      BY <1>1, <2>1, <2>5, <2>6 DEF Compact
  <1> QED
    BY <1>1, <1>3, <1>4 DEF Lists

(* The numeric at the front of the inbox answers the entry at the head.     *)
LEMMA FrontIsHeads ==
    ASSUME LInv, inbox # <<>>
    PROVE  /\ inbox[1].id = head /\ head \in Live /\ Answers(inbox[1])
           /\ M = inbox[1]
           /\ \A j \in 2 .. Len(inbox) : inbox[1].num \in Final => inbox[j].id > head
           /\ \A j \in 1 .. Len(wire) : wire[j].id > head
  <1>1. /\ inbox \in Seq(Message) /\ Len(inbox) \in Nat /\ Len(inbox) > 0
        /\ 1 \in 1 .. Len(inbox)
    BY DEF LInv, QInv, Mailed
  <1>2. Answers(inbox[1]) /\ inbox[1].id \in Live
    BY <1>1 DEF LInv, Matched, Answers
  <1>3. /\ \A id \in Live : id \in Nat /\ id # Null
        /\ head \in Live \cup {Null}
    BY DEF LInv, QInv, Listed, Pointed, Pointers, Null
  <1>4. head \in Live /\ head =< inbox[1].id
    BY <1>2, <1>3 DEF LInv, Compact
  <1>5. \A j \in 2 .. Len(inbox) : inbox[j].id \in Nat /\ inbox[1].id =< inbox[j].id
    <2> SUFFICES ASSUME NEW j \in 2 .. Len(inbox)
                 PROVE  inbox[j].id \in Nat /\ inbox[1].id =< inbox[j].id
      OBVIOUS
    <2>1. j \in 1 .. Len(inbox) /\ 1 < j
      BY <1>1
    <2>2. inbox[j].id \in Nat
      BY <1>3, <2>1 DEF LInv, Matched, Answers
    <2> QED
      BY <1>1, <1>2, <1>3, <2>1, <2>2 DEF LInv, Ordered
  <1>6. \A j \in 1 .. Len(wire) : inbox[1].id < wire[j].id
    BY <1>1 DEF LInv, Ordered
  <1>7. inbox[1].id = head
    <2>1. CASE \E k \in 1 .. Len(inbox) : inbox[k].id = head
      <3>1. PICK k \in 1 .. Len(inbox) : inbox[k].id = head
        BY <2>1
      <3>2. k = 1 \/ k \in 2 .. Len(inbox)
        BY <1>1
      <3> QED
        BY <1>2, <1>3, <1>4, <1>5, <3>1, <3>2
    <2>2. CASE \E k \in 1 .. Len(wire) : wire[k].id = head
      <3>1. inbox[1].id < head
        BY <1>6, <2>2
      <3> QED
        BY <1>2, <1>3, <1>4, <3>1
    <2> QED
      BY <1>4, <2>1, <2>2 DEF LInv, Expected
  <1>8. ASSUME NEW j \in 2 .. Len(inbox), inbox[1].num \in Final PROVE inbox[j].id > head
    <2>1. j \in 1 .. Len(inbox) /\ 1 < j
      BY <1>1
    <2>2. inbox[1].num # 311
      BY <1>8 DEF Final
    <2> QED
      BY <1>1, <1>7, <2>1, <2>2 DEF LInv, Ordered
  <1> QED
    BY <1>1, <1>2, <1>4, <1>6, <1>7, <1>8 DEF M

(* Answering the head.                                                      *)
LEMMA PopLockstep ==
    ASSUME LInv, inbox # <<>>, inbox[1].num \in Final, Pop,
           inbox' = Tail(inbox), wire' = wire
    PROVE  Compact' /\ Matched' /\ Ordered' /\ Expected'
  <1>1. /\ inbox \in Seq(Message) /\ Len(inbox) \in Nat /\ Len(inbox) > 0
        /\ Len(inbox') = Len(inbox) - 1
        /\ \A k \in 1 .. Len(inbox') : inbox'[k] = inbox[k + 1] /\ k + 1 \in 2 .. Len(inbox)
                                      /\ k + 1 \in 1 .. Len(inbox)
    BY DEF LInv, QInv, Mailed
  <1>2. /\ inbox[1].id = head /\ head \in Live
        /\ \A j \in 2 .. Len(inbox) : inbox[j].id > head
        /\ \A j \in 1 .. Len(wire) : wire[j].id > head
    BY FrontIsHeads
  <1>3. /\ Live' = Live \ {head}
        /\ \A id \in Live \ {head} : heap'[id] = heap[id]
        /\ head' = heap[head].next /\ tail' = IF heap[head].next = Null THEN Null ELSE tail
    BY DEF Pop, Live
  <1>4. /\ \A id \in Live : id \in Nat /\ id # Null
        /\ head # Null
    BY <1>2 DEF LInv, QInv, Listed, Pointed, Null
  <1>5. Compact'
    <2>1. /\ \A id, j \in Live : id < j => heap[id].next # Null /\ heap[id].next =< j
          /\ tail # Null /\ \A id \in Live : head =< id
      BY <1>2 DEF LInv, Compact
    <2>2. \A id \in Live' : head < id
      BY <1>2, <1>3, <1>4, <2>1
    <2>3. \A id \in Live' : head' # Null /\ head' =< id
      BY <1>2, <1>3, <2>1, <2>2
    <2>4. Live' # {} => head' # Null /\ tail' # Null
      BY <1>3, <2>1, <2>3
    <2>5. \A id, j \in Live' : id < j => heap'[id].next # Null /\ heap'[id].next =< j
      BY <1>3, <2>1
    <2> QED
      BY <2>3, <2>4, <2>5 DEF Compact
  <1>6. Matched'
    <2>1. \A id \in Live' : heap'[id].type = "WHOIS" => Len(heap'[id].nick) = 1
      BY <1>3 DEF LInv, Matched
    <2>2. ASSUME NEW k \in 1 .. Len(wire') PROVE Asked(wire[k])'
      <3>1. Asked(wire[k]) /\ wire[k].id # head /\ wire'[k] = wire[k]
        BY <1>2, <1>4, <2>2 DEF LInv, Matched, Asked
      <3> QED
        BY <1>3, <3>1 DEF Asked
    <2>3. ASSUME NEW k \in 1 .. Len(inbox') PROVE Answers(inbox[k])'
      <3>1. Answers(inbox[k + 1]) /\ inbox[k + 1].id # head /\ inbox'[k] = inbox[k + 1]
        BY <1>1, <1>2, <1>4, <2>3 DEF LInv, Matched, Answers
      <3> QED
        BY <1>3, <3>1 DEF Answers
    <2> QED
      BY <2>1, <2>2, <2>3 DEF Matched
  <1>7. Ordered'
    <2>1. \A i, j \in 1 .. Len(wire') : i < j => wire'[i].id < wire'[j].id
      BY DEF LInv, Ordered
    <2>2. \A i \in 1 .. Len(inbox'), j \in 1 .. Len(wire') : inbox'[i].id < wire'[j].id
      BY <1>1 DEF LInv, Ordered
    <2>3. ASSUME NEW i \in 1 .. Len(inbox'), NEW j \in 1 .. Len(inbox'), i < j
          PROVE  \/ inbox'[i].id < inbox'[j].id
                 \/ inbox'[i].id = inbox'[j].id /\ inbox'[i].num = 311 /\ inbox'[j].num = 318
      <3>1. i + 1 < j + 1
        BY <1>1, <2>3
      <3> QED
        BY <1>1, <3>1 DEF LInv, Ordered
    <2>4. ASSUME NEW j \in 2 .. Len(inbox'), inbox'[j].num = 318
          PROVE  inbox'[j - 1].num = 311 /\ inbox'[j - 1].id = inbox'[j].id
      <3>1. j \in 1 .. Len(inbox') /\ j - 1 \in 1 .. Len(inbox') /\ (j - 1) + 1 = j /\ (j + 1) - 1 = j
        BY <1>1
      <3>2. inbox'[j] = inbox[j + 1] /\ inbox'[j - 1] = inbox[j] /\ j + 1 \in 2 .. Len(inbox)
        BY <1>1, <3>1
      <3> QED
        BY <2>4, <3>1, <3>2 DEF LInv, Ordered
    <2>5. inbox' # <<>> => inbox'[1].num # 318
      <3> SUFFICES ASSUME inbox' # <<>>, inbox'[1].num = 318 PROVE FALSE
        OBVIOUS
      <3>1. 1 \in 1 .. Len(inbox') /\ 2 - 1 = 1
        BY <1>1
      <3>2. inbox'[1] = inbox[2] /\ 2 \in 2 .. Len(inbox)
        BY <1>1, <3>1
      <3>3. inbox[1].num = 311
        BY <3>1, <3>2 DEF LInv, Ordered
      <3> QED
        BY <3>3 DEF Final
    <2> QED
      BY <2>1, <2>2, <2>3, <2>4, <2>5 DEF Ordered
  <1>8. Expected'
    <2> SUFFICES ASSUME NEW id \in Live'
                 PROVE  \/ \E k \in 1 .. Len(inbox') : inbox'[k].id = id /\ inbox'[k].num \in Final
                        \/ \E k \in 1 .. Len(wire') : wire'[k].id = id
      BY DEF Expected
    <2>1. id \in Live /\ id # head
      BY <1>3
    <2>2. CASE \E k \in 1 .. Len(inbox) : inbox[k].id = id /\ inbox[k].num \in Final
      <3>1. PICK k \in 1 .. Len(inbox) : inbox[k].id = id /\ inbox[k].num \in Final
        BY <2>2
      <3>2. k - 1 \in 1 .. Len(inbox') /\ (k - 1) + 1 = k
        BY <1>1, <1>2, <2>1, <3>1
      <3> QED
        BY <1>1, <3>1, <3>2
    <2> QED
      BY <2>1, <2>2 DEF LInv, Expected
  <1> QED
    BY <1>5, <1>6, <1>7, <1>8

(* What an answer to the head does: its function is called, with that       *)
(* answer, and the entry is taken.                                          *)
Answering(C) == /\ Pop /\ told' = told \cup C /\ C # {}
                /\ \A t \in C : t.entry = head /\ t.cause = head /\ t.on
                /\ inbox # <<>> /\ inbox[1].num \in Final
                /\ inbox' = Tail(inbox) /\ wire' = wire /\ asked' = asked

(* A USERHOST answered for all its nicks.                                   *)
LEMMA UsedAll ==
    ASSUME NEW nicks \in Seq(Nicks), nicks # <<>>
    PROVE  /\ Rest(nicks, nicks) = <<>>
           /\ Reported(nicks, nicks) =
                  {Call(head, M.id, <<nicks[i]>>, TRUE) : i \in 1 .. Len(nicks)}
           /\ Reported(nicks, nicks) # {}
           /\ \A t \in Reported(nicks, nicks) : t.entry = head /\ t.cause = M.id /\ t.on
  <1> DEFINE used == Used(nicks, nicks)
             n == Len(nicks)
             Bad == {i \in 0 .. n : used[i] # i}
  <1>1. n \in Nat /\ n > 0
    OBVIOUS
  <1>2. /\ used[0] = 0
        /\ \A i \in 1 .. n :
              used[i] = IF used[i - 1] < n /\ nicks[used[i - 1] + 1] = nicks[i]
                        THEN used[i - 1] + 1 ELSE used[i - 1]
    BY UsedIs
  <1> HIDE DEF used, n
  <1>3. ASSUME NEW i \in 1 .. n, i - 1 \notin Bad PROVE i \notin Bad
    <2>1. i - 1 \in 0 .. n /\ used[i - 1] = i - 1 /\ i - 1 < n /\ (i - 1) + 1 = i
      BY <1>1, <1>3
    <2>2. used[i] = i
      BY <1>2, <2>1
    <2> QED
      BY <2>2
  <1>4. Bad = {}
    <2>1. 0 \notin Bad /\ Bad \in SUBSET (0 .. n)
      BY <1>2
    <2> HIDE DEF Bad
    <2> QED
      BY <1>1, <1>3, <2>1, NoneBad
  <1>5. \A i \in 0 .. n : used[i] = i
    BY <1>4
  <1>6. {i \in 1 .. n : used[i - 1] < n} = 1 .. n
    BY <1>1, <1>5
  <1>7. Reached(nicks, nicks) = n
    <2>1. Cardinality(1 .. n) = n
      BY <1>1, FS_Interval
    <2> QED
      BY <1>6, <2>1 DEF Reached, used, n
  <1>8. Rest(nicks, nicks) = <<>>
    BY <1>1, <1>7 DEF Rest, n
  <1>9. Reported(nicks, nicks) =
            {Call(head, M.id, <<nicks[i]>>, used[i] > used[i - 1]) : i \in 1 .. n}
            \cup {Call(head, M.id, <<nicks[j]>>, TRUE) : j \in used[n] + 1 .. n}
    BY <1>7 DEF Reported, used, n
  <1>10. used[n] + 1 .. n = {}
    BY <1>1, <1>5
  <1>11. \A i \in 1 .. n : (used[i] > used[i - 1]) = TRUE
    BY <1>1, <1>5
  <1>12. Reported(nicks, nicks) = {Call(head, M.id, <<nicks[i]>>, TRUE) : i \in 1 .. n}
    BY <1>9, <1>10, <1>11
  <1>13. Call(head, M.id, <<nicks[1]>>, TRUE) \in Reported(nicks, nicks)
    <2>1. 1 \in 1 .. n
      BY <1>1
    <2> QED
      BY <1>12, <2>1
  <1>14. ASSUME NEW t \in Reported(nicks, nicks)
         PROVE  t.entry = head /\ t.cause = M.id /\ t.on
    <2>1. PICK i \in 1 .. n : t = Call(head, M.id, <<nicks[i]>>, TRUE)
      BY <1>12
    <2> QED
      BY <2>1 DEF Call
  <1> QED
    BY <1>8, <1>12, <1>13, <1>14 DEF n

(* A final numeric is for the head and answers it.                          *)
LEMMA FinalAnswers ==
    ASSUME LInv, IsonReturned \/ UserhostReturned \/ EndOfWhois
    PROVE  \E C : Answering(C)
  <1>1. inbox # <<>> /\ inbox' = Tail(inbox) /\ wire' = wire /\ asked' = asked
    BY DEF IsonReturned, UserhostReturned, EndOfWhois, Reads
  <1>2. inbox[1].id = head /\ head \in Live /\ Answers(inbox[1]) /\ M = inbox[1]
    BY <1>1, FrontIsHeads
  <1>3. heap[head].nick \in Seq(Nicks) /\ heap[head].nick # <<>>
    BY <1>2 DEF LInv, QInv, Filled, Entry
  <1>4. CASE IsonReturned
    <2>1. M.num = 303
      BY <1>4 DEF IsonReturned, Reads, M
    <2>2. HeadIs("ISON")
      BY <1>2, <2>1 DEF Answers, HeadIs
    <2> DEFINE C == {Call(head, M.id, heap[head].nick, TRUE)}
    <2>3. Pop /\ told' = told \cup C
      BY <1>4, <2>2 DEF IsonReturned
    <2>4. Answering(C)
      BY <1>1, <1>2, <2>1, <2>3 DEF Answering, Call, Final
    <2> QED
      BY <2>4
  <1>5. CASE UserhostReturned
    <2>1. M.num = 302
      BY <1>5 DEF UserhostReturned, Reads, M
    <2>2. HeadIs("USERHOST") /\ M.nick = heap[head].nick
      BY <1>2, <2>1 DEF Answers, HeadIs
    <2> DEFINE nicks == heap[head].nick
               C == Reported(nicks, nicks)
    <2>3. told' = told \cup C /\ IF Rest(nicks, nicks) = <<>> THEN Pop ELSE PushedBack(Rest(nicks, nicks))
      BY <1>3, <1>5, <2>2 DEF UserhostReturned
    <2> HIDE DEF nicks
    <2>4. /\ Rest(nicks, nicks) = <<>> /\ C # {}
          /\ \A t \in C : t.entry = head /\ t.cause = M.id /\ t.on
      BY <1>3, UsedAll DEF nicks
    <2> HIDE DEF C
    <2>5. Answering(C)
      BY <1>1, <1>2, <2>1, <2>3, <2>4 DEF Answering, Final
    <2> QED
      BY <2>5
  <1>6. CASE EndOfWhois
    <2>1. M.num = 318
      BY <1>6 DEF EndOfWhois, Reads, M
    <2>2. HeadIs("WHOIS") /\ M.nick = heap[head].nick /\ Len(heap[head].nick) = 1
      BY <1>2, <2>1 DEF Answers, HeadIs, LInv, Matched
    <2>3. heap[head].nick = <<N>> /\ N = M.nick[1]
      BY <1>3, <2>2 DEF N
    <2>4. stuff = N
      BY <1>1, <1>2, <2>1, <2>3 DEF LInv, Ordered
    <2> DEFINE C == {Call(head, M.id, heap[head].nick, TRUE)}
    <2>5. Pop /\ told' = told \cup C
      <3>1. Pop /\ told' = told \cup {Call(head, M.id, heap[head].nick, stuff = N)}
        BY <1>6, <2>2, <2>3 DEF EndOfWhois
      <3>2. (stuff = N) = TRUE
        BY <2>4
      <3> QED
        BY <3>1, <3>2
    <2>6. Answering(C)
      BY <1>1, <1>2, <2>1, <2>5 DEF Answering, Call, Final
    <2> QED
      BY <2>6
  <1> QED
    BY <1>4, <1>5, <1>6

\* A handler that takes the head off and calls its function keeps the invariant.
LEMMA AnsweringKeeps ==
    ASSUME LInv, QInv', NEW C, Answering(C)
    PROVE  LInv'
  <1>1. Compact' /\ Matched' /\ Ordered' /\ Expected'
    BY PopLockstep DEF Answering
  <1>2. Honest'
    BY DEF Answering, LInv, Honest
  <1> QED
    BY <1>1, <1>2 DEF LInv

(* The 311 of a WHOIS is read, and whois_stuff is about its nick.           *)
LEMMA NameKeeps ==
    ASSUME LInv, QInv', WhoisName
    PROVE  LInv'
  <1>1. /\ inbox # <<>> /\ inbox' = Tail(inbox) /\ wire' = wire /\ asked' = asked
        /\ M.num = 311 /\ UNCHANGED <<heap, head, tail, told>>
        /\ stuff' = IF HeadIs("WHOIS") /\ heap[head].nick = <<N>> THEN N ELSE stuff
    BY DEF WhoisName, Reads, M
  <1>2. inbox[1].id = head /\ head \in Live /\ Answers(inbox[1]) /\ M = inbox[1]
    BY <1>1, FrontIsHeads
  <1>3. heap[head].nick \in Seq(Nicks) /\ heap[head].nick # <<>>
    BY <1>2 DEF LInv, QInv, Filled, Entry
  <1>4. HeadIs("WHOIS") /\ M.nick = heap[head].nick /\ Len(heap[head].nick) = 1
    BY <1>1, <1>2 DEF Answers, HeadIs, LInv, Matched
  <1>5. heap[head].nick = <<N>> /\ stuff' = heap[head].nick[1]
    BY <1>1, <1>3, <1>4 DEF N
  <1>6. /\ Len(inbox) \in Nat /\ Len(inbox) > 0 /\ Len(inbox') = Len(inbox) - 1
        /\ \A k \in 1 .. Len(inbox') : inbox'[k] = inbox[k + 1] /\ k + 1 \in 2 .. Len(inbox)
                                      /\ k + 1 \in 1 .. Len(inbox)
    BY <1>1 DEF LInv, QInv, Mailed
  <1>7. Live' = Live /\ \A m : Answers(m) => (m.id \in Live /\ heap'[m.id] = heap[m.id])
    BY <1>1 DEF Live, Answers
  <1>8. Compact'
    BY <1>1, <1>7 DEF LInv, Compact
  <1>9. Matched'
    <2>1. ASSUME NEW k \in 1 .. Len(inbox') PROVE Answers(inbox[k])'
      <3>1. Answers(inbox[k + 1]) /\ inbox'[k] = inbox[k + 1]
        BY <1>6 DEF LInv, Matched
      <3> QED
        BY <1>1, <1>7, <3>1 DEF Answers
    <2>2. ASSUME NEW k \in 1 .. Len(wire') PROVE Asked(wire[k])'
      BY <1>1, <1>7, <2>2 DEF LInv, Matched, Asked
    <2> QED
      BY <1>1, <1>7, <2>1, <2>2 DEF LInv, Matched
  <1>10. Ordered'
    <2>1. \A i, j \in 1 .. Len(wire') : i < j => wire'[i].id < wire'[j].id
      BY <1>1 DEF LInv, Ordered
    <2>2. \A i \in 1 .. Len(inbox'), j \in 1 .. Len(wire') : inbox'[i].id < wire'[j].id
      BY <1>1, <1>6 DEF LInv, Ordered
    <2>3. ASSUME NEW i \in 1 .. Len(inbox'), NEW j \in 1 .. Len(inbox'), i < j
          PROVE  \/ inbox'[i].id < inbox'[j].id
                 \/ inbox'[i].id = inbox'[j].id /\ inbox'[i].num = 311 /\ inbox'[j].num = 318
      <3>1. i + 1 < j + 1
        BY <1>6, <2>3
      <3> QED
        BY <1>6, <3>1, SMTT(30) DEF LInv, Ordered
    <2>4. ASSUME NEW j \in 2 .. Len(inbox'), inbox'[j].num = 318
          PROVE  inbox'[j - 1].num = 311 /\ inbox'[j - 1].id = inbox'[j].id
      <3>1. j \in 1 .. Len(inbox') /\ j - 1 \in 1 .. Len(inbox') /\ (j - 1) + 1 = j /\ (j + 1) - 1 = j
        BY <1>6
      <3>2. inbox'[j] = inbox[j + 1] /\ inbox'[j - 1] = inbox[j] /\ j + 1 \in 2 .. Len(inbox)
        BY <1>6, <3>1
      <3> QED
        BY <2>4, <3>1, <3>2 DEF LInv, Ordered
    <2>5. ASSUME inbox' # <<>>, inbox'[1].num = 318 PROVE stuff' = inbox'[1].nick[1]
      <3>1. 1 \in 1 .. Len(inbox') /\ 2 - 1 = 1
        BY <1>1, <1>6, <2>5 DEF LInv, QInv, Mailed
      <3>2. inbox'[1] = inbox[2] /\ 2 \in 2 .. Len(inbox) /\ 2 \in 1 .. Len(inbox)
        BY <1>6, <3>1
      <3>3. inbox[2].id = head
        BY <1>2, <2>5, <3>1, <3>2 DEF LInv, Ordered
      <3>4. Answers(inbox[2])
        BY <3>2 DEF LInv, Matched
      <3>5. inbox[2].nick = heap[head].nick
        BY <2>5, <3>2, <3>3, <3>4 DEF Answers
      <3> QED
        BY <1>5, <3>2, <3>5
    <2> QED
      BY <2>1, <2>2, <2>3, <2>4, <2>5 DEF Ordered
  <1>11. Expected'
    <2> SUFFICES ASSUME NEW id \in Live
                 PROVE  \/ \E k \in 1 .. Len(inbox') : inbox'[k].id = id /\ inbox'[k].num \in Final
                        \/ \E k \in 1 .. Len(wire') : wire'[k].id = id
      BY <1>7 DEF Expected
    <2>1. CASE \E k \in 1 .. Len(inbox) : inbox[k].id = id /\ inbox[k].num \in Final
      <3>1. PICK k \in 1 .. Len(inbox) : inbox[k].id = id /\ inbox[k].num \in Final
        BY <2>1
      <3>2. k # 1
        BY <1>1, <1>2, <3>1 DEF Final
      <3>3. k - 1 \in 1 .. Len(inbox') /\ (k - 1) + 1 = k
        BY <1>6, <3>1, <3>2
      <3> QED
        BY <1>6, <3>1, <3>3
    <2>2. CASE \E k \in 1 .. Len(wire) : wire[k].id = id
      BY <1>1, <2>2
    <2> QED
      BY <2>1, <2>2 DEF LInv, Expected
  <1>12. Honest'
    BY <1>1 DEF LInv, Honest
  <1> QED
    BY <1>8, <1>9, <1>10, <1>11, <1>12 DEF LInv

(* A new request goes behind all the others.                                *)
LEMMA AddLockstep ==
    ASSUME LInv, QInv', NEW a \in Asks, TypedAddToWhoisQueue(a)
    PROVE  LInv'
  <1> DEFINE new == asked + 1
             r == [type |-> a.type, nick |-> a.nick, isuser |-> a.isuser, next |-> Null]
             n == Len(wire)
  <1>1. /\ wire' = Append(wire, [type |-> a.type, nick |-> a.nick, id |-> new])
        /\ stuff' = stuff /\ inbox' = inbox /\ told' = told
        /\ Linked(new, a)
    BY DEF TypedAddToWhoisQueue
  <1>2. /\ \A id \in Live : id \in Nat /\ id # Null /\ id < new /\ heap[id].next \in Live \cup {Null}
        /\ head \in Live \cup {Null} /\ tail \in Live \cup {Null} /\ new \in Nat /\ new # Null
        /\ Null \in Nat
    BY BoundsAssumption DEF LInv, QInv, Listed, Pointed, Pointers, Null
  <1>3. /\ Live' = Live \cup {new}
        /\ \A id \in Live \cup {new} : heap'[id] = IF id = new THEN r
                                        ELSE IF id = tail THEN [heap[id] EXCEPT !.next = new]
                                        ELSE heap[id]
        /\ head' = IF head = Null THEN new ELSE head
        /\ tail' = new
    BY <1>1 DEF Linked, Live
  <1>4. \A id \in Live : heap[id] \in Entry
    BY DEF LInv, QInv, Filled
  <1> HIDE DEF new
  <1>5. /\ heap'[new] = r /\ r.type = a.type /\ r.nick = a.nick /\ r.next = Null
        /\ \A id \in Live : /\ heap'[id].type = heap[id].type /\ heap'[id].nick = heap[id].nick
                            /\ heap'[id].next = IF id = tail THEN new ELSE heap[id].next
    <2>1. heap'[new] = r
      BY <1>3
    <2>2. ASSUME NEW id \in Live
          PROVE  /\ heap'[id].type = heap[id].type /\ heap'[id].nick = heap[id].nick
                 /\ heap'[id].next = IF id = tail THEN new ELSE heap[id].next
      <3>1. id # new
        BY <1>2
      <3>2. heap[id] = [type |-> heap[id].type, nick |-> heap[id].nick,
                        isuser |-> heap[id].isuser, next |-> heap[id].next]
        BY <1>4 DEF Entry
      <3> QED
        BY <1>3, <3>1, <3>2
    <2> QED
      BY <2>1, <2>2
  <1> HIDE DEF r
  <1>6. /\ wire \in Seq(Request) /\ n \in Nat /\ Len(wire') = n + 1
        /\ \A k \in 1 .. n : wire'[k] = wire[k]
        /\ wire'[n + 1].id = new /\ wire'[n + 1].type = a.type /\ wire'[n + 1].nick = a.nick
    BY <1>1 DEF LInv, QInv, Mailed
  <1> HIDE DEF n
  <1>7. /\ \A k \in 1 .. n : wire[k].id \in Live
        /\ \A k \in 1 .. Len(inbox) : inbox[k].id \in Live
    BY DEF LInv, Matched, Asked, Answers, n
  <1>8. Compact'
    <2>1. head' # Null /\ tail' # Null
      BY <1>2, <1>3
    <2>2. ASSUME NEW id \in Live' PROVE head' =< id
      <3>1. CASE id \in Live
        <4>1. head # Null /\ head =< id
          BY <3>1 DEF LInv, Compact
        <4> QED
          BY <1>3, <4>1
      <3>2. CASE id = new
        BY <1>2, <1>3, <3>2
      <3> QED
        BY <1>3, <3>1, <3>2
    <2>3. ASSUME NEW id \in Live', NEW j \in Live', id < j
          PROVE  heap'[id].next # Null /\ heap'[id].next =< j
      <3>1. id \in Live
        BY <1>2, <1>3, <2>3
      <3>2. CASE id = tail
        <4>1. heap'[id].next = new
          BY <1>5, <3>1, <3>2
        <4>2. j = new
          <5>1. j \in Live => heap[tail].next # Null
            BY <2>3, <3>1, <3>2 DEF LInv, Compact
          <5>2. heap[tail].next = Null
            BY <1>2, <3>1, <3>2 DEF LInv, QInv, Listed
          <5> QED
            BY <1>3, <5>1, <5>2
        <4> QED
          BY <1>2, <4>1, <4>2
      <3>3. CASE id # tail
        <4>1. heap'[id].next = heap[id].next
          BY <1>5, <3>1, <3>3
        <4>2. tail \in Live
          BY <1>2, <3>1 DEF LInv, Compact
        <4>3. id < tail
          <5>1. ~(tail < id)
            BY <1>2, <3>1, <4>2 DEF LInv, QInv, Listed, Compact
          <5> QED
            BY <1>2, <3>1, <3>3, <4>2, <5>1
        <4>4. heap[id].next # Null /\ heap[id].next =< tail
          BY <3>1, <4>2, <4>3 DEF LInv, Compact
        <4>5. CASE j = new
          <5>1. heap[id].next \in Nat /\ tail \in Nat /\ tail < new
            BY <1>2, <3>1, <4>2, <4>4
          <5> QED
            BY <1>2, <4>1, <4>4, <4>5, <5>1
        <4>6. CASE j \in Live
          BY <2>3, <3>1, <4>1, <4>6 DEF LInv, Compact
        <4> QED
          BY <1>3, <4>5, <4>6
      <3> QED
        BY <3>2, <3>3
    <2> QED
      BY <2>1, <2>2, <2>3 DEF Compact
  <1>9. Matched'
    <2>1. ASSUME NEW id \in Live', heap'[id].type = "WHOIS" PROVE Len(heap'[id].nick) = 1
      <3>1. CASE id = new
        BY <1>5, <2>1, <3>1, AsksAssumption
      <3>2. CASE id \in Live
        BY <1>5, <2>1, <3>2 DEF LInv, Matched
      <3> QED
        BY <1>3, <3>1, <3>2
    <2>2. ASSUME NEW k \in 1 .. Len(wire') PROVE Asked(wire[k])'
      <3>1. CASE k \in 1 .. n
        <4>1. Asked(wire[k]) /\ wire'[k] = wire[k]
          BY <1>6, <3>1 DEF LInv, Matched, n
        <4> QED
          BY <1>3, <1>5, <4>1 DEF Asked
      <3>2. CASE k = n + 1
        BY <1>3, <1>5, <1>6, <3>2 DEF Asked
      <3> QED
        BY <1>6, <3>1, <3>2
    <2>3. ASSUME NEW k \in 1 .. Len(inbox') PROVE Answers(inbox[k])'
      <3>1. Answers(inbox[k]) /\ inbox'[k] = inbox[k]
        BY <1>1 DEF LInv, Matched
      <3> QED
        BY <1>3, <1>5, <3>1 DEF Answers
    <2> QED
      BY <2>1, <2>2, <2>3 DEF Matched
  <1>10. Ordered'
    <2>1. ASSUME NEW i \in 1 .. Len(wire'), NEW j \in 1 .. Len(wire'), i < j
          PROVE  wire'[i].id < wire'[j].id
      <3>1. i \in 1 .. n
        BY <1>6, <2>1
      <3>2. CASE j = n + 1
        BY <1>2, <1>6, <1>7, <3>1, <3>2
      <3>3. CASE j # n + 1
        <4>1. j \in 1 .. n
          BY <1>6, <3>3
        <4> QED
          BY <1>6, <2>1, <3>1, <4>1 DEF LInv, Ordered, n
      <3> QED
        BY <3>2, <3>3
    <2>2. ASSUME NEW i \in 1 .. Len(inbox'), NEW j \in 1 .. Len(wire')
          PROVE  inbox'[i].id < wire'[j].id
      <3>1. CASE j = n + 1
        BY <1>1, <1>2, <1>6, <1>7, <3>1
      <3>2. CASE j # n + 1
        <4>1. j \in 1 .. n
          BY <1>6, <3>2
        <4> QED
          BY <1>1, <1>6, <4>1 DEF LInv, Ordered, n
      <3> QED
        BY <3>1, <3>2
    <2> QED
      BY <1>1, <2>1, <2>2 DEF LInv, Ordered
  <1>11. Expected'
    <2> SUFFICES ASSUME NEW id \in Live'
                 PROVE  \/ \E k \in 1 .. Len(inbox') : inbox'[k].id = id /\ inbox'[k].num \in Final
                        \/ \E k \in 1 .. Len(wire') : wire'[k].id = id
      BY DEF Expected
    <2>1. CASE id = new
      <3>1. n + 1 \in 1 .. Len(wire')
        BY <1>6
      <3> QED
        BY <1>6, <2>1, <3>1
    <2>2. CASE \E k \in 1 .. n : wire[k].id = id
      BY <1>6, <2>2
    <2>3. CASE \E k \in 1 .. Len(inbox) : inbox[k].id = id /\ inbox[k].num \in Final
      BY <1>1, <2>3
    <2> QED
      BY <1>3, <2>1, <2>2, <2>3 DEF LInv, Expected, n
  <1>12. Honest'
    BY <1>1 DEF LInv, Honest
  <1> QED
    BY <1>8, <1>9, <1>10, <1>11, <1>12 DEF LInv

(* What the server answers with, everybody signed on.                       *)
LEMMA RepliesAre ==
    ASSUME Quiet, LInv, wire # <<>>, NEW on \in Online
    PROVE  LET r == Head(wire)
               new == Replies(r, on)
           IN /\ Asked(r) /\ r = wire[1]
              /\ new \in Seq(Message) /\ \A k \in 1 .. Len(new) : new[k].id = r.id
              /\ \/ Len(new) = 1 /\ new[1].num = 303 /\ r.type = "ISON"
                 \/ Len(new) = 1 /\ new[1].num = 302 /\ r.type = "USERHOST" /\ new[1].nick = r.nick
                 \/ /\ Len(new) = 2 /\ new[1].num = 311 /\ new[2].num = 318
                    /\ r.type = "WHOIS" /\ new[1].nick = r.nick /\ new[2].nick = r.nick
  <1> DEFINE r == Head(wire)
             new == Replies(r, on)
  <1>1. wire \in Seq(Request) /\ r = wire[1] /\ 1 \in 1 .. Len(wire) /\ r \in Request
    BY DEF LInv, QInv, Mailed
  <1>2. Asked(r) /\ r.nick \in Seq(Nicks) /\ r.nick # <<>> /\ r.type \in Types
    BY <1>1 DEF LInv, QInv, Filled, Entry, Matched, Asked
  <1>3. on = Nicks
    BY DEF Quiet
  <1> HIDE DEF r
  <1>4. Picked(r.nick, on) = r.nick
    BY <1>2, <1>3, PickedAll
  <1>5. new \in Seq(Message) /\ \A k \in 1 .. Len(new) : new[k].id = r.id
    BY <1>1, RepliesMail
  <1>6. CASE r.type = "ISON"
    <2>1. new = <<Numeric(303, r.nick, r)>>
      BY <1>4, <1>6 DEF Replies
    <2>2. Len(new) = 1 /\ new[1].num = 303
      BY <2>1 DEF Numeric
    <2> QED
      BY <1>1, <1>2, <1>5, <1>6, <2>2 DEF r
  <1>7. CASE r.type = "USERHOST"
    <2>1. new = <<Numeric(302, r.nick, r)>>
      BY <1>4, <1>7 DEF Replies
    <2>2. Len(new) = 1 /\ new[1].num = 302 /\ new[1].nick = r.nick
      BY <2>1 DEF Numeric
    <2> QED
      BY <1>1, <1>2, <1>5, <1>7, <2>2 DEF r
  <1>8. CASE r.type = "WHOIS"
    <2>1. new = <<Numeric(311, r.nick, r), Numeric(318, r.nick, r)>>
      BY <1>2, <1>4, <1>8 DEF Replies
    <2>2. /\ Len(new) = 2 /\ new[1].num = 311 /\ new[2].num = 318
          /\ new[1].nick = r.nick /\ new[2].nick = r.nick
      BY <2>1 DEF Numeric
    <2> QED
      BY <1>1, <1>2, <1>5, <1>8, <2>2 DEF r
  <1> QED
    BY <1>2, <1>6, <1>7, <1>8 DEF Types

\* So does the server that answers a request,
LEMMA ReplyLockstep ==
    ASSUME Quiet, LInv, QInv', Reply
    PROVE  LInv'
  <1>1. /\ wire # <<>> /\ wire' = Tail(wire) /\ asked' = asked
        /\ UNCHANGED <<heap, head, tail, stuff, told>>
    BY DEF Reply
  <1>2. PICK on \in Online : inbox' = inbox \o Replies(Head(wire), on)
    BY DEF Reply
  <1> DEFINE r == Head(wire)
             new == Replies(r, on)
             n == Len(inbox)
  <1>3. /\ Asked(r) /\ r = wire[1]
        /\ new \in Seq(Message) /\ \A k \in 1 .. Len(new) : new[k].id = r.id
        /\ \/ Len(new) = 1 /\ new[1].num = 303 /\ r.type = "ISON"
           \/ Len(new) = 1 /\ new[1].num = 302 /\ r.type = "USERHOST" /\ new[1].nick = r.nick
           \/ /\ Len(new) = 2 /\ new[1].num = 311 /\ new[2].num = 318
              /\ r.type = "WHOIS" /\ new[1].nick = r.nick /\ new[2].nick = r.nick
    BY <1>1, RepliesAre
  <1>4. inbox' = inbox \o new
    BY <1>2
  <1> HIDE DEF r, new
  <1>5. /\ inbox \in Seq(Message) /\ n \in Nat
        /\ Len(inbox') = n + Len(new) /\ Len(new) \in 1 .. 2
        /\ \A k \in 1 .. n : inbox'[k] = inbox[k]
        /\ \A k \in 1 .. Len(new) : inbox'[n + k] = new[k]
    BY <1>3, <1>4 DEF LInv, QInv, Mailed
  <1>6. /\ wire \in Seq(Request) /\ Len(wire) \in Nat /\ Len(wire) > 0 /\ Len(wire') = Len(wire) - 1
        /\ \A k \in 1 .. Len(wire') : wire'[k] = wire[k + 1] /\ k + 1 \in 1 .. Len(wire) /\ 1 < k + 1
        /\ 1 \in 1 .. Len(wire)
    BY <1>1 DEF LInv, QInv, Mailed
  <1>7. \A k \in 1 .. n : inbox[k].id < r.id
    BY <1>3, <1>6 DEF LInv, Ordered
  <1>8. ASSUME NEW k \in 1 .. Len(wire') PROVE r.id < wire'[k].id
    <2>1. k + 1 \in 1 .. Len(wire) /\ 1 \in 1 .. Len(wire) /\ 1 < k + 1 /\ wire'[k] = wire[k + 1]
      BY <1>6
    <2>2. wire[1].id < wire[k + 1].id
      BY <2>1 DEF LInv, Ordered
    <2> QED
      BY <1>3, <2>1, <2>2
  <1> HIDE DEF n
  <1>9. \A k \in 1 .. Len(inbox') : k \in 1 .. n \/ k = n + 1 \/ (Len(new) = 2 /\ k = n + 2)
    BY <1>5, SMTT(30)
  <1>10. /\ inbox'[n + 1] = new[1] /\ inbox'[n + 1].id = r.id
         /\ Len(new) = 2 => inbox'[n + 2] = new[2] /\ inbox'[n + 2].id = r.id
    <2>0. Len(new) \in 1 .. 2
      BY <1>5
    <2>1. 1 \in 1 .. Len(new) /\ (Len(new) = 2 => 2 \in 1 .. Len(new))
      BY <2>0
    <2> QED
      BY <1>3, <1>5, <2>1
  <1>11. Live' = Live
    BY <1>1 DEF Live
  <1>12. Compact'
    BY <1>1, <1>11 DEF LInv, Compact
  <1>13. Matched'
    <2>1. ASSUME NEW k \in 1 .. Len(wire') PROVE Asked(wire[k])'
      <3>1. Asked(wire[k + 1]) /\ wire'[k] = wire[k + 1]
        BY <1>6 DEF LInv, Matched
      <3> QED
        BY <1>1, <1>11, <3>1 DEF Asked
    <2>2. ASSUME NEW k \in 1 .. Len(inbox') PROVE Answers(inbox[k])'
      <3>1. CASE k \in 1 .. n
        <4>1. Answers(inbox[k]) /\ inbox'[k] = inbox[k]
          BY <1>5, <3>1 DEF LInv, Matched, n
        <4> QED
          BY <1>1, <1>11, <4>1 DEF Answers
      <3>2. CASE k = n + 1
        BY <1>1, <1>3, <1>10, <1>11, <3>2 DEF Answers, Asked
      <3>3. CASE Len(new) = 2 /\ k = n + 2
        BY <1>1, <1>3, <1>10, <1>11, <3>3 DEF Answers, Asked
      <3> QED
        BY <1>9, <3>1, <3>2, <3>3
    <2> QED
      BY <1>1, <1>11, <2>1, <2>2 DEF LInv, Matched
  <1>14. Ordered'
    <2>1. ASSUME NEW i \in 1 .. Len(wire'), NEW j \in 1 .. Len(wire'), i < j
          PROVE  wire'[i].id < wire'[j].id
      <3>1. i + 1 < j + 1
        BY <1>6, <2>1
      <3> QED
        BY <1>6, <3>1 DEF LInv, Ordered
    <2>2. ASSUME NEW i \in 1 .. Len(inbox'), NEW j \in 1 .. Len(wire')
          PROVE  inbox'[i].id < wire'[j].id
      <3>1. CASE i \in 1 .. n
        BY <1>5, <1>6, <3>1, SMTT(30) DEF LInv, Ordered, n
      <3>2. CASE i = n + 1
        BY <1>8, <1>10, <3>2
      <3>3. CASE Len(new) = 2 /\ i = n + 2
        BY <1>8, <1>10, <3>3
      <3> QED
        BY <1>9, <3>1, <3>2, <3>3
    <2>3. ASSUME NEW i \in 1 .. Len(inbox'), NEW j \in 1 .. Len(inbox'), i < j
          PROVE  \/ inbox'[i].id < inbox'[j].id
                 \/ inbox'[i].id = inbox'[j].id /\ inbox'[i].num = 311 /\ inbox'[j].num = 318
      <3>1. CASE i \in 1 .. n
        <4>1. inbox'[i].id < r.id
          BY <1>5, <1>7, <3>1
        <4>2. CASE j \in 1 .. n
          BY <1>5, <2>3, <3>1, <4>2 DEF LInv, Ordered, n
        <4> QED
          BY <1>9, <1>10, <4>1, <4>2
      <3>2. CASE i = n + 1
        <4>1. Len(new) = 2 /\ j = n + 2
          BY <1>5, <1>9, <2>3, <3>2
        <4> QED
          BY <1>3, <1>10, <3>2, <4>1
      <3>3. i # n + 2
        BY <1>5, <1>9, <2>3
      <3> QED
        BY <1>9, <3>1, <3>2, <3>3
    <2>4. ASSUME NEW j \in 2 .. Len(inbox'), inbox'[j].num = 318
          PROVE  inbox'[j - 1].num = 311 /\ inbox'[j - 1].id = inbox'[j].id
      <3>0. j \in 1 .. Len(inbox')
        BY <1>5
      <3>1. CASE j \in 1 .. n
        <4>1. j \in 2 .. n /\ j - 1 \in 1 .. n
          BY <1>5, <3>1
        <4> QED
          BY <1>5, <2>4, <3>1, <4>1 DEF LInv, Ordered, n
      <3>2. CASE j = n + 1
        BY <1>3, <1>10, <2>4, <3>2
      <3>3. CASE Len(new) = 2 /\ j = n + 2
        <4>1. j - 1 = n + 1
          BY <1>5, <3>3
        <4> QED
          BY <1>3, <1>10, <3>3, <4>1
      <3> QED
        BY <1>9, <3>0, <3>1, <3>2, <3>3
    <2>5. ASSUME inbox' # <<>>, inbox'[1].num = 318 PROVE stuff' = inbox'[1].nick[1]
      <3>1. CASE n = 0
        BY <1>3, <1>5, <1>10, <2>5, <3>1
      <3>2. CASE n # 0
        <4>1. 1 \in 1 .. n /\ inbox # <<>>
          BY <1>5, <3>2 DEF n
        <4> QED
          BY <1>1, <1>5, <2>5, <4>1 DEF LInv, Ordered
      <3> QED
        BY <3>1, <3>2
    <2> QED
      BY <2>1, <2>2, <2>3, <2>4, <2>5 DEF Ordered
  <1>15. Expected'
    <2> SUFFICES ASSUME NEW id \in Live
                 PROVE  \/ \E k \in 1 .. Len(inbox') : inbox'[k].id = id /\ inbox'[k].num \in Final
                        \/ \E k \in 1 .. Len(wire') : wire'[k].id = id
      BY <1>11 DEF Expected
    <2>1. CASE \E k \in 1 .. n : inbox[k].id = id /\ inbox[k].num \in Final
      <3>1. PICK k \in 1 .. n : inbox[k].id = id /\ inbox[k].num \in Final
        BY <2>1
      <3>2. k \in 1 .. Len(inbox')
        BY <1>5, <3>1
      <3> QED
        BY <1>5, <3>1, <3>2
    <2>2. CASE id = r.id
      <3>0. n \in Nat /\ Len(inbox') = n + Len(new) /\ Len(new) \in 1 .. 2
        BY <1>5
      <3>1. n + 1 \in 1 .. Len(inbox') /\ (Len(new) = 2 => n + 2 \in 1 .. Len(inbox'))
        BY <3>0
      <3> QED
        BY <1>3, <1>10, <2>2, <3>1 DEF Final
    <2>3. CASE id # r.id /\ \E k \in 1 .. Len(wire) : wire[k].id = id
      <3>1. PICK k \in 1 .. Len(wire) : wire[k].id = id
        BY <2>3
      <3>2. k - 1 \in 1 .. Len(wire') /\ (k - 1) + 1 = k
        BY <1>3, <1>6, <2>3, <3>1
      <3> QED
        BY <1>6, <3>1, <3>2
    <2> QED
      BY <2>1, <2>2, <2>3 DEF LInv, Expected, n
  <1>16. Honest'
    BY <1>1 DEF LInv, Honest
  <1> QED
    BY <1>12, <1>13, <1>14, <1>15, <1>16 DEF LInv

(* With the connection, every entry goes.                                   *)
LEMMA CleanEmpties ==
    ASSUME LInv, CleanWhoisQueue
    PROVE  Live' = {}
  <1>1. Live' = Live \ Range(Chain)
    BY DEF CleanWhoisQueue, Live
  <1>2. Lists(Chain, Live)
    BY ChainLists DEF LInv, QInv
  <1>3. Live \subseteq Range(Chain)
    <2> HIDE DEF Chain
    <2>1. DOMAIN Chain = 1 .. Len(Chain)
      BY <1>2 DEF Lists
    <2> QED
      BY <1>2, <2>1 DEF Lists, Range
  <1> QED
    BY <1>1, <1>3

\* and a queue that is emptied.
LEMMA EmptyLockstep ==
    ASSUME Live = {}, wire = <<>>, inbox = <<>>
    PROVE  Compact /\ Matched /\ Ordered /\ Expected
  BY DEF Compact, Matched, Ordered, Expected

\* The invariant holds at first, with nothing on the queue.
LEMMA InitLInv == Init => LInv
  <1> SUFFICES ASSUME Init PROVE LInv
    OBVIOUS
  <1>1. Live = {} /\ wire = <<>> /\ inbox = <<>>
    BY DEF Init, Live
  <1> QED
    BY <1>1, InitQInv, EmptyLockstep DEF Init, LInv, Honest

\* Every step of a quiet server keeps it.
LEMMA NextLInv ==
    ASSUME Quiet
    PROVE  LInv /\ [Next]_vars => LInv'
  <1> SUFFICES ASSUME LInv, [Next]_vars PROVE LInv'
    OBVIOUS
  <1>1. QInv'
    BY NextQInv DEF LInv
  <1>2. CASE UNCHANGED vars
    <2>1. UNCHANGED <<heap, head, tail, stuff, asked, wire, inbox, told>>
      BY <1>2 DEF vars
    <2> QED
      BY <1>1, <2>1 DEF LInv, Compact, Matched, Ordered, Expected, Honest, Answers, Asked, Live
  <1>3. CASE \E a \in Asks : TypedAddToWhoisQueue(a)
    BY <1>1, <1>3, AddLockstep
  <1>4. CASE \E nick \in Talks : Send("WHOIS", nick) \/ Send("PRIVMSG", nick)
    BY <1>4 DEF Quiet
  <1>5. CASE Reply
    BY <1>1, <1>5, ReplyLockstep
  <1>6. CASE IsonReturned \/ UserhostReturned \/ EndOfWhois
    BY <1>1, <1>6, FinalAnswers, AnsweringKeeps
  <1>7. CASE WhoisName
    BY <1>1, <1>7, NameKeeps
  <1>8. CASE NoSuchNickname
    <2>1. inbox # <<>> /\ M.num = 401
      BY <1>8 DEF NoSuchNickname, Reads, M
    <2>2. Answers(M)
      BY <2>1, FrontIsHeads
    <2> QED
      BY <2>1, <2>2 DEF Answers
  <1>9. CASE CleanWhoisQueue
    <2>1. Live' = {} /\ wire' = <<>> /\ inbox' = <<>> /\ told' = told
      BY <1>9, CleanEmpties DEF CleanWhoisQueue
    <2>2. Compact' /\ Matched' /\ Ordered' /\ Expected'
      BY <2>1 DEF Compact, Matched, Ordered, Expected
    <2> QED
      BY <1>1, <2>1, <2>2 DEF LInv, Honest
  <1> QED
    BY <1>2, <1>3, <1>4, <1>5, <1>6, <1>7, <1>8, <1>9 DEF Next, ReadNumeric

\* So it holds throughout.
LEMMA InductiveLockstep ==
    ASSUME Quiet
    PROVE  Spec => []LInv
  <1>1. LInv /\ [Next]_vars => LInv'
    BY NextLInv
  <1> QED
    BY InitLInv, <1>1, PTL DEF Spec

----------------------------------------------------------------------------
(* The theorems.                                                            *)

LEMMA Joined ==
    ASSUME NEW a \in Seq(Nat), NEW r \in Seq(Nat)
    PROVE  /\ a \o r \in Seq(Nat) /\ Len(a \o r) = Len(a) + Len(r)
           /\ \A k \in 1 .. Len(a) : (a \o r)[k] = a[k]
           /\ \A k \in 1 .. Len(r) : (a \o r)[Len(a) + k] = r[k]
  OBVIOUS

(* The requests under way are the entries.                                  *)
LEMMA OutstandingLists ==
    ASSUME LInv
    PROVE  Lists(Outstanding, Live)
  <1> DEFINE n == Len(inbox)
             m == Len(wire)
             a == [k \in 1 .. n |-> IF inbox[k].num \in Final THEN inbox[k].id ELSE Null]
             r == [k \in 1 .. m |-> wire[k].id]
             s == a \o r
  <1>1. /\ n \in Nat /\ m \in Nat
        /\ \A k \in 1 .. n : inbox[k].id \in Live
        /\ \A k \in 1 .. m : wire[k].id \in Live
    BY DEF LInv, QInv, Mailed, Matched, Answers, Asked
  <1>2. /\ Live \subseteq Ids /\ Live \subseteq Nat /\ Null \notin Ids /\ Null \in Nat
    BY BoundsAssumption DEF LInv, QInv, Listed, Pointed, Ids, Null
  <1> HIDE DEF n, m
  <1>3. a \in Seq(Nat) /\ Len(a) = n /\ r \in Seq(Nat) /\ Len(r) = m
    <2>1. a \in [1 .. n -> Nat] /\ r \in [1 .. m -> Nat]
      BY <1>1, <1>2
    <2> HIDE DEF a, r
    <2> QED
      BY <1>1, <2>1
  <1>4. /\ s \in Seq(Nat) /\ Len(s) = n + m
        /\ \A k \in 1 .. n : s[k] = IF inbox[k].num \in Final THEN inbox[k].id ELSE Null
        /\ \A k \in 1 .. m : s[n + k] = wire[k].id
    <2>1. /\ \A k \in 1 .. n : a[k] = IF inbox[k].num \in Final THEN inbox[k].id ELSE Null
          /\ \A k \in 1 .. m : r[k] = wire[k].id
      OBVIOUS
    <2> HIDE DEF a, r
    <2>2. /\ s \in Seq(Nat) /\ Len(s) = n + m
          /\ \A k \in 1 .. n : s[k] = a[k]
          /\ \A k \in 1 .. m : s[n + k] = r[k]
      BY <1>3, Joined
    <2> QED
      BY <2>1, <2>2
  <1>5. Outstanding = Picked(s, Ids)
    BY DEF Outstanding, Final, n, m
  <1> HIDE DEF s
  <1>6. ASSUME NEW k \in 1 .. Len(s)
        PROVE  \/ k \in 1 .. n
               \/ k - n \in 1 .. m /\ n + (k - n) = k /\ s[k] = wire[k - n].id
    <2>1. k \in 1 .. n \/ (k - n \in 1 .. m /\ n + (k - n) = k)
      BY <1>1, <1>4
    <2> QED
      BY <1>4, <2>1
  <1>7. ASSUME NEW i \in 1 .. Len(s), NEW j \in 1 .. Len(s),
               i < j, s[i] \in Ids, s[j] \in Ids
        PROVE  s[i] < s[j]
    <2>1. CASE i \in 1 .. n /\ j \in 1 .. n
      <3>1. /\ s[i] = inbox[i].id /\ inbox[i].num \in Final
            /\ s[j] = inbox[j].id
        BY <1>2, <1>4, <1>7, <2>1
      <3>2. inbox[i].num # 311
        BY <3>1 DEF Final
      <3> QED
        BY <1>7, <2>1, <3>1, <3>2 DEF LInv, Ordered, n
    <2>2. CASE i \in 1 .. n /\ j \notin 1 .. n
      <3>1. s[i] = inbox[i].id
        BY <1>2, <1>4, <1>7, <2>2
      <3>2. j - n \in 1 .. m /\ s[j] = wire[j - n].id
        BY <1>6, <2>2
      <3> QED
        BY <2>2, <3>1, <3>2 DEF LInv, Ordered, n, m
    <2>3. CASE i \notin 1 .. n
      <3>1. i - n \in 1 .. m /\ s[i] = wire[i - n].id
        BY <1>6, <2>3
      <3>2. j \notin 1 .. n
        BY <1>1, <1>4, <1>7, <2>3
      <3>3. j - n \in 1 .. m /\ s[j] = wire[j - n].id
        BY <1>6, <3>2
      <3>4. i - n < j - n
        BY <1>1, <1>4, <1>7
      <3> QED
        BY <3>1, <3>3, <3>4 DEF LInv, Ordered, m
    <2> QED
      BY <2>1, <2>2, <2>3
  <1> DEFINE S == {x \in Ids : \E k \in 1 .. Len(s) : s[k] = x}
  <1>8. Lists(Picked(s, Ids), S)
    BY <1>4, <1>7, PickedLists
  <1>9. S = Live
    <2>1. ASSUME NEW k \in 1 .. Len(s), s[k] \in Ids PROVE s[k] \in Live
      <3>1. CASE k \in 1 .. n
        BY <1>1, <1>2, <1>4, <2>1, <3>1
      <3> QED
        BY <1>1, <1>6, <3>1
    <2>2. ASSUME NEW id \in Live PROVE \E k \in 1 .. Len(s) : s[k] = id
      <3>1. CASE \E k \in 1 .. n : inbox[k].id = id /\ inbox[k].num \in Final
        <4>1. PICK k \in 1 .. n : inbox[k].id = id /\ inbox[k].num \in Final
          BY <3>1
        <4>2. k \in 1 .. Len(s)
          BY <1>1, <1>4
        <4> QED
          BY <1>4, <4>1, <4>2
      <3>2. CASE \E k \in 1 .. m : wire[k].id = id
        <4>1. PICK k \in 1 .. m : wire[k].id = id
          BY <3>2
        <4>2. n + k \in 1 .. Len(s)
          BY <1>1, <1>4
        <4> QED
          BY <1>4, <4>1, <4>2
      <3> QED
        BY <3>1, <3>2 DEF LInv, Expected, n, m
    <2> QED
      BY <1>2, <2>1, <2>2
  <1> HIDE DEF S
  <1> QED
    BY <1>5, <1>8, <1>9

(* When everybody is signed on and only the queue asks the server, the      *)
(* entries are the requests under way in their order, the tail is the last  *)
(* of them, and each function was called with the answer to its own request.*)
THEOREM QueueInLockstep ==
    ASSUME Quiet
    PROVE  Spec => []Lockstep
  <1>1. LInv => Lockstep
    <2> SUFFICES ASSUME LInv PROVE Lockstep
      OBVIOUS
    <2>1. Lists(Chain, Live)
      BY ChainLists DEF LInv, QInv
    <2>2. Chain = Outstanding
      BY <2>1, OutstandingLists, ListsOnce
    <2>3. /\ Length \in Nat /\ (Length = 0 <=> head = Null)
          /\ Chain \in [1 .. Length -> Live]
          /\ Length > 0 => heap[Chain[Length]].next = Null
      BY ChainIs DEF LInv, QInv
    <2> HIDE DEF Chain
    <2>4. Chain \in Seq(Nat) /\ Len(Chain) = Length
      BY <2>1, <2>3 DEF Lists
    <2>5. CASE Chain = <<>>
      <3>1. Length = 0
        BY <2>4, <2>5
      <3> QED
        BY <2>2, <2>3, <2>5, <3>1 DEF Lockstep, LInv, QInv, Listed, Honest
    <2>6. CASE Chain # <<>>
      <3>1. Length > 0 /\ Length \in 1 .. Length
        BY <2>3, <2>4, <2>6
      <3> DEFINE last == Chain[Length]
      <3>2. last \in Live /\ heap[last].next = Null
        BY <2>3, <3>1
      <3> HIDE DEF last
      <3>3. tail \in Live /\ heap[tail].next = Null
        BY <3>2 DEF LInv, QInv, Listed, Pointed, Pointers, Compact
      <3>4. last \in Nat /\ tail \in Nat
        <4>1. \A id \in Live : id \in Nat
          BY DEF LInv, QInv, Listed, Pointed
        <4> QED
          BY <3>2, <3>3, <4>1
      <3>5. ~(last < tail) /\ ~(tail < last)
        BY <3>2, <3>3 DEF LInv, Compact
      <3>6. tail = last
        BY <3>4, <3>5
      <3>7. Last(Chain) = last
        BY <2>4 DEF Last, last
      <3> QED
        BY <2>2, <2>6, <3>6, <3>7 DEF Lockstep, LInv, Honest
    <2> QED
      BY <2>5, <2>6
  <1> QED
    BY InductiveLockstep, <1>1, PTL

(* A USERHOST is reported on for every nick it names by the numeric that    *)
(* answers it.                                                              *)
THEOREM EveryNickReported ==
    ASSUME Quiet
    PROVE  Spec => AllReported
  <1> DEFINE A == UserhostReturned /\ HeadIs("USERHOST") =>
                     \A n \in Range(heap[head].nick) :
                         \E t \in told' : t.entry = head /\ t.nick = <<n>>
  <1>1. LInv => A
    <2> SUFFICES ASSUME LInv, UserhostReturned, HeadIs("USERHOST"),
                        NEW n \in Range(heap[head].nick)
                 PROVE  \E t \in told' : t.entry = head /\ t.nick = <<n>>
      OBVIOUS
    <2>1. inbox # <<>> /\ M.num = 302
      BY DEF UserhostReturned, Reads, M
    <2>2. head \in Live /\ M.nick = heap[head].nick
      BY <2>1, FrontIsHeads DEF Answers, HeadIs
    <2> DEFINE nicks == heap[head].nick
    <2>3. nicks \in Seq(Nicks) /\ nicks # <<>>
      BY <2>2 DEF LInv, QInv, Filled, Entry
    <2>4. told' = told \cup Reported(nicks, nicks)
      BY <2>2, <2>3 DEF UserhostReturned
    <2>5. PICK i \in 1 .. Len(nicks) : nicks[i] = n
      BY <2>3 DEF Range
    <2> HIDE DEF nicks
    <2>6. Call(head, M.id, <<nicks[i]>>, TRUE) \in Reported(nicks, nicks)
      BY <2>3, UsedAll
    <2> QED
      BY <2>4, <2>5, <2>6 DEF Call
  <1>2. LInv /\ [Next]_vars => [A]_vars
    BY <1>1
  <1> HIDE DEF A
  <1>3. Spec => [][A]_vars
    BY InductiveLockstep, <1>2, PTL DEF Spec
  <1> QED
    BY <1>3 DEF AllReported, A

(* What one sees of the queue as requests.                                  *)
Seen == Promise!requests

\* The chain from the head is the list of the live entries.
LEMMA ChainLive == LInv => Lists(Chain, Live)
  BY ChainLists DEF LInv, QInv

\* The same of the next state.
LEMMA ChainLiveNext == LInv' => Lists(Chain', Live')
  <1>1. LInv' => Lists(Chain, Live)'
    BY ChainLive, PTL
  <1> QED
    BY <1>1 DEF Lists, Increasing

\* A step of the queue answers the request that is first, adds one at the end, or forgets all.
LEMMA StepsInTurn ==
    ASSUME Quiet, LInv, LInv', [Next]_vars
    PROVE  [Promise!Next]_Seen
  <1> DEFINE answered == {t.entry : t \in {c \in told : c.cause = c.entry}}
  <1>1. Lists(Chain, Live) /\ Lists(Chain', Live')
    BY ChainLive, ChainLiveNext
  <1>2. \A id \in Live : id \in Nat /\ id < asked + 1
    BY DEF LInv, QInv, Listed, Pointed
  <1> HIDE DEF Chain
  <1>3. CASE UNCHANGED <<heap, asked, told>>
    <2>1. Live' = Live
      BY <1>3 DEF Live
    <2>2. Chain' = Chain
      BY <1>1, <2>1, ListsOnce
    <2>3. UNCHANGED Seen
      BY <1>3, <2>2 DEF Seen, Promise!requests
    <2> QED
      BY <2>3
  <1>4. ASSUME NEW a \in Asks, TypedAddToWhoisQueue(a) PROVE Promise!Ask
    <2>1. Live' = Live \cup {asked + 1} /\ told' = told /\ asked' = asked + 1 /\ asked < MaxRequests
      BY <1>4 DEF TypedAddToWhoisQueue, Linked, Live
    <2>2. Chain \in Seq(Nat) /\ asked + 1 \in Nat
      BY <1>1, BoundsAssumption DEF Lists, LInv, QInv, Listed, Pointed
    <2>3. Lists(Append(Chain, asked + 1), Live')
      BY <1>1, <1>2, <2>1, <2>2, AppendLists
    <2>4. Chain' = Append(Chain, asked + 1)
      BY <1>1, <2>3, ListsOnce
    <2> QED
      BY <2>1, <2>4 DEF Promise!Ask
  <1>5. ASSUME NEW C, Answering(C) PROVE Promise!Answer
    <2>1. /\ inbox # <<>> /\ head \in Live
      BY <1>5, FrontIsHeads DEF Answering
    <2>2. Live' = Live \ {head} /\ asked' = asked /\ told' = told \cup C /\ C # {}
          /\ \A t \in C : t.entry = head /\ t.cause = head
      BY <1>5 DEF Answering, Pop, Live
    <2>3. Chain \in Seq(Nat) /\ Chain # <<>> /\ Chain[1] = head
      <3>1. /\ Length \in Nat /\ (Length = 0 <=> head = Null)
            /\ Chain \in [1 .. Length -> Live]
            /\ Length > 0 => Chain[1] = head
        BY ChainIs DEF LInv, QInv
      <3>2. head # Null
        BY <2>1 DEF LInv, QInv, Listed, Pointed, Null
      <3>3. Chain \in Seq(Nat)
        BY <1>1 DEF Lists
      <3> QED
        BY <3>1, <3>2, <3>3
    <2>4. Lists(Tail(Chain), Live')
      BY <1>1, <2>2, <2>3, TailLists
    <2>5. Chain' = Tail(Chain)
      BY <1>1, <2>4, ListsOnce
    <2>6. answered' = answered \cup {head}
      BY <2>2
    <2> HIDE DEF answered
    <2> QED
      BY <2>2, <2>3, <2>5, <2>6 DEF Promise!Answer, answered
  <1>6. CASE CleanWhoisQueue
    <2>1. Live' = {} /\ told' = told /\ asked' = asked
      BY <1>6, CleanEmpties DEF CleanWhoisQueue
    <2>2. Chain' = <<>>
      <3>1. Lists(<<>>, Live')
        BY <2>1 DEF Lists, Increasing
      <3> QED
        BY <1>1, <3>1, ListsOnce
    <2>3. Promise!Forget
      BY <2>1, <2>2 DEF Promise!Forget
    <2> QED
      BY <2>3 DEF Promise!Next
  <1>7. CASE IsonReturned \/ UserhostReturned \/ EndOfWhois
    BY <1>5, <1>7, FinalAnswers DEF Promise!Next
  <1>8. CASE \E a \in Asks : TypedAddToWhoisQueue(a)
    BY <1>4, <1>8 DEF Promise!Next
  <1>9. CASE Reply \/ WhoisName
    <2>1. UNCHANGED <<heap, asked, told>>
      BY <1>9 DEF Reply, WhoisName, Reads
    <2> QED
      BY <1>3, <2>1
  <1>10. ~NoSuchNickname
    <2> SUFFICES ASSUME NoSuchNickname PROVE FALSE
      OBVIOUS
    <2>1. inbox # <<>> /\ M.num = 401
      BY DEF NoSuchNickname, Reads, M
    <2> QED
      BY <2>1, FrontIsHeads DEF Answers
  <1>11. CASE UNCHANGED vars
    BY <1>3, <1>11 DEF vars
  <1>12. ~(\E nick \in Talks : Send("WHOIS", nick) \/ Send("PRIVMSG", nick))
    BY DEF Quiet
  <1> QED
    BY <1>6, <1>7, <1>8, <1>9, <1>10, <1>11, <1>12 DEF Next, ReadNumeric

(* The queue answers its requests in turn: when everybody is signed on and  *)
(* only the queue asks the server, every step of whois.c is one of the      *)
(* abstract Requests, or is not seen in it.                                 *)
THEOREM AnswersInTurn ==
    ASSUME Quiet
    PROVE  Spec => Promise!InTurn
  <1>1. Init => Promise!Init
    <2> SUFFICES ASSUME Init PROVE Promise!Init
      OBVIOUS
    <2>1. Lists(Chain, Live)
      BY InitLInv, ChainLive
    <2>2. Live = {} /\ told = {} /\ asked = 0
      BY DEF Init, Live
    <2>3. Lists(<<>>, Live)
      BY <2>2 DEF Lists, Increasing
    <2>4. Chain = <<>>
      BY <2>1, <2>3, ListsOnce
    <2> QED
      BY <2>2, <2>4 DEF Promise!Init
  <1>2. LInv /\ LInv' /\ [Next]_vars => [Promise!Next]_(Promise!requests)
    BY StepsInTurn DEF Seen
  <1> QED
    BY <1>1, <1>2, InductiveLockstep, PTL DEF Spec, Promise!InTurn
=============================================================================
