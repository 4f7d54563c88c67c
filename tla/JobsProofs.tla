----------------------------- MODULE JobsProofs -----------------------------
(* Proofs about Jobs: first the DCC clients, for any users, files, types and *)
(* bound of the list, then the processes, for any process ids, size of the   *)
(* table, limit of lines and servers.                                        *)
EXTENDS Jobs, Recursion, FiniteSetTheorems, SequenceTheorems

----------------------------------------------------------------------------
(* Lists of clients.                                                        *)

Client ==
    [at : 1 .. MaxClients + 1, type : Types \cup {Clients!None}, user : Users,
     description : Files \cup {Clients!Chat}, flags : SUBSET Clients!Flags,
     dccnum : 1 .. MaxClients + 1]

Distinct(list) == \A i, j \in DOMAIN list : list[i].at = list[j].at => i = j

(* No address is in the list twice, and a number is a position.             *)
Lists(n) ==
    {list \in Seq(Client) :
        /\ Len(list) =< n /\ Distinct(list)
        /\ \A i \in DOMAIN list : list[i].dccnum = i}

(* Each client is still at its place, and there may be more.                *)
Grows(list, new) == Len(list) =< Len(new) /\ \A i \in 1 .. Len(list) : new[i].at = list[i].at

LEMMA BoundIs == MaxClients \in Nat
  BY ClientsAssumption DEF Clients!BoundAssumption

LEMMA ListIs ==
    ASSUME NEW n \in Nat, NEW list \in Lists(n)
    PROVE  /\ list \in Seq(Client) /\ Len(list) \in Nat /\ Len(list) =< n
           /\ DOMAIN list = 1 .. Len(list) /\ Distinct(list)
           /\ \A i \in 1 .. Len(list) : list[i] \in Client /\ list[i].dccnum = i
  BY DEF Lists

(* A list whose clients have been changed, but for addresses and numbers.   *)
LEMMA Altered ==
    ASSUME NEW n \in Nat, NEW list \in Lists(n),
           NEW new, new = [i \in DOMAIN list |-> new[i]],
           \A i \in DOMAIN list :
               new[i] \in Client /\ new[i].at = list[i].at /\ new[i].dccnum = list[i].dccnum
    PROVE  new \in Lists(n) /\ Grows(list, new)
  <1>1. /\ Len(list) \in Nat /\ Len(list) =< n /\ DOMAIN list = 1 .. Len(list) /\ Distinct(list)
        /\ \A i \in 1 .. Len(list) : list[i].dccnum = i
    BY ListIs
  <1>2. new \in [1 .. Len(list) -> Client]
    BY <1>1
  <1>3. new \in Seq(Client) /\ Len(new) = Len(list) /\ DOMAIN new = 1 .. Len(list)
    BY <1>1, <1>2
  <1>4. Distinct(new)
    BY <1>1, <1>3 DEF Distinct
  <1> QED
    BY <1>1, <1>3, <1>4 DEF Lists, Grows

(* What grows keeps its addresses.                                          *)
LEMMA GrowsAddresses ==
    ASSUME NEW n \in Nat, NEW list \in Lists(n), NEW m \in Nat, NEW new \in Lists(m), Grows(list, new)
    PROVE  Clients!Addresses(list) \subseteq Clients!Addresses(new)
  <1>1. Len(list) \in Nat /\ DOMAIN list = 1 .. Len(list)
    BY ListIs
  <1>2. Len(new) \in Nat /\ DOMAIN new = 1 .. Len(new)
    BY ListIs
  <1>3. \A i \in DOMAIN list : i \in DOMAIN new /\ list[i].at = new[i].at
    BY <1>1, <1>2 DEF Grows
  <1> QED
    BY <1>3 DEF Clients!Addresses

----------------------------------------------------------------------------
(* Erasing.                                                                 *)

(* Where a client is in the list, and 0 for one that is not listed.         *)
Place(list, a) == Clients!SelectInSeq(list, LAMBDA c : c.at = a)

LEMMA FirstIs ==
    ASSUME NEW list, Len(list) \in Nat, NEW a, NEW i \in 1 .. Len(list), list[i].at = a
    PROVE  Place(list, a) \in 1 .. Len(list) /\ list[Place(list, a)].at = a
  <1> DEFINE I == {k \in 1 .. Len(list) : list[k].at = a}
  <1>1. I \in SUBSET Nat /\ I # {}
    OBVIOUS
  <1>2. PICK x \in I : \A y \in I : x =< y
    BY <1>1, Least
  <1>3. Clients!Min(I) \in I
    BY <1>2 DEF Clients!Min
  <1>4. Place(list, a) = Clients!Min(I)
    BY <1>1 DEF Place, Clients!SelectInSeq
  <1> QED
    BY <1>3, <1>4

LEMMA RenumberKeeps ==
    ASSUME NEW n \in 0 .. MaxClients + 1, NEW list \in Seq(Client), Len(list) =< n, Distinct(list)
    PROVE  Clients!Renumbered(list) \in Lists(n)
  <1> DEFINE new == Clients!Renumbered(list)
             Num(i) == [list[i] EXCEPT !.dccnum = i]
  <1>1. new = [i \in 1 .. Len(list) |-> Num(i)] /\ Len(list) \in Nat
    BY DEF Clients!Renumbered
  <1>2. \A i \in 1 .. Len(list) : i \in 1 .. MaxClients + 1 /\ list[i] \in Client
    BY <1>1, BoundIs
  <1>3. \A i \in 1 .. Len(list) :
            Num(i) \in Client /\ Num(i).at = list[i].at /\ Num(i).dccnum = i
    BY <1>2 DEF Client
  <1> HIDE DEF Num, new
  <1>4. /\ new \in [1 .. Len(list) -> Client]
        /\ \A i \in 1 .. Len(list) : new[i].at = list[i].at /\ new[i].dccnum = i
    BY <1>1, <1>3
  <1>5. new \in Seq(Client) /\ Len(new) = Len(list) /\ DOMAIN new = 1 .. Len(list)
    BY <1>1, <1>4
  <1>6. Distinct(new)
    BY <1>4, <1>5 DEF Distinct
  <1>7. new \in Lists(n)
    BY <1>4, <1>5, <1>6 DEF Lists
  <1> QED
    BY <1>7 DEF new

(* dcc_erase leaves a list.                                                 *)
LEMMA EraseKeeps ==
    ASSUME NEW n \in 0 .. MaxClients + 1, NEW list \in Lists(n), NEW a
    PROVE  Clients!DccErase(list, a) \in Lists(n)
  <1> DEFINE k == Place(list, a)
             rest == Clients!RemoveFirstMatch(list, LAMBDA c : c.at = a)
  <1>1. /\ list \in Seq(Client) /\ Len(list) \in Nat /\ Len(list) =< n
        /\ DOMAIN list = 1 .. Len(list) /\ Distinct(list)
    <2>1. n \in Nat
      BY BoundIs
    <2> QED
      BY <2>1, ListIs
  <1>2. rest \in Seq(Client) /\ Len(rest) =< n /\ Distinct(rest)
    <2>1. CASE \E i \in 1 .. Len(list) : list[i].at = a
      <3>1. rest = RemoveAt(list, k)
        BY <2>1 DEF Clients!RemoveFirstMatch, Clients!RemoveAt, RemoveAt, Place
      <3>2. k \in DOMAIN list
        BY <1>1, <2>1, FirstIs
      <3> HIDE DEF k, rest
      <3>3. /\ rest \in Seq(Client) /\ Len(rest) = Len(list) - 1
            /\ \A j \in 1 .. Len(list) - 1 : rest[j] = IF j < k THEN list[j] ELSE list[j + 1]
        BY <1>1, <3>1, <3>2, Removed
      <3>4. Distinct(rest)
        <4> SUFFICES ASSUME NEW i \in DOMAIN rest, NEW j \in DOMAIN rest, rest[i].at = rest[j].at PROVE i = j
          BY DEF Distinct
        <4>1. i \in 1 .. Len(list) - 1 /\ j \in 1 .. Len(list) - 1 /\ k \in 1 .. Len(list)
          BY <1>1, <3>2, <3>3
        <4> DEFINE p == IF i < k THEN i ELSE i + 1
                   q == IF j < k THEN j ELSE j + 1
        <4>2. /\ p \in 1 .. Len(list) /\ q \in 1 .. Len(list)
              /\ (i < k => i = p) /\ (~(i < k) => i + 1 = p)
              /\ (j < k => j = q) /\ (~(j < k) => j + 1 = q)
          BY <1>1, <4>1
        <4> HIDE DEF p, q
        <4>4. rest[i] = list[p] /\ rest[j] = list[q]
          BY <3>3, <4>1, <4>2
        <4>3. p = q
          BY <1>1, <4>2, <4>4 DEF Distinct
        <4> QED
          BY <4>1, <4>2, <4>3
      <3> QED
        BY <1>1, <3>3, <3>4
    <2>2. CASE ~\E i \in 1 .. Len(list) : list[i].at = a
      <3>1. rest = list
        BY <2>2 DEF Clients!RemoveFirstMatch
      <3> QED
        BY <1>1, <3>1
    <2> QED
      BY <2>1, <2>2
  <1> HIDE DEF rest
  <1>3. Clients!Renumbered(rest) \in Lists(n)
    BY <1>2, RenumberKeeps
  <1> QED
    BY <1>3 DEF rest, Clients!DccErase

(* A loop of dcc_erase leaves a list.                                       *)
LEMMA LoopKeeps ==
    ASSUME NEW n \in 0 .. MaxClients + 1, NEW m \in Nat,
           NEW erased, erased[0] \in Lists(n),
           \A k \in 1 .. m : \/ erased[k] = erased[k - 1]
                             \/ \E a : erased[k] = Clients!DccErase(erased[k - 1], a)
    PROVE  erased[m] \in Lists(n)
  <1> DEFINE Bad == {k \in 0 .. m : erased[k] \notin Lists(n)}
  <1>1. Bad \in SUBSET (0 .. m) /\ 0 \notin Bad
    OBVIOUS
  <1>2. ASSUME NEW k \in 1 .. m PROVE k \in Bad => k - 1 \in Bad
    <2>1. k \in 0 .. m /\ k - 1 \in 0 .. m
      OBVIOUS
    <2>2. erased[k - 1] \in Lists(n) => erased[k] \in Lists(n)
      BY EraseKeeps
    <2> QED
      BY <2>1, <2>2
  <1> HIDE DEF Bad
  <1>3. Bad = {}
    BY <1>1, <1>2, NoneBad
  <1>4. m \in 0 .. m
    OBVIOUS
  <1> QED
    BY <1>3, <1>4 DEF Bad

(* The loops have values: some function satisfies their definitions.        *)
Loop(f, list, m, Some, dead) ==
    f = [i \in 0 .. m |->
            IF i = 0 THEN list
            ELSE IF i \in Some THEN Clients!DccErase(f[i - 1], dead[i]) ELSE f[i - 1]]

LEMMA LoopExists ==
    ASSUME NEW n \in 0 .. MaxClients + 1, NEW list \in Lists(n), NEW m \in Nat,
           NEW Some, NEW dead
    PROVE  \E f : Loop(f, list, m, Some, dead)
  <1> DEFINE T == [k \in Nat |-> [l \in Lists(n) |->
                      IF k \in Some THEN Clients!DccErase(l, dead[k]) ELSE l]]
  <1>1. \A k \in Nat, l \in Lists(n) :
            (IF k \in Some THEN Clients!DccErase(l, dead[k]) ELSE l) \in Lists(n)
    BY EraseKeeps
  <1>2. T \in [Nat -> [Lists(n) -> Lists(n)]]
    BY <1>1
  <1>3. \A k \in Nat, l \in Lists(n) :
            T[k][l] = IF k \in Some THEN Clients!DccErase(l, dead[k]) ELSE l
    OBVIOUS
  <1> HIDE DEF T
  <1>4. PICK f : Iterates(f, Lists(n), T, list, m)
    BY <1>2, Iteration
  <1>5. f \in [0 .. m -> Lists(n)] /\ f[0] = list
    BY <1>4 DEF Iterates
  <1>6. ASSUME NEW k \in 1 .. m
        PROVE  f[k] = IF k \in Some THEN Clients!DccErase(f[k - 1], dead[k]) ELSE f[k - 1]
    <2>1. k - 1 \in 0 .. m /\ k \in Nat
      OBVIOUS
    <2>2. f[k - 1] \in Lists(n) /\ f[k] = T[k][f[k - 1]]
      BY <1>4, <1>5, <2>1 DEF Iterates
    <2> QED
      BY <1>3, <2>1, <2>2
  <1>7. \A i \in 0 .. m : i # 0 => i \in 1 .. m
    OBVIOUS
  <1> DEFINE g == [i \in 0 .. m |->
                      IF i = 0 THEN list
                      ELSE IF i \in Some THEN Clients!DccErase(f[i - 1], dead[i])
                           ELSE f[i - 1]]
  <1>8. \A i \in 0 .. m : f[i] = g[i]
    BY <1>5, <1>6, <1>7
  <1>9. f = g
    <2>1. f = [i \in 0 .. m |-> f[i]]
      BY <1>5
    <2>2. g = [i \in 0 .. m |-> g[i]]
      OBVIOUS
    <2> HIDE DEF g
    <2> QED
      BY <1>8, <2>1, <2>2
  <1> QED
    BY <1>9 DEF Loop

(* dcc_really_erase, and the loops of dcc_close.                            *)
LEMMA ErasedAllKeeps ==
    ASSUME NEW n \in 0 .. MaxClients + 1, NEW list \in Lists(n), NEW dead, Len(dead) \in Nat
    PROVE  Clients!ErasedAll(list, dead) \in Lists(n)
  <1> DEFINE m == Len(dead)
             E(f) == [i \in 0 .. m |->
                         IF i = 0 THEN list ELSE Clients!DccErase(f[i - 1], dead[i])]
             h == CHOOSE f : f = E(f)
  <1>1. \E f : f = E(f)
    <2>1. PICK f : Loop(f, list, m, 1 .. m, dead)
      <3>1. m \in Nat
        OBVIOUS
      <3> HIDE DEF m
      <3> QED
        BY <3>1, LoopExists
    <2>2. \A i \in 0 .. m : i # 0 => i \in 1 .. m
      OBVIOUS
    <2>3. f = E(f)
      BY <2>1, <2>2 DEF Loop
    <2> QED
      BY <2>3
  <1>2. Clients!ErasedAll(list, dead) = h[m]
    BY DEF Clients!ErasedAll
  <1> HIDE DEF E
  <1>3. h = E(h)
    BY <1>1, Zenon
  <1> HIDE DEF h
  <1> USE DEF E
  <1>4. 0 \in 0 .. m /\ \A k \in 1 .. m : k \in 0 .. m /\ k # 0
    OBVIOUS
  <1>5. h[0] = list /\ \A k \in 1 .. m : h[k] = Clients!DccErase(h[k - 1], dead[k])
    BY <1>3, <1>4, Zenon
  <1>6. m \in Nat
    OBVIOUS
  <1> HIDE DEF m, E
  <1>7. h[m] \in Lists(n)
    BY <1>5, <1>6, LoopKeeps
  <1> QED
    BY <1>2, <1>7

LEMMA ErasedAtKeeps ==
    ASSUME NEW n \in 0 .. MaxClients + 1, NEW list \in Lists(n), NEW places
    PROVE  Clients!ErasedAt(list, places) \in Lists(n)
  <1> DEFINE m == Len(list)
             E(f) == [i \in 0 .. m |->
                         IF i = 0 THEN list
                         ELSE IF i \in places THEN Clients!DccErase(f[i - 1], list[i].at)
                              ELSE f[i - 1]]
             h == CHOOSE f : f = E(f)
             dead == [i \in 1 .. m |-> list[i].at]
  <1>1. m \in Nat
    BY ListIs, BoundIs
  <1>2. \E f : f = E(f)
    <2>1. PICK f : Loop(f, list, m, places, dead)
      <3> HIDE DEF m, dead
      <3> QED
        BY <1>1, LoopExists
    <2>2. \A i \in 0 .. m : i # 0 => i \in 1 .. m
      OBVIOUS
    <2>3. \A i \in 1 .. m : dead[i] = list[i].at
      OBVIOUS
    <2> HIDE DEF m, dead
    <2>4. f = E(f)
      BY <2>1, <2>2, <2>3 DEF Loop
    <2> QED
      BY <2>4
  <1>3. Clients!ErasedAt(list, places) = h[m]
    BY DEF Clients!ErasedAt
  <1> HIDE DEF E
  <1>4. h = E(h)
    BY <1>2, Zenon
  <1> HIDE DEF h
  <1> USE DEF E
  <1>5. 0 \in 0 .. m /\ \A k \in 1 .. m : k \in 0 .. m /\ k # 0
    BY <1>1
  <1>6. /\ h[0] = list
        /\ \A k \in 1 .. m :
               h[k] = IF k \in places THEN Clients!DccErase(h[k - 1], list[k].at) ELSE h[k - 1]
    BY <1>4, <1>5, Zenon
  <1> HIDE DEF m, E
  <1>7. h[m] \in Lists(n)
    BY <1>1, <1>6, LoopKeeps
  <1> QED
    BY <1>3, <1>7

----------------------------------------------------------------------------
(* Growing.                                                                 *)

(* malloc has an address that no client of the list has.                    *)
LEMMA AddressIsNew ==
    ASSUME NEW n \in Nat, NEW list \in Lists(n)
    PROVE  /\ Clients!NewAddress(list) \in 1 .. Len(list) + 1
           /\ Clients!NewAddress(list) \notin Clients!Addresses(list)
  <1> DEFINE S == 1 .. Len(list) + 1
             T == 1 .. Len(list)
             Free(a) == a \in S /\ a \notin Clients!Addresses(list)
  <1>1. Len(list) \in Nat /\ DOMAIN list = T
    BY ListIs
  <1>2. \E a : Free(a)
    <2> SUFFICES ASSUME \A a \in S : a \in Clients!Addresses(list) PROVE FALSE
      OBVIOUS
    <2> DEFINE f == [a \in S |-> CHOOSE i \in T : list[i].at = a]
    <2>1. \A a \in S : \E i \in T : list[i].at = a
      BY <1>1 DEF Clients!Addresses
    <2>2. \A a \in S : f[a] \in T /\ list[f[a]].at = a
      BY <2>1
    <2>3. f \in [S -> T]
      BY <2>2
    <2>4. IsFiniteSet(S) /\ Cardinality(S) = Len(list) + 1
      <3>1. Len(list) + 1 \in Int /\ 1 \in Int /\ ~(1 > Len(list) + 1) /\ Len(list) + 1 - 1 + 1 = Len(list) + 1
        BY <1>1
      <3> QED
        BY <3>1, FS_Interval
    <2>5. IsFiniteSet(T) /\ Cardinality(T) = Len(list)
      <3>1. Len(list) \in Int /\ 1 \in Int /\ (1 > Len(list) => Len(list) = 0) /\ Len(list) - 1 + 1 = Len(list)
        BY <1>1
      <3> QED
        BY <3>1, FS_Interval
    <2> HIDE DEF f, S, T
    <2>6. Cardinality(T) < Cardinality(S)
      BY <1>1, <2>4, <2>5
    <2>7. \E x, y \in S : x # y /\ f[x] = f[y]
      BY <2>3, <2>4, <2>5, <2>6, FS_PigeonHole
    <2> QED
      BY <2>2, <2>7
  <1>3. Clients!NewAddress(list) = CHOOSE a \in S : a \notin Clients!Addresses(list)
    BY DEF Clients!NewAddress
  <1> HIDE DEF S
  <1>4. Clients!NewAddress(list) \in S /\ Clients!NewAddress(list) \notin Clients!Addresses(list)
    BY <1>2, <1>3, Zenon
  <1> QED
    BY <1>4 DEF S

(* A list has room for one more.                                            *)
LEMMA Roomier == ASSUME NEW list \in Lists(MaxClients) PROVE list \in Lists(MaxClients + 1) /\ Grows(list, list)
  <1>1. Len(list) =< MaxClients /\ Len(list) \in Nat
    BY ListIs, BoundIs
  <1> QED
    BY <1>1, BoundIs DEF Lists, Grows

(* A client added at the end has a new address and the next number.         *)
LEMMA AppendKeeps ==
    ASSUME NEW list \in Lists(MaxClients), NEW c \in Client,
           c.at \notin Clients!Addresses(list), c.dccnum = Len(list) + 1
    PROVE  Append(list, c) \in Lists(MaxClients + 1) /\ Grows(list, Append(list, c))
  <1> DEFINE new == Append(list, c)
             n == Len(list)
  <1>1. /\ list \in Seq(Client) /\ n \in Nat /\ n =< MaxClients
        /\ DOMAIN list = 1 .. n /\ Distinct(list)
        /\ \A i \in 1 .. n : list[i] \in Client /\ list[i].dccnum = i
    BY ListIs, BoundIs
  <1>2. /\ new \in Seq(Client) /\ Len(new) = n + 1 /\ DOMAIN new = 1 .. n + 1
        /\ new[n + 1] = c /\ \A i \in 1 .. n : new[i] = list[i]
    BY <1>1, AppendProperties
  <1> HIDE DEF new, n
  <1>3. \A i \in 1 .. n + 1 : i \in 1 .. n \/ i = n + 1
    BY <1>1
  <1>4. \A i \in 1 .. n : new[i].at # c.at
    BY <1>1, <1>2 DEF Clients!Addresses
  <1>5. Distinct(new)
    BY <1>1, <1>2, <1>3, <1>4 DEF Distinct
  <1>6. \A i \in 1 .. n + 1 : new[i].dccnum = i
    BY <1>1, <1>2, <1>3 DEF n
  <1>7. new \in Lists(MaxClients + 1)
    BY <1>1, <1>2, <1>5, <1>6, BoundIs DEF Lists
  <1>8. Grows(list, new)
    BY <1>1, <1>2 DEF Grows, n
  <1> QED
    BY <1>7, <1>8 DEF new

(* dcc_searchlist adds a client at the end, if it adds one.                 *)
LEMMA SearchedKeeps ==
    ASSUME NEW list \in Lists(MaxClients), NEW type \in Types, NEW user \in Users,
           NEW description \in Files \cup {Clients!Chat}
    PROVE  /\ Clients!Searched(list, type, user, description).list \in Lists(MaxClients + 1)
           /\ Grows(list, Clients!Searched(list, type, user, description).list)
  <1> DEFINE found == Clients!Found(list, type, user, description, Clients!Either)
             new == Clients!NewClient(list, type, user, description)
             s == Clients!Searched(list, type, user, description)
  <1>1. CASE found # <<>>
    <2>1. s.list = list
      BY <1>1 DEF Clients!Searched
    <2> QED
      BY <2>1, Roomier
  <1>2. CASE found = <<>>
    <2>1. s.list = Append(list, new)
      BY <1>2 DEF Clients!Searched
    <2>2. Len(list) \in Nat /\ Len(list) =< MaxClients
      BY ListIs, BoundIs
    <2>3. /\ Clients!NewAddress(list) \in 1 .. Len(list) + 1
          /\ Clients!NewAddress(list) \notin Clients!Addresses(list)
      BY BoundIs, AddressIsNew
    <2>4. Clients!NewAddress(list) \in 1 .. MaxClients + 1 /\ Len(list) + 1 \in 1 .. MaxClients + 1
      BY <2>2, <2>3, BoundIs
    <2>5. new \in Client /\ new.at = Clients!NewAddress(list) /\ new.dccnum = Len(list) + 1
      BY <2>4 DEF Clients!NewClient, Client
    <2> HIDE DEF new, s
    <2>6. Append(list, new) \in Lists(MaxClients + 1) /\ Grows(list, Append(list, new))
      BY <2>3, <2>5, AppendKeeps
    <2> QED
      BY <2>1, <2>6 DEF s
  <1> QED
    BY <1>1, <1>2

----------------------------------------------------------------------------
(* Changing the clients at an address.                                      *)

(* The same client, with other flags, or another type or description.       *)
Becomes(c, d) == d \in Client /\ d.at = c.at /\ d.dccnum = c.dccnum

LEMMA ChangesKeep ==
    ASSUME NEW c \in Client
    PROVE  /\ Becomes(c, c)
           /\ Becomes(c, Clients!Marked(c))
           /\ Becomes(c, Clients!Opened(c))
           /\ Becomes(c, Clients!Forgotten(c))
           /\ Becomes(c, Clients!WithFlags(c, {"OFFER"}))
           /\ Becomes(c, Clients!GotConnected(c))
           /\ Becomes(c, Clients!Accepted(c))
  <1> USE DEF Becomes, Client, Clients!Flags, Clients!WithFlags
  <1>1. Becomes(c, Clients!Marked(c))
    BY DEF Clients!Marked
  <1>2. Becomes(c, Clients!Opened(c))
    BY DEF Clients!Opened
  <1>3. Becomes(c, Clients!Forgotten(c))
    BY DEF Clients!Forgotten
  <1>4. Becomes(c, Clients!WithFlags(c, {"OFFER"}))
    OBVIOUS
  <1>5. Becomes(c, Clients!GotConnected(c))
    BY DEF Clients!GotConnected
  <1>6. Becomes(c, Clients!Accepted(c))
    BY DEF Clients!Accepted
  <1>7. Becomes(c, c)
    OBVIOUS
  <1> HIDE DEF Becomes
  <1> QED
    BY <1>1, <1>2, <1>3, <1>4, <1>5, <1>6, <1>7

(* A list whose clients have changed in this way.                           *)
LEMMA AllBecome ==
    ASSUME NEW n \in Nat, NEW list \in Lists(n),
           NEW new, new = [i \in DOMAIN list |-> new[i]],
           \A i \in DOMAIN list : Becomes(list[i], new[i])
    PROVE  new \in Lists(n) /\ Grows(list, new)
  BY Altered DEF Becomes

LEMMA MarkKeeps ==
    ASSUME NEW n \in Nat, NEW list \in Lists(n), NEW a
    PROVE  Clients!Mark(list, a) \in Lists(n) /\ Grows(list, Clients!Mark(list, a))
  <1> DEFINE new == Clients!Mark(list, a)
  <1>1. new = [i \in DOMAIN list |-> IF list[i].at = a THEN Clients!Marked(list[i]) ELSE list[i]]
    BY DEF Clients!Mark, Clients!Update
  <1>2. \A i \in DOMAIN list : list[i] \in Client
    BY ListIs
  <1>3. \A i \in DOMAIN list : Becomes(list[i], new[i])
    BY <1>1, <1>2, ChangesKeep
  <1> HIDE DEF new
  <1> QED
    BY <1>1, <1>3, AllBecome DEF new

LEMMA OpenedKeeps ==
    ASSUME NEW n \in Nat, NEW list \in Lists(n), NEW a
    PROVE  Clients!Update(list, a, Clients!Opened) \in Lists(n)
  <1> DEFINE new == Clients!Update(list, a, Clients!Opened)
  <1>1. new = [i \in DOMAIN list |-> IF list[i].at = a THEN Clients!Opened(list[i]) ELSE list[i]]
    BY DEF Clients!Update
  <1>2. \A i \in DOMAIN list : list[i] \in Client
    BY ListIs
  <1>3. \A i \in DOMAIN list : Becomes(list[i], new[i])
    BY <1>1, <1>2, ChangesKeep
  <1> HIDE DEF new
  <1> QED
    BY <1>1, <1>3, AllBecome DEF new

(* dcc_open changes the flags of a client, or erases it.                    *)
LEMMA OpenKeeps ==
    ASSUME NEW n \in 0 .. MaxClients + 1, NEW list \in Lists(n), NEW a,
           NEW outcome \in Clients!Outcomes
    PROVE  Clients!DccOpen(list, a, outcome) \in Lists(n)
  <1>1. CASE outcome = "open"
    <2>1. Clients!DccOpen(list, a, outcome) = Clients!Update(list, a, Clients!Opened)
      BY <1>1 DEF Clients!DccOpen
    <2> QED
      BY <2>1, OpenedKeeps, BoundIs
  <1>2. CASE outcome = "no address"
    BY <1>2 DEF Clients!DccOpen
  <1>3. CASE outcome = "no socket"
    <2>1. Clients!DccOpen(list, a, outcome) = Clients!DccErase(list, a)
      BY <1>3 DEF Clients!DccOpen
    <2> QED
      BY <2>1, EraseKeeps
  <1> QED
    BY <1>1, <1>2, <1>3 DEF Clients!Outcomes

(* register_dcc_offer leaves each client at its place.                      *)
LEMMA RegisterKeeps ==
    ASSUME NEW list \in Lists(MaxClients), NEW type \in Types, NEW user \in Users,
           NEW description \in Files \cup {Clients!Chat}, NEW good
    PROVE  /\ Clients!RegisterDccOffer(list, type, user, description, good) \in Lists(MaxClients + 1)
           /\ Grows(list, Clients!RegisterDccOffer(list, type, user, description, good))
  <1> DEFINE s == Clients!Searched(list, type, user, description)
             r == Clients!RegisterDccOffer(list, type, user, description, good)
             Offer(c) == Clients!WithFlags(c, {"OFFER"})
  <1>1. s.list \in Lists(MaxClients + 1) /\ Grows(list, s.list)
    BY SearchedKeeps
  <1>2. \/ r = s.list
        \/ r = [i \in DOMAIN s.list |->
                   IF s.list[i].at = s.client.at THEN Offer(s.list[i]) ELSE s.list[i]]
        \/ r = [i \in DOMAIN s.list |->
                   IF s.list[i].at = s.client.at THEN Clients!Forgotten(s.list[i]) ELSE s.list[i]]
    BY DEF Clients!RegisterDccOffer, Clients!Update
  <1> DEFINE l == s.list
  <1>3. l \in Lists(MaxClients + 1) /\ Grows(list, l) /\ MaxClients + 1 \in Nat
    BY <1>1, BoundIs
  <1>4. \A i \in DOMAIN l : /\ Becomes(l[i], l[i]) /\ Becomes(l[i], Offer(l[i]))
                            /\ Becomes(l[i], Clients!Forgotten(l[i]))
    <2>1. \A i \in DOMAIN l : l[i] \in Client
      BY <1>3, ListIs
    <2> HIDE DEF l
    <2> QED
      BY <2>1, ChangesKeep
  <1>5. \/ r = l
        \/ /\ r = [i \in DOMAIN l |-> r[i]]
           /\ \A i \in DOMAIN l : Becomes(l[i], r[i])
    <2> HIDE DEF r, Offer
    <2> QED
      BY <1>2, <1>4
  <1> HIDE DEF l, r
  <1>6. r = l \/ (r \in Lists(MaxClients + 1) /\ Grows(l, r))
    BY <1>3, <1>5, AllBecome
  <1>7. Grows(l, r) => Grows(list, r)
    <2>1. Len(list) \in Nat /\ Len(l) \in Nat
      BY <1>3, ListIs, BoundIs
    <2>2. r \in Lists(MaxClients + 1) => Len(r) \in Nat
      BY <1>3, ListIs
    <2> QED
      BY <1>3, <1>6, <2>1, <2>2 DEF Grows
  <1> QED
    BY <1>3, <1>6, <1>7 DEF r

----------------------------------------------------------------------------
(* The pointer of the walk.                                                 *)

(* An address that is listed is found where it is.                          *)
LEMMA PlaceIs ==
    ASSUME NEW n \in Nat, NEW list \in Lists(n), NEW i \in DOMAIN list
    PROVE  Place(list, list[i].at) = i
  <1>1. Len(list) \in Nat /\ DOMAIN list = 1 .. Len(list) /\ Distinct(list)
    BY ListIs
  <1>2. Place(list, list[i].at) \in 1 .. Len(list) /\ list[Place(list, list[i].at)].at = list[i].at
    BY <1>1, FirstIs
  <1> QED
    BY <1>1, <1>2 DEF Distinct

(* What Place finds is there.                                               *)
LEMMA PlaceHas ==
    ASSUME NEW list, Len(list) \in Nat, NEW a
    PROVE  \/ Place(list, a) = 0
           \/ Place(list, a) \in 1 .. Len(list) /\ list[Place(list, a)].at = a
  <1>1. CASE \E i \in 1 .. Len(list) : list[i].at = a
    BY <1>1, FirstIs
  <1>2. CASE ~\E i \in 1 .. Len(list) : list[i].at = a
    BY <1>2 DEF Place, Clients!SelectInSeq
  <1> QED
    BY <1>1, <1>2

LEMMA PointedIs ==
    ASSUME NEW list, NEW l
    PROVE  Clients!Pointed(list, l) =
               IF l = Clients!Root /\ list # <<>> THEN <<list[1]>>
               ELSE IF Place(list, l) \in 1 .. Len(list) - 1 THEN <<list[Place(list, l) + 1]>>
               ELSE <<>>
  BY DEF Clients!Pointed, Place

(* A link leads to the same client while the list only grows.               *)
LEMMA LinkLeads ==
    ASSUME NEW n \in Nat, NEW list \in Lists(n), NEW m \in Nat, NEW new \in Lists(m),
           Grows(list, new), NEW l, Clients!Pointed(list, l) # <<>>
    PROVE  /\ Clients!Pointed(new, l) # <<>>
           /\ Clients!Pointed(new, l)[1].at \in Clients!Addresses(new)
  <1>1. /\ list \in Seq(Client) /\ Len(list) \in Nat /\ DOMAIN list = 1 .. Len(list)
    BY ListIs
  <1>2. /\ new \in Seq(Client) /\ Len(new) \in Nat /\ DOMAIN new = 1 .. Len(new)
    BY ListIs
  <1>3. Len(list) =< Len(new) /\ \A i \in 1 .. Len(list) : new[i].at = list[i].at
    BY DEF Grows
  <1>4. CASE l = Clients!Root /\ list # <<>>
    <2>1. 1 \in 1 .. Len(new) /\ new # <<>>
      BY <1>1, <1>2, <1>3, <1>4
    <2>2. Clients!Pointed(new, l) = <<new[1]>>
      BY <1>4, <2>1, PointedIs
    <2> QED
      BY <1>2, <2>1, <2>2 DEF Clients!Addresses
  <1>5. CASE ~(l = Clients!Root /\ list # <<>>)
    <2> DEFINE k == Place(list, l)
    <2>1. k \in 1 .. Len(list) - 1
      BY <1>5, PointedIs
    <2>2. k \in 1 .. Len(list) /\ list[k].at = l
      <3>1. k = 0 \/ (k \in 1 .. Len(list) /\ list[k].at = l)
        BY <1>1, PlaceHas
      <3> QED
        BY <2>1, <3>1
    <2> HIDE DEF k
    <2>3. k \in DOMAIN new /\ new[k].at = l /\ k \in 1 .. Len(new) - 1 /\ k + 1 \in DOMAIN new
      BY <1>1, <1>2, <1>3, <2>1, <2>2
    <2>4. Place(new, l) = k
      BY <2>3, PlaceIs
    <2>5. \/ Clients!Pointed(new, l) = <<new[1]>> /\ 1 \in DOMAIN new
          \/ Clients!Pointed(new, l) = <<new[k + 1]>>
      <3>1. Clients!Pointed(new, l) =
               IF l = Clients!Root /\ new # <<>> THEN <<new[1]>>
               ELSE IF Place(new, l) \in 1 .. Len(new) - 1 THEN <<new[Place(new, l) + 1]>>
               ELSE <<>>
        BY PointedIs
      <3>2. 1 \in DOMAIN new
        BY <1>2, <2>3
      <3> QED
        BY <2>3, <2>4, <3>1, <3>2
    <2>6. PICK i \in DOMAIN new : Clients!Pointed(new, l) = <<new[i]>>
      BY <2>3, <2>5
    <2>7. new[i].at \in Clients!Addresses(new)
      BY DEF Clients!Addresses
    <2> QED
      BY <2>6, <2>7
  <1> QED
    BY <1>4, <1>5

----------------------------------------------------------------------------
(* The invariant.                                                           *)

(* Only a walk has clients to erase, and what it holds is listed.           *)
CInv ==
    /\ ClientList \in Lists(MaxClients)
    /\ link \in {Clients!Nowhere, Clients!Root} \cup Clients!Addresses(ClientList)
    /\ deadlist \in Seq(Clients!Addresses(ClientList))
    /\ Clients!Quiet => deadlist = <<>>
    /\ last_chat_req \in Users \cup {Clients!None}

LEMMA InitCInv == Clients!Init => CInv
  BY BoundIs DEF Clients!Init, CInv, Lists, Distinct, Clients!Quiet

(* What the commands and the lines do, between two walks.                   *)
LEMMA QuietKeeps ==
    ASSUME CInv, Clients!Quiet, ClientList' \in Lists(MaxClients), UNCHANGED <<deadlist, link>>,
           last_chat_req' \in Users \cup {Clients!None}
    PROVE  CInv'
  BY DEF CInv, Clients!Quiet

(* A list that is Fresh has kept to the bound.                              *)
LEMMA FreshIs ==
    ASSUME NEW list \in Lists(MaxClients + 1), Clients!Fresh(list)
    PROVE  list \in Lists(MaxClients)
  BY DEF Lists, Clients!Fresh

(* Members of a larger set.                                                 *)
LEMMA SeqIn ==
    ASSUME NEW S, NEW T, S \subseteq T, NEW s \in Seq(S)
    PROVE  s \in Seq(T)
  OBVIOUS

----------------------------------------------------------------------------
(* The commands and the lines of the server.                                *)

(* What a step that runs between two walks starts from.                     *)
LEMMA QuietStart ==
    ASSUME CInv
    PROVE  /\ MaxClients \in 0 .. MaxClients + 1 /\ MaxClients + 1 \in 0 .. MaxClients + 1
           /\ MaxClients \in Nat /\ MaxClients + 1 \in Nat
           /\ ClientList \in Lists(MaxClients) /\ last_chat_req \in Users \cup {Clients!None}
  BY BoundIs DEF CInv

LEMMA OfferedKeeps ==
    ASSUME CInv, NEW type \in Types, NEW user \in Users,
           NEW description \in Files \cup {Clients!Chat}, NEW outcome \in Clients!Outcomes
    PROVE  Clients!Offered(ClientList, type, user, description, outcome) \in Lists(MaxClients + 1)
  <1> DEFINE s == Clients!Searched(ClientList, type, user, description)
  <1>1. s.list \in Lists(MaxClients + 1)
    BY QuietStart, SearchedKeeps
  <1>2. Clients!DccOpen(s.list, s.client.at, outcome) \in Lists(MaxClients + 1)
    BY <1>1, QuietStart, OpenKeeps
  <1> QED
    BY <1>1, <1>2 DEF Clients!Offered

LEMMA DccChatKeeps ==
    ASSUME CInv, "CHAT" \in Types, NEW user \in Users, NEW outcome \in Clients!Outcomes,
           Clients!DccChat(user, outcome)
    PROVE  CInv'
  <1>1. ClientList' \in Lists(MaxClients + 1)
    BY OfferedKeeps DEF Clients!DccChat
  <1>2. ClientList' \in Lists(MaxClients)
    BY <1>1, FreshIs DEF Clients!DccChat
  <1> QED
    BY <1>2, QuietStart, QuietKeeps DEF Clients!DccChat

LEMMA FilesendKeeps ==
    ASSUME CInv, NEW type \in Types, NEW user \in Users, NEW file \in Files,
           NEW outcome \in Clients!Outcomes, Clients!RealDccFilesend(type, user, file, outcome)
    PROVE  CInv'
  <1>1. ClientList' \in Lists(MaxClients + 1)
    BY OfferedKeeps DEF Clients!RealDccFilesend
  <1>2. ClientList' \in Lists(MaxClients)
    BY <1>1, FreshIs DEF Clients!RealDccFilesend
  <1> QED
    BY <1>2, QuietStart, QuietKeeps DEF Clients!RealDccFilesend

LEMMA GetfileKeeps ==
    ASSUME CInv, NEW c, NEW outcome \in Clients!Outcomes, NEW written, Clients!DccGetfile(c, outcome, written)
    PROVE  CInv'
  <1> DEFINE opened == Clients!DccOpen(ClientList, c.at, outcome)
  <1>1. opened \in Lists(MaxClients)
    BY QuietStart, OpenKeeps
  <1>2. Clients!Mark(opened, c.at) \in Lists(MaxClients)
    <2> HIDE DEF opened
    <2> QED
      BY <1>1, QuietStart, MarkKeeps
  <1>3. ClientList' \in Lists(MaxClients)
    BY <1>1, <1>2 DEF Clients!DccGetfile
  <1> QED
    BY <1>3, QuietStart, QuietKeeps DEF Clients!DccGetfile

LEMMA ChatBackKeeps ==
    ASSUME CInv, NEW outcome \in Clients!Outcomes, Clients!ChatBack(outcome)
    PROVE  CInv'
  <1> DEFINE found == Clients!Found(ClientList, "CHAT", last_chat_req, Clients!Chat, {FALSE})
  <1>1. Clients!DccOpen(ClientList, found[1].at, outcome) \in Lists(MaxClients)
    BY QuietStart, OpenKeeps
  <1>2. ClientList' = ClientList \/ ClientList' = Clients!DccOpen(ClientList, found[1].at, outcome)
    BY DEF Clients!ChatBack
  <1>3. last_chat_req' = Clients!None \/ last_chat_req' = last_chat_req
    BY DEF Clients!ChatBack
  <1> QED
    BY <1>1, <1>2, <1>3, QuietStart, QuietKeeps DEF Clients!ChatBack

LEMMA NoChatKeeps ==
    ASSUME CInv, Clients!NoChat
    PROVE  CInv'
  <1> DEFINE found == Clients!Found(ClientList, "CHAT", last_chat_req, Clients!None, Clients!Either)
  <1>1. Clients!DccErase(ClientList, found[1].at) \in Lists(MaxClients)
    BY QuietStart, EraseKeeps
  <1>2. ClientList' = ClientList \/ ClientList' = Clients!DccErase(ClientList, found[1].at)
    BY DEF Clients!NoChat
  <1> QED
    BY <1>1, <1>2, QuietStart, QuietKeeps DEF Clients!NoChat

LEMMA CloseNumKeeps ==
    ASSUME CInv, NEW number, Clients!CloseNum(number)
    PROVE  CInv'
  <1>1. Clients!DccErase(ClientList, ClientList[number].at) \in Lists(MaxClients)
    BY QuietStart, EraseKeeps
  <1>2. ClientList' = ClientList \/ ClientList' = Clients!DccErase(ClientList, ClientList[number].at)
    BY DEF Clients!CloseNum
  <1> QED
    BY <1>1, <1>2, QuietStart, QuietKeeps DEF Clients!CloseNum

LEMMA CloseAllKeeps ==
    ASSUME CInv, Clients!CloseAll
    PROVE  CInv'
  <1>1. ClientList' \in Lists(MaxClients)
    BY QuietStart, ErasedAtKeeps DEF Clients!CloseAll
  <1> QED
    BY <1>1, QuietStart, QuietKeeps DEF Clients!CloseAll

LEMMA CloseEachKeeps ==
    ASSUME CInv, NEW types, NEW users, Clients!CloseEach(types, users)
    PROVE  CInv'
  <1>1. \E places : ClientList' = Clients!ErasedAt(ClientList, places)
    BY DEF Clients!CloseEach
  <1>2. ClientList' \in Lists(MaxClients)
    BY <1>1, QuietStart, ErasedAtKeeps
  <1> QED
    BY <1>2, QuietStart, QuietKeeps DEF Clients!CloseEach

LEMMA CloseFilenameKeeps ==
    ASSUME CInv, NEW type, NEW user, NEW description, Clients!CloseFilename(type, user, description)
    PROVE  CInv'
  <1>1. \E a : ClientList' = Clients!DccErase(ClientList, a)
    BY DEF Clients!CloseFilename
  <1>2. ClientList' \in Lists(MaxClients)
    BY <1>1, QuietStart, EraseKeeps
  <1> QED
    BY <1>2, QuietStart, QuietKeeps DEF Clients!CloseFilename

LEMMA RejectKeeps ==
    ASSUME CInv, NEW type, NEW user, Clients!DccReject(type, user)
    PROVE  CInv'
  <1>1. \E a : ClientList' = Clients!Mark(ClientList, a)
    BY DEF Clients!DccReject
  <1>2. ClientList' \in Lists(MaxClients)
    BY <1>1, QuietStart, MarkKeeps
  <1> QED
    BY <1>2, QuietStart, QuietKeeps DEF Clients!DccReject

LEMMA IdleKeeps ==
    ASSUME CInv, NEW a, Clients!DccCheckIdle(a)
    PROVE  CInv'
  <1>1. ClientList' \in Lists(MaxClients)
    BY QuietStart, EraseKeeps DEF Clients!DccCheckIdle
  <1> QED
    BY <1>1, QuietStart, QuietKeeps DEF Clients!DccCheckIdle

LEMMA RenameKeeps ==
    ASSUME CInv, NEW user, NEW description, NEW new \in Files, Clients!DccRename(user, description, new)
    PROVE  CInv'
  <1> DEFINE a == Clients!Found(ClientList, "GET", user, description, {FALSE})[1].at
             Named(c) == [c EXCEPT !.description = new]
  <1>1. ClientList' = [i \in DOMAIN ClientList |->
                          IF ClientList[i].at = a THEN Named(ClientList[i]) ELSE ClientList[i]]
    BY DEF Clients!DccRename, Clients!Update
  <1>2. \A c \in Client : Becomes(c, Named(c)) /\ Becomes(c, c)
    BY DEF Becomes, Client
  <1> HIDE DEF a, Named
  <1>3. \A i \in DOMAIN ClientList : ClientList[i] \in Client
    BY QuietStart, ListIs
  <1>4. /\ ClientList' = [i \in DOMAIN ClientList |-> ClientList'[i]]
        /\ \A i \in DOMAIN ClientList : Becomes(ClientList[i], ClientList'[i])
    BY <1>1, <1>2, <1>3
  <1>5. ClientList' \in Lists(MaxClients)
    BY <1>4, QuietStart, AllBecome
  <1> QED
    BY <1>5, QuietStart, QuietKeeps DEF Clients!DccRename

LEMMA CheckListKeeps ==
    ASSUME CInv, NEW user, Clients!CheckDccList(user)
    PROVE  CInv'
  <1>1. ClientList' = [i \in DOMAIN ClientList |->
                          IF ClientList[i].user = user /\ "ACTIVE" \notin ClientList[i].flags
                          THEN Clients!Marked(ClientList[i]) ELSE ClientList[i]]
    BY DEF Clients!CheckDccList
  <1>2. \A i \in DOMAIN ClientList : ClientList[i] \in Client
    BY QuietStart, ListIs
  <1>3. \A i \in DOMAIN ClientList : /\ Becomes(ClientList[i], ClientList[i])
                                     /\ Becomes(ClientList[i], Clients!Marked(ClientList[i]))
    BY <1>2, ChangesKeep
  <1>4. /\ ClientList' = [i \in DOMAIN ClientList |-> ClientList'[i]]
        /\ \A i \in DOMAIN ClientList : Becomes(ClientList[i], ClientList'[i])
    BY <1>1, <1>3
  <1>5. ClientList' \in Lists(MaxClients)
    BY <1>4, QuietStart, AllBecome
  <1> QED
    BY <1>5, QuietStart, QuietKeeps DEF Clients!CheckDccList

(* What an offer is made of.                                                *)
LEMMA OfferIs ==
    ASSUME NEW o \in Clients!Offers
    PROVE  o.type \in Types /\ o.user \in Users /\ o.description \in Files \cup {Clients!Chat}
  BY DEF Clients!Offers, Clients!OfferTypes

LEMMA DoDccKeeps ==
    ASSUME CInv, NEW o \in Clients!Offers, Clients!DoDcc(o.type, o.user, o.description, o.good)
    PROVE  CInv'
  <1>1. o.type \in Types /\ o.user \in Users /\ o.description \in Files \cup {Clients!Chat}
    BY OfferIs
  <1>2. Clients!RegisterDccOffer(ClientList, o.type, o.user, o.description, o.good) \in Lists(MaxClients + 1)
    BY <1>1, QuietStart, RegisterKeeps
  <1>3. ClientList' \in Lists(MaxClients)
    BY <1>2, FreshIs DEF Clients!DoDcc
  <1>4. last_chat_req' \in Users \cup {Clients!None}
    BY <1>1, QuietStart DEF Clients!DoDcc
  <1> QED
    BY <1>3, <1>4, QuietKeeps DEF Clients!DoDcc

----------------------------------------------------------------------------
(* The walk.                                                                *)

(* What the handlers make of a client.                                      *)
LEMMA HandledIs ==
    ASSUME NEW c \in Client, NEW d \in Clients!Handled(c)
    PROVE  Becomes(c, d)
  <1>1. Becomes(c, c) /\ Becomes(c, Clients!Marked(c)) /\ Becomes(c, Clients!Accepted(c))
    BY ChangesKeep
  <1>2. Becomes(c, Clients!Marked(Clients!Accepted(c)))
    <2>1. Clients!Accepted(c) \in Client
      BY <1>1 DEF Becomes
    <2>2. Becomes(Clients!Accepted(c), Clients!Marked(Clients!Accepted(c)))
      BY <2>1, ChangesKeep
    <2> QED
      BY <1>1, <2>2 DEF Becomes
  <1> QED
    BY <1>1, <1>2 DEF Clients!Handled

LEMMA VisitKeeps ==
    ASSUME CInv, NEW c \in Clients!ToSet(ClientList), NEW connected \in BOOLEAN,
           NEW readable \in BOOLEAN, NEW offer \in Clients!Offers,
           Clients!Visit(c, connected, readable, offer)
    PROVE  CInv'
  <1> DEFINE c1 == IF connected THEN Clients!GotConnected(c) ELSE c
             there == Clients!Pointed(ClientList', link)
  <1>1. PICK c2 \in IF readable THEN Clients!Handled(c1) ELSE {c1} :
            LET list == Clients!Update(ClientList, c.at, LAMBDA x : c2)
            IN \/ ClientList' = list
               \/ ClientList' = Clients!RegisterDccOffer(list, offer.type, offer.user, offer.description, offer.good)
    BY DEF Clients!Visit
  <1> DEFINE list == [i \in DOMAIN ClientList |-> IF ClientList[i].at = c.at THEN c2 ELSE ClientList[i]]
  <1>2. \/ ClientList' = list
        \/ ClientList' = Clients!RegisterDccOffer(list, offer.type, offer.user, offer.description, offer.good)
    BY <1>1 DEF Clients!Update
  <1>3. /\ ClientList \in Lists(MaxClients) /\ Len(ClientList) \in Nat
        /\ DOMAIN ClientList = 1 .. Len(ClientList) /\ Distinct(ClientList)
        /\ \A i \in 1 .. Len(ClientList) : ClientList[i] \in Client
    BY QuietStart, ListIs
  <1>4. PICK k \in DOMAIN ClientList : c = ClientList[k]
    BY <1>3 DEF Clients!ToSet
  <1>5. Becomes(c, c2)
    <2>1. c \in Client
      BY <1>3, <1>4
    <2>2. Becomes(c, c1)
      BY <2>1, ChangesKeep
    <2>3. Becomes(c1, c2)
      <3>1. c1 \in Client
        BY <2>2 DEF Becomes
      <3> HIDE DEF c1
      <3> QED
        BY <1>1, <3>1, HandledIs, ChangesKeep
    <2> QED
      BY <2>2, <2>3 DEF Becomes
  <1>6. list \in Lists(MaxClients) /\ Grows(ClientList, list)
    <2>1. \A i \in DOMAIN ClientList : ClientList[i].at = c.at => i = k
      BY <1>3, <1>4 DEF Distinct
    <2>2. \A i \in DOMAIN ClientList : Becomes(ClientList[i], ClientList[i])
      BY <1>3, ChangesKeep
    <2>3. \A i \in DOMAIN ClientList : Becomes(ClientList[i], list[i])
      BY <1>4, <1>5, <2>1, <2>2
    <2>4. list = [i \in DOMAIN ClientList |-> list[i]]
      OBVIOUS
    <2> HIDE DEF list
    <2> QED
      BY <2>3, <2>4, QuietStart, AllBecome
  <1> HIDE DEF list
  <1>7. ClientList' \in Lists(MaxClients) /\ Grows(ClientList, ClientList')
    <2>1. offer.type \in Types /\ offer.user \in Users /\ offer.description \in Files \cup {Clients!Chat}
      BY OfferIs
    <2> DEFINE r == Clients!RegisterDccOffer(list, offer.type, offer.user, offer.description, offer.good)
    <2>2. r \in Lists(MaxClients + 1) /\ Grows(list, r)
      BY <1>6, <2>1, RegisterKeeps
    <2>3. Grows(ClientList, r)
      <3> HIDE DEF r
      <3>1. Len(list) \in Nat /\ Len(r) \in Nat
        BY <1>6, <2>2, ListIs, QuietStart
      <3> QED
        BY <1>3, <1>6, <2>2, <3>1 DEF Grows
    <2>4. Clients!Fresh(ClientList')
      BY DEF Clients!Visit
    <2> HIDE DEF r
    <2>5. CASE ClientList' = r
      BY <2>2, <2>3, <2>4, <2>5, FreshIs
    <2> QED
      BY <1>2, <1>6, <2>5 DEF r
  <1>8. there # <<>> /\ there[1].at \in Clients!Addresses(ClientList')
    <2>1. Clients!Pointed(ClientList, link) # <<>>
      BY DEF Clients!Visit
    <2> DEFINE new == ClientList'
    <2>2. new \in Lists(MaxClients) /\ Grows(ClientList, new)
      BY <1>7
    <2> HIDE DEF new
    <2>3. Clients!Pointed(new, link) # <<>> /\ Clients!Pointed(new, link)[1].at \in Clients!Addresses(new)
      BY <2>1, <2>2, QuietStart, LinkLeads
    <2> QED
      BY <2>3 DEF new
  <1>9. /\ deadlist' = IF Clients!IsDead(c) THEN <<there[1].at>> \o deadlist ELSE deadlist
        /\ link' = there[1].at /\ last_chat_req' = last_chat_req
    BY <1>8 DEF Clients!Visit
  <1>10. deadlist \in Seq(Clients!Addresses(ClientList'))
    <2> DEFINE new == ClientList'
               S == Clients!Addresses(ClientList)
               T == Clients!Addresses(new)
    <2>1. S \subseteq T
      <3>1. new \in Lists(MaxClients) /\ Grows(ClientList, new)
        BY <1>7
      <3> HIDE DEF new
      <3> QED
        BY <3>1, QuietStart, GrowsAddresses
    <2>2. deadlist \in Seq(S)
      BY DEF CInv
    <2> HIDE DEF S, T
    <2>3. deadlist \in Seq(T)
      BY <2>1, <2>2, SeqIn
    <2> QED
      BY <2>3 DEF T
  <1>11. deadlist' \in Seq(Clients!Addresses(ClientList'))
    <2> DEFINE T == Clients!Addresses(ClientList')
    <2>1. there[1].at \in T /\ deadlist \in Seq(T)
      BY <1>8, <1>10
    <2> HIDE DEF T, there
    <2>2. <<there[1].at>> \o deadlist \in Seq(T)
      BY <2>1, ConcatProperties
    <2> QED
      BY <1>9, <2>1, <2>2 DEF T, there
  <1>12. link' # Clients!Nowhere
    <2> DEFINE new == ClientList'
    <2>1. new \in Lists(MaxClients)
      BY <1>7
    <2>2. \A d \in Client : d.at \in Nat
      BY BoundIs DEF Client
    <2> HIDE DEF new
    <2>3. \A a \in Clients!Addresses(new) : a \in Nat
      <3>1. DOMAIN new = 1 .. Len(new) /\ \A i \in 1 .. Len(new) : new[i] \in Client
        BY <2>1, QuietStart, ListIs
      <3> QED
        BY <2>2, <3>1 DEF Clients!Addresses
    <2> USE DEF new
    <2>4. link' \in Nat
      BY <1>8, <1>9, <2>3
    <2> QED
      BY <2>4 DEF Clients!Nowhere
  <1> QED
    BY <1>7, <1>8, <1>9, <1>11, <1>12, QuietStart DEF CInv, Clients!Quiet

LEMMA ReallyEraseKeeps ==
    ASSUME CInv, Clients!DccReallyErase
    PROVE  CInv'
  <1>1. Len(deadlist) \in Nat
    BY DEF CInv
  <1>2. Clients!ErasedAll(ClientList, deadlist) \in Lists(MaxClients)
    BY <1>1, QuietStart, ErasedAllKeeps
  <1> QED
    BY <1>2, QuietStart DEF CInv, Clients!DccReallyErase, Clients!Quiet

LEMMA CheckKeeps ==
    ASSUME CInv, Clients!DccCheck
    PROVE  CInv'
  BY DEF CInv, Clients!DccCheck, Clients!Quiet, Clients!Root, Clients!Nowhere

----------------------------------------------------------------------------
(* Every step.                                                              *)

LEMMA CloseKeepsList == CInv /\ Clients!DccClose => CInv'
  <1> SUFFICES ASSUME CInv, Clients!DccClose PROVE CInv'
    OBVIOUS
  <1>1. CASE \E number \in DOMAIN ClientList : Clients!CloseNum(number)
    BY <1>1, CloseNumKeeps
  <1>2. CASE Clients!CloseAll
    BY <1>2, CloseAllKeeps
  <1>3. CASE \E types, users : Clients!CloseEach(types, users)
    BY <1>3, CloseEachKeeps
  <1>4. CASE \E type \in Types, user \in Users, description \in Files \cup {Clients!None} :
                 Clients!CloseFilename(type, user, description)
    BY <1>4, CloseFilenameKeeps
  <1>5. \/ \E type \in Types : Clients!CloseTypeAll(type)
        \/ \E user \in Users : Clients!CloseNickAll(user)
        \/ \E type \in Types, user \in Users : Clients!CloseTypeNickAll(type, user)
        => \E types, users : Clients!CloseEach(types, users)
    BY DEF Clients!CloseTypeAll, Clients!CloseNickAll, Clients!CloseTypeNickAll
  <1> QED
    BY <1>1, <1>2, <1>3, <1>4, <1>5 DEF Clients!DccClose

LEMMA GetKeeps == CInv /\ Clients!DccGet => CInv'
  <1> SUFFICES ASSUME CInv, Clients!DccGet PROVE CInv'
    OBVIOUS
  <1>1. ASSUME NEW type, NEW user, NEW description, NEW outcome \in Clients!Outcomes, NEW written,
               Clients!GetByName(type, user, description, outcome, written)
        PROVE  CInv'
    <2>1. \E c : Clients!DccGetfile(c, outcome, written)
      BY <1>1 DEF Clients!GetByName
    <2> QED
      BY <2>1, GetfileKeeps
  <1>2. ASSUME NEW number, NEW outcome \in Clients!Outcomes, NEW written,
               Clients!GetByNumber(number, outcome, written)
        PROVE  CInv'
    BY <1>2, GetfileKeeps DEF Clients!GetByNumber
  <1> QED
    BY <1>1, <1>2 DEF Clients!DccGet

LEMMA CommandKeeps == CInv /\ Clients!Command => CInv'
  <1> SUFFICES ASSUME CInv, Clients!Command PROVE CInv'
    OBVIOUS
  <1>1. CASE "CHAT" \in Types /\ \E user \in Users, outcome \in Clients!Outcomes : Clients!DccChat(user, outcome)
    BY <1>1, DccChatKeeps
  <1>2. CASE \E user \in Users, file \in Files, outcome \in Clients!Outcomes :
                 \/ "SEND" \in Types /\ Clients!DccFilesend(user, file, outcome)
                 \/ "RESEND" \in Types /\ Clients!DccResend(user, file, outcome)
    BY <1>2, FilesendKeeps DEF Clients!DccFilesend, Clients!DccResend
  <1>3. CASE Clients!DccGet
    BY <1>3, GetKeeps
  <1>4. CASE \E outcome \in Clients!Outcomes : Clients!ChatBack(outcome)
    BY <1>4, ChatBackKeeps
  <1>5. CASE Clients!NoChat
    BY <1>5, NoChatKeeps
  <1>6. CASE Clients!DccClose
    BY <1>6, CloseKeepsList
  <1>7. CASE \E user \in Users, description \in Files \cup {Clients!None}, new \in Files :
                 Clients!DccRename(user, description, new)
    BY <1>7, RenameKeeps
  <1>8. CASE \E a \in Clients!Addresses(ClientList) : Clients!DccCheckIdle(a)
    BY <1>8, IdleKeeps
  <1> QED
    BY <1>1, <1>2, <1>3, <1>4, <1>5, <1>6, <1>7, <1>8 DEF Clients!Command

LEMMA LineKeeps == CInv /\ Clients!Line => CInv'
  <1> SUFFICES ASSUME CInv, Clients!Line PROVE CInv'
    OBVIOUS
  <1>1. CASE \E o \in Clients!Offers : Clients!DoDcc(o.type, o.user, o.description, o.good)
    BY <1>1, DoDccKeeps
  <1>2. CASE \E type \in Types, user \in Users : Clients!DccReject(type, user)
    BY <1>2, RejectKeeps
  <1>3. CASE \E user \in Users : Clients!CheckDccList(user)
    BY <1>3, CheckListKeeps
  <1> QED
    BY <1>1, <1>2, <1>3 DEF Clients!Line

LEMMA WalkKeeps == CInv /\ Clients!Walk => CInv'
  <1> SUFFICES ASSUME CInv, Clients!Walk PROVE CInv'
    OBVIOUS
  <1>1. CASE Clients!DccCheck
    BY <1>1, CheckKeeps
  <1>2. CASE \E c \in Clients!ToSet(ClientList), connected, readable \in BOOLEAN, offer \in Clients!Offers :
                 Clients!Visit(c, connected, readable, offer)
    BY <1>2, VisitKeeps
  <1>3. CASE Clients!DccReallyErase
    BY <1>3, ReallyEraseKeeps
  <1> QED
    BY <1>1, <1>2, <1>3 DEF Clients!Walk

LEMMA NextCInv == CInv /\ [Clients!Next]_(Clients!vars) => CInv'
  <1>1. CInv /\ UNCHANGED Clients!vars => CInv'
    BY DEF CInv, Clients!vars, Clients!Quiet
  <1> QED
    BY <1>1, CommandKeeps, LineKeeps, WalkKeeps DEF Clients!Next

(* In a behaviour of Jobs, the clients take their own steps or none.        *)
LEMMA ClientSteps == [JobsNext]_<<part, jobVars>> => [Clients!Next]_(Clients!vars)
  BY DEF JobsNext, jobVars, dccVars, Clients!vars

LEMMA ClientsInductive == JobsSpec => []CInv
  <1>1. JobsInit => CInv
    BY InitCInv DEF JobsInit
  <1> QED
    BY <1>1, NextCInv, ClientSteps, PTL DEF JobsSpec

(* The types of the list, of the walk and of what it has to erase.          *)
LEMMA ClientTypes == CInv => Clients!TypeOK
  <1> SUFFICES ASSUME CInv PROVE Clients!TypeOK
    OBVIOUS
  <1>1. ClientList \in Seq(Client) /\ DOMAIN ClientList = 1 .. Len(ClientList)
        /\ \A i \in 1 .. Len(ClientList) : ClientList[i] \in Client
    BY QuietStart, ListIs
  <1>2. Clients!Addresses(ClientList) \subseteq 1 .. MaxClients + 1
    BY <1>1 DEF Clients!Addresses, Client
  <1>3. deadlist \in Seq(1 .. MaxClients + 1)
    BY <1>2, SeqIn DEF CInv
  <1>4. link \in Clients!Nowhere .. MaxClients + 1
    BY <1>2, BoundIs DEF CInv, Clients!Nowhere, Clients!Root
  <1> QED
    BY <1>1, <1>3, <1>4 DEF CInv, Clients!TypeOK, Client

(* dcc_check's pointer leads into the list, nothing it has to erase has     *)
(* been freed, and the numbers that the user types are the positions, for   *)
(* whatever the handlers, the commands and the lines do with the list.      *)
THEOREM WalkNeverDangles == JobsSpec => []WalkIsSafe
  <1>1. ASSUME CInv PROVE WalkIsSafe
    <2>1. \A i \in DOMAIN ClientList : ClientList[i].dccnum = i
      BY <1>1, QuietStart, ListIs
    <2>2. Clients!ToSet(deadlist) \subseteq Clients!Addresses(ClientList)
      <3>1. deadlist \in Seq(Clients!Addresses(ClientList))
        BY <1>1 DEF CInv
      <3> QED
        BY <3>1 DEF Clients!ToSet
    <2> QED
      BY <1>1, <2>1, <2>2 DEF WalkIsSafe, Clients!WalkIsSafe, Clients!Numbered, CInv
  <1> QED
    BY <1>1, ClientsInductive, PTL

----------------------------------------------------------------------------
(* Processes: sets and sequences.                                           *)

(* Exec's copy of an operator of the library is the library's.              *)
LEMMA SameRemoveAt == ASSUME NEW s, NEW n PROVE Processes!RemoveAt(s, n) = RemoveAt(s, n)
  BY DEF Processes!RemoveAt, RemoveAt

(* A set of naturals with a bound has a greatest element.                   *)
LEMMA Greatest ==
    ASSUME NEW n \in Nat, NEW S \in SUBSET (0 .. n), S # {}
    PROVE  Processes!Max(S) \in S /\ \A y \in S : y =< Processes!Max(S)
  <1> DEFINE R == {n - y : y \in S}
  <1>1. R \in SUBSET Nat /\ R # {}
    <2>1. \A y \in S : n - y \in Nat
      OBVIOUS
    <2> QED
      BY <2>1
  <1> HIDE DEF R
  <1>2. PICK r \in R : \A y \in R : r =< y
    BY <1>1, Least
  <1> USE DEF R
  <1>3. PICK x \in S : r = n - x
    BY <1>2
  <1>4. \A y \in S : n - y \in R /\ y \in 0 .. n
    OBVIOUS
  <1>5. \A y \in S : x >= y
    <2> SUFFICES ASSUME NEW y \in S PROVE x >= y
      OBVIOUS
    <2>1. n - x =< n - y
      BY <1>2, <1>3, <1>4
    <2> QED
      BY <1>4, <2>1
  <1>6. Processes!Max(S) \in S /\ \A y \in S : Processes!Max(S) >= y
    BY <1>5 DEF Processes!Max
  <1>7. Processes!Max(S) \in 0 .. n
    BY <1>6
  <1> QED
    BY <1>4, <1>6, <1>7

----------------------------------------------------------------------------
(* The table.                                                               *)

Outputs == {"stdout", "stderr"}

Record ==
    [pid : Pids, fds : SUBSET Outputs, counter : 0 .. Limit, exited : BOOLEAN,
     server : -1 .. ServerCount, own : 1 .. ServerCount]

(* A process knows the index of its server, while that server is listed, and *)
(* otherwise of the nearest that stood before it, or -1.                    *)
Knows(p, names) ==
    /\ p.own \in Processes!ToSet(names) => p.server + 1 \in DOMAIN names /\ names[p.server + 1] = p.own
    /\ p.server + 1 \in 0 .. Len(names)
    /\ Processes!Stands(p, names)

Fit(names) == {p \in Record : Knows(p, names)}
Lasting(names) == {p \in Fit(names) : ~Processes!Finished(p)}
Table(names) == Seq({Processes!Empty} \cup Lasting(names))

(* An entry of the table is empty or a process that lasts.                  *)
LEMMA EntryIs ==
    ASSUME Processes!ExecAssumption, NEW names, NEW list \in Table(names), NEW i \in DOMAIN list,
           list[i] # Processes!Empty
    PROVE  list[i] \in Lasting(names)
  BY DEF Table

(* No process is taken for a hole.                                          *)
LEMMA NoHole ==
    ASSUME Processes!ExecAssumption, NEW p \in Record
    PROVE  p # Processes!Empty
  BY DEF Processes!ExecAssumption, Record, Processes!Empty

(* A process that is deleted leaves a table of the others.                  *)
LEMMA DeletedIs ==
    ASSUME NEW S, NEW list \in Seq({Processes!Empty} \cup S), NEW i \in DOMAIN list, NEW e
    PROVE  Processes!DeleteProcess([list EXCEPT ![i] = e], i) \in Seq({Processes!Empty} \cup S)
  <1> DEFINE l == [list EXCEPT ![i] = e]
             holes == [l EXCEPT ![i] = Processes!Empty]
             used == {0} \cup {j \in DOMAIN holes : holes[j] # Processes!Empty}
  <1>1. /\ Len(list) \in Nat /\ i \in 1 .. Len(list)
        /\ DOMAIN l = 1 .. Len(list) /\ Len(l) = Len(list)
    OBVIOUS
  <1>2. holes = [list EXCEPT ![i] = Processes!Empty]
    OBVIOUS
  <1>3. holes \in Seq({Processes!Empty} \cup S) /\ Len(holes) = Len(list)
    BY <1>2
  <1> HIDE DEF holes
  <1>4. used \in SUBSET (0 .. Len(list)) /\ used # {}
    BY <1>1, <1>3
  <1> HIDE DEF used
  <1>5. Processes!Max(used) \in 0 .. Len(list)
    BY <1>1, <1>4, Greatest
  <1>6. SubSeq(holes, 1, Processes!Max(used)) \in Seq({Processes!Empty} \cup S)
    BY <1>3, <1>5
  <1>7. Processes!DeleteProcess(l, i) = IF i = Len(l) THEN SubSeq(holes, 1, Processes!Max(used)) ELSE holes
    BY DEF Processes!DeleteProcess, holes, used
  <1> QED
    BY <1>3, <1>6, <1>7

(* A process that changes stays or is deleted.                              *)
LEMMA SettledIs ==
    ASSUME Processes!ExecAssumption, NEW names, NEW list \in Table(names), NEW i \in DOMAIN list,
           NEW e \in Fit(names)
    PROVE  Processes!Settled([list EXCEPT ![i] = e], i) \in Table(names)
  <1> DEFINE l == [list EXCEPT ![i] = e]
  <1>1. l[i] = e
    BY DEF Table
  <1>2. CASE Processes!Finished(e)
    <2>1. Processes!Settled(l, i) = Processes!DeleteProcess(l, i)
      BY <1>1, <1>2 DEF Processes!Settled
    <2> QED
      BY <2>1, DeletedIs DEF Table
  <1>3. CASE ~Processes!Finished(e)
    <2>1. Processes!Settled(l, i) = l
      BY <1>1, <1>3 DEF Processes!Settled
    <2>2. e \in Lasting(names)
      BY <1>3 DEF Lasting
    <2> QED
      BY <2>1, <2>2 DEF Table
  <1> QED
    BY <1>2, <1>3

(* What is known of the processes.                                          *)
Children == [Pids -> [state : {"none", "running", "exited"}, writes : SUBSET Outputs]]

(* A line counts, and the end of an output may be the end of its process.   *)
LEMMA ReadIs ==
    ASSUME Processes!ExecAssumption, NEW names, NEW list \in Table(names),
           NEW i \in DOMAIN list, list[i] # Processes!Empty, NEW out \in Outputs
    PROVE  Processes!Read(list, i, out) \in Table(names)
  <1> DEFINE p == list[i]
  <1>1. p \in Lasting(names) /\ p \in Record /\ Knows(p, names) /\ ~Processes!Finished(p)
    BY EntryIs DEF Lasting, Fit
  <1> HIDE DEF p
  <1>2. CASE out \in child[list[i].pid].writes
    <2> DEFINE e == [p EXCEPT !.counter = IF @ = Limit THEN @ ELSE @ + 1]
    <2>1. e \in Record
      BY <1>1 DEF Record, Processes!ExecAssumption
    <2>2. Knows(e, names) /\ ~Processes!Finished(e)
      BY <1>1 DEF Knows, Processes!Finished, Record, Processes!Stands
    <2>3. e \in Lasting(names)
      BY <2>1, <2>2 DEF Lasting, Fit
    <2>4. Processes!Read(list, i, out) = [list EXCEPT ![i] = e]
      BY <1>2 DEF Processes!Read, p
    <2> HIDE DEF e
    <2> QED
      BY <2>3, <2>4 DEF Table
  <1>3. CASE out \notin child[list[i].pid].writes
    <2> DEFINE e == [p EXCEPT !.fds = @ \ {out}]
    <2>1. e \in Record
      BY <1>1 DEF Record
    <2>2. Knows(e, names)
      BY <1>1 DEF Knows, Record, Processes!Stands
    <2>3. e \in Fit(names)
      BY <2>1, <2>2 DEF Fit
    <2>4. Processes!Read(list, i, out) = Processes!Settled([list EXCEPT ![i] = e], i)
      BY <1>3 DEF Processes!Read, p
    <2> HIDE DEF e
    <2> QED
      BY <2>3, <2>4, SettledIs
  <1> QED
    BY <1>2, <1>3

(* Both outputs of a process, unless the first has deleted it.              *)
LEMMA ReadBothIs ==
    ASSUME Processes!ExecAssumption, NEW names, NEW list \in Table(names), NEW i, NEW ready
    PROVE  Processes!ReadBoth(list, i, ready) \in Table(names)
  <1> DEFINE first == IF Processes!There(list, i) /\ <<i, "stdout">> \in ready
                      THEN Processes!Read(list, i, "stdout") ELSE list
  <1>1. first \in Table(names)
    BY ReadIs DEF Processes!There, Outputs
  <1> HIDE DEF first
  <1>2. CASE Processes!There(first, i)
    <2>1. Processes!Read(first, i, "stderr") \in Table(names)
      BY <1>1, <1>2, ReadIs DEF Processes!There, Outputs
    <2> QED
      BY <1>1, <2>1 DEF Processes!ReadBoth, first
  <1>3. CASE ~Processes!There(first, i)
    BY <1>1, <1>3 DEF Processes!ReadBoth, first
  <1> QED
    BY <1>2, <1>3

(* A process that has written too much is closed.                           *)
LEMMA LimitedIs ==
    ASSUME Processes!ExecAssumption, NEW names, NEW list \in Table(names), NEW i
    PROVE  Processes!Limited(list, i) \in Table(names)
  <1>1. CASE Processes!There(list, i)
    <2> DEFINE p == list[i]
               e == [p EXCEPT !.fds = {}]
    <2>1. i \in DOMAIN list /\ p \in Record /\ Knows(p, names)
      BY <1>1, EntryIs DEF Processes!There, Lasting, Fit
    <2> HIDE DEF p
    <2>2. e \in Record /\ Knows(e, names)
      BY <2>1 DEF Record, Knows, Processes!Stands
    <2>3. e \in Fit(names)
      BY <2>2 DEF Fit
    <2>4. [list EXCEPT ![i].fds = {}] = [list EXCEPT ![i] = e]
      BY <2>1 DEF p
    <2> HIDE DEF e
    <2>5. Processes!Settled([list EXCEPT ![i].fds = {}], i) \in Table(names)
      BY <2>1, <2>3, <2>4, SettledIs
    <2> QED
      BY <2>5 DEF Processes!Limited
  <1>2. CASE ~Processes!There(list, i)
    BY <1>2 DEF Processes!Limited
  <1> QED
    BY <1>1, <1>2

----------------------------------------------------------------------------
(* The loops over the table.                                                *)

(* Each of the loops ends with a table.                                     *)
LEMMA SweptIs ==
    ASSUME Processes!ExecAssumption, NEW names, NEW list \in Table(names), NEW n \in Nat,
           NEW T \in [Nat -> [Table(names) -> Table(names)]],
           NEW h, h[0] = list, \A k \in 1 .. n : h[k - 1] \in Table(names) => h[k] = T[k][h[k - 1]]
    PROVE  h[n] \in Table(names)
  <1> DEFINE Bad == {k \in 0 .. n : h[k] \notin Table(names)}
  <1>1. Bad \in SUBSET (0 .. n) /\ 0 \notin Bad
    OBVIOUS
  <1>2. ASSUME NEW k \in 1 .. n, k \in Bad PROVE k - 1 \in Bad
    <2>1. k \in Nat /\ k - 1 \in 0 .. n
      OBVIOUS
    <2>2. h[k - 1] \in Table(names) => T[k][h[k - 1]] \in Table(names)
      BY <2>1
    <2> QED
      BY <1>2, <2>1, <2>2
  <1> HIDE DEF Bad
  <1>3. Bad = {}
    BY <1>1, <1>2, NoneBad
  <1> USE DEF Bad
  <1>4. n \in 0 .. n
    OBVIOUS
  <1> QED
    BY <1>3, <1>4

(* do_processes reads every output that is ready.                           *)
ReadStep(ready, g, n) ==
    [i \in 0 .. n |-> IF i = 0 THEN process_list ELSE Processes!ReadBoth(g[i - 1], i, ready)]

\* The loop of do_processes that reads: after i passes it holds what i calls of ReadBoth leave.
LEMMA ReadLoop ==
    ASSUME Processes!ExecAssumption, NEW names, process_list \in Table(names), NEW n \in Nat,
           NEW ready, NEW h, h = CHOOSE g : g = ReadStep(ready, g, n)
    PROVE  h[n] \in Table(names)
  <1> DEFINE T == [k \in Nat |-> [l \in Table(names) |-> Processes!ReadBoth(l, k, ready)]]
  <1>1. T \in [Nat -> [Table(names) -> Table(names)]]
    BY ReadBothIs
  <1>2. \A k \in Nat, l \in Table(names) : T[k][l] = Processes!ReadBoth(l, k, ready)
    OBVIOUS
  <1> HIDE DEF T
  <1>3. PICK f : Iterates(f, Table(names), T, process_list, n)
    BY <1>1, Iteration
  <1>4. f = ReadStep(ready, f, n)
    <2>1. f \in [0 .. n -> Table(names)] /\ f[0] = process_list
      BY <1>3 DEF Iterates
    <2>2. ASSUME NEW i \in 0 .. n, i # 0 PROVE f[i] = Processes!ReadBoth(f[i - 1], i, ready)
      <3>1. i \in 1 .. n /\ i \in Nat /\ i - 1 \in 0 .. n
        BY <2>2
      <3>2. f[i] = T[i][f[i - 1]]
        BY <1>3, <3>1 DEF Iterates
      <3> QED
        BY <1>2, <2>1, <3>1, <3>2
    <2> QED
      BY <2>1, <2>2 DEF ReadStep
  <1>5. h = ReadStep(ready, h, n)
    BY <1>4
  <1>6. h[0] = process_list /\ \A k \in 1 .. n : h[k] = Processes!ReadBoth(h[k - 1], k, ready)
    <2>1. ReadStep(ready, h, n)[0] = process_list
      BY DEF ReadStep
    <2>2. \A k \in 1 .. n : ReadStep(ready, h, n)[k] = Processes!ReadBoth(h[k - 1], k, ready)
      BY DEF ReadStep
    <2> QED
      BY <1>5, <2>1, <2>2, Zenon
  <1>7. \A k \in 1 .. n : h[k - 1] \in Table(names) => h[k] = T[k][h[k - 1]]
    BY <1>2, <1>6
  <1> QED
    BY <1>1, <1>6, <1>7, SweptIs, SMTT(30)

(* check_process_limits looks at every process.                             *)
LimitStep(list, g, n) ==
    [i \in 0 .. n |-> IF i = 0 THEN list ELSE Processes!Limited(g[i - 1], i)]

\* The loop of do_processes that checks the limits, likewise.
LEMMA LimitLoop ==
    ASSUME Processes!ExecAssumption, NEW names, NEW list \in Table(names), NEW n \in Nat,
           NEW h, h = CHOOSE g : g = LimitStep(list, g, n)
    PROVE  h[n] \in Table(names)
  <1> DEFINE T == [k \in Nat |-> [l \in Table(names) |-> Processes!Limited(l, k)]]
  <1>1. T \in [Nat -> [Table(names) -> Table(names)]]
    BY LimitedIs
  <1>2. \A k \in Nat, l \in Table(names) : T[k][l] = Processes!Limited(l, k)
    OBVIOUS
  <1> HIDE DEF T
  <1>3. PICK f : Iterates(f, Table(names), T, list, n)
    BY <1>1, Iteration
  <1>4. f = LimitStep(list, f, n)
    <2>1. f \in [0 .. n -> Table(names)] /\ f[0] = list
      BY <1>3 DEF Iterates
    <2>2. ASSUME NEW i \in 0 .. n, i # 0 PROVE f[i] = Processes!Limited(f[i - 1], i)
      <3>1. i \in 1 .. n /\ i \in Nat /\ i - 1 \in 0 .. n
        BY <2>2
      <3>2. f[i] = T[i][f[i - 1]]
        BY <1>3, <3>1 DEF Iterates
      <3> QED
        BY <1>2, <2>1, <3>1, <3>2
    <2> QED
      BY <2>1, <2>2 DEF LimitStep
  <1>5. h = LimitStep(list, h, n)
    BY <1>4
  <1>6. h[0] = list /\ \A k \in 1 .. n : h[k] = Processes!Limited(h[k - 1], k)
    <2>1. LimitStep(list, h, n)[0] = list
      BY DEF LimitStep
    <2>2. \A k \in 1 .. n : LimitStep(list, h, n)[k] = Processes!Limited(h[k - 1], k)
      BY DEF LimitStep
    <2> QED
      BY <1>5, <2>1, <2>2, Zenon
  <1>7. \A k \in 1 .. n : h[k - 1] \in Table(names) => h[k] = T[k][h[k - 1]]
    BY <1>2, <1>6
  <1> QED
    BY <1>1, <1>6, <1>7, SweptIs, SMTT(30)

----------------------------------------------------------------------------
(* The inductive invariant: the servers keep the order of the first list,   *)
(* each is there once, and every process knows its own.                     *)

InOrder(names) ==
    \A i, j \in DOMAIN names : i =< j <=> names[i] =< names[j]

EInv ==
    /\ process_list \in Table(servers)
    /\ child \in Children /\ got_sigchild \in Nat
    /\ servers \in Seq(1 .. ServerCount) /\ Len(servers) =< ServerCount
    /\ InOrder(servers)
    /\ current \in DOMAIN servers

(* There are no processes yet, and each server is listed once.              *)
LEMMA InitEInv == Processes!ExecAssumption /\ Processes!Init => EInv
  <1> SUFFICES ASSUME Processes!ExecAssumption, Processes!Init PROVE EInv
    OBVIOUS
  <1>4. /\ servers \in Seq(1 .. ServerCount) /\ Len(servers) = ServerCount
        /\ DOMAIN servers = 1 .. ServerCount /\ \A i \in 1 .. ServerCount : servers[i] = i
    BY DEF Processes!Init, Processes!ExecAssumption
  <1>5. process_list \in Table(servers)
    BY DEF Processes!Init, Table
  <1>6. child \in Children /\ got_sigchild \in Nat
    BY DEF Processes!Init, Children
  <1>7. InOrder(servers)
    BY <1>4 DEF InOrder
  <1> QED
    BY <1>4, <1>5, <1>6, <1>7 DEF Processes!Init, Processes!ExecAssumption, EInv

(* What does not change the table, or the servers, leaves them as they were. *)
LEMMA TableStays ==
    ASSUME NEW names, servers' = names, process_list' \in Table(names)
    PROVE  (process_list \in Table(servers))'
  BY DEF Table, Lasting, Fit, Knows, Record, Processes!Empty, Processes!Finished, Processes!ToSet, Outputs, Processes!Stands

LEMMA OrderStays ==
    ASSUME NEW names, servers' = names, InOrder(names)
    PROVE  InOrder(servers)'
  BY DEF InOrder

(* A process starts in the first hole, or at the end.                       *)
LEMMA StartKeeps ==
    ASSUME Processes!ExecAssumption, EInv, NEW pid \in Pids, Processes!StartProcess(pid)
    PROVE  EInv'
  <1> DEFINE holes == DOMAIN process_list \ Processes!Listed
             new == [pid |-> pid, fds |-> Outputs, counter |-> 0,
                     exited |-> FALSE, server |-> current - 1, own |-> servers[current]]
  <1>1. /\ process_list' = IF holes # {} THEN [process_list EXCEPT ![Processes!Min(holes)] = new]
                           ELSE Append(process_list, new)
        /\ child' = [child EXCEPT ![pid] = [state |-> "running", writes |-> Outputs]]
        /\ UNCHANGED <<got_sigchild, servers, current>>
    BY DEF Processes!StartProcess, Outputs
  <1>2. /\ process_list \in Table(servers) /\ servers \in Seq(1 .. ServerCount)
        /\ Len(servers) =< ServerCount /\ current \in 1 .. Len(servers)
        /\ InOrder(servers) /\ child \in Children
    BY DEF EInv
  <1>3. ServerCount \in Nat /\ Len(servers) \in Nat
    BY <1>2 DEF Processes!ExecAssumption
  <1>4. new \in Record
    <2>1. current - 1 \in -1 .. ServerCount
      BY <1>2, <1>3
    <2>2. 0 \in 0 .. Limit /\ servers[current] \in 1 .. ServerCount
      BY <1>2 DEF Processes!ExecAssumption
    <2> QED
      BY <2>1, <2>2 DEF Record
  <1>5. Knows(new, servers) /\ ~Processes!Finished(new)
    <2>1. new.server + 1 = current /\ new.own = servers[current] /\ new.exited = FALSE
      BY <1>2
    <2> HIDE DEF new
    <2>2. Processes!Stands(new, servers)
      BY <1>2, <2>1 DEF Processes!Stands, InOrder
    <2> QED
      BY <1>2, <2>1, <2>2 DEF Knows, Processes!Finished
  <1>6. new \in Lasting(servers)
    BY <1>4, <1>5 DEF Lasting, Fit
  <1> HIDE DEF new
  <1>7. process_list' \in Table(servers)
    <2>1. CASE holes # {}
      <3>1. holes \in SUBSET Nat
        BY <1>2 DEF Table
      <3> HIDE DEF holes
      <3>2. process_list' = [process_list EXCEPT ![Processes!Min(holes)] = new]
        BY <1>1, <2>1
      <3>3. Processes!Min(holes) \in holes
        BY <2>1, <3>1, Least DEF Processes!Min
      <3>4. Processes!Min(holes) \in DOMAIN process_list
        BY <3>3 DEF holes
      <3> QED
        BY <1>2, <1>6, <3>2, <3>4 DEF Table
    <2>2. CASE holes = {}
      <3>1. process_list' = Append(process_list, new)
        BY <1>1, <2>2
      <3> QED
        BY <1>2, <1>6, <3>1 DEF Table
    <2> QED
      BY <2>1, <2>2
  <1>8. child' \in Children
    BY <1>1, <1>2 DEF Children, Outputs
  <1>9. servers' = servers
    BY <1>1
  <1>10. (process_list \in Table(servers))'
    BY <1>7, <1>9, TableStays
  <1> QED
    BY <1>1, <1>8, <1>10, OrderStays DEF EInv, Children, Outputs

(* /EXEC -CLOSE is for processes that have not exited: they wait for that.  *)
LEMMA CloseKeeps ==
    ASSUME Processes!ExecAssumption, EInv, NEW i \in Processes!Listed, Processes!Close(i)
    PROVE  EInv'
  <1> DEFINE p == process_list[i]
             e == [p EXCEPT !.fds = {}]
  <1>1. /\ ~p.exited /\ process_list' = [process_list EXCEPT ![i] = e]
        /\ UNCHANGED <<child, got_sigchild, servers, current>>
    BY DEF Processes!Close
  <1>2. process_list \in Table(servers) /\ i \in DOMAIN process_list /\ p # Processes!Empty
    BY DEF EInv, Processes!Listed
  <1>3. p \in Record /\ Knows(p, servers)
    BY <1>2, EntryIs DEF Lasting, Fit
  <1> HIDE DEF p
  <1>4. e \in Record /\ Knows(e, servers) /\ ~e.exited
    BY <1>1, <1>3 DEF Record, Knows, Processes!Stands
  <1>5. e \in Lasting(servers)
    BY <1>4 DEF Lasting, Fit, Processes!Finished
  <1> HIDE DEF e
  <1>6. process_list' \in Table(servers)
    BY <1>1, <1>2, <1>5 DEF Table
  <1> QED
    BY <1>1, <1>6, TableStays, OrderStays DEF EInv, Children, Outputs

(* What a process does by itself is not in the table yet.                   *)
LEMMA ChildKeeps ==
    ASSUME Processes!ExecAssumption, EInv, NEW pid \in Pids,
           Processes!Exits(pid) \/ \E out \in Outputs : Processes!Ends(pid, out)
    PROVE  EInv'
  <1>1. /\ child' = [child EXCEPT ![pid].state = "exited"]
           \/ \E out \in Outputs : child' = [child EXCEPT ![pid].writes = @ \ {out}]
        /\ got_sigchild' \in {got_sigchild, got_sigchild + 1}
        /\ UNCHANGED <<process_list, servers, current>>
    BY DEF Processes!Exits, Processes!Ends
  <1>2. child \in Children /\ got_sigchild \in Nat
    BY DEF EInv
  <1>3. child' \in Children /\ got_sigchild' \in Nat
    BY <1>1, <1>2 DEF Children
  <1>4. process_list' \in Table(servers)
    BY <1>1 DEF EInv
  <1> QED
    BY <1>1, <1>3, <1>4, TableStays, OrderStays DEF EInv, Children, Outputs

(* A process that has been waited for leaves the table if its outputs have  *)
(* ended.                                                                   *)
LEMMA CheckWaitStatusKeeps ==
    ASSUME Processes!ExecAssumption, EInv, Processes!CheckWaitStatus
    PROVE  EInv'
  <1>1. process_list \in Table(servers) /\ child \in Children /\ got_sigchild \in Nat
    BY DEF EInv
  <1>2. got_sigchild' \in Nat /\ UNCHANGED <<servers, current>>
    BY <1>1 DEF Processes!CheckWaitStatus
  <1>3. CASE UNCHANGED <<process_list, child>>
    BY <1>1, <1>2, <1>3, TableStays, OrderStays DEF EInv, Children, Outputs
  <1>4. CASE ~UNCHANGED <<process_list, child>>
    <2> DEFINE i(pid) == CHOOSE j \in Processes!Listed : process_list[j].pid = pid
    <2>1. PICK pid \in Pids :
              /\ child' = [child EXCEPT ![pid].state = "none"]
              /\ process_list' =
                     IF pid \notin Processes!PidsListed THEN process_list
                     ELSE Processes!Settled([process_list EXCEPT ![i(pid)].exited = TRUE], i(pid))
      BY <1>4 DEF Processes!CheckWaitStatus
    <2>2. child' \in Children
      BY <1>1, <2>1 DEF Children
    <2>3. process_list' \in Table(servers)
      <3>1. CASE pid \notin Processes!PidsListed
        BY <1>1, <2>1, <3>1
      <3>2. CASE pid \in Processes!PidsListed
        <4> DEFINE n == i(pid)
                   p == process_list[n]
                   e == [p EXCEPT !.exited = TRUE]
        <4>1. n \in DOMAIN process_list /\ p # Processes!Empty
          BY <3>2 DEF Processes!PidsListed, Processes!Listed
        <4>2. process_list' = Processes!Settled([process_list EXCEPT ![n] = e], n)
          BY <2>1, <3>2
        <4> HIDE DEF n
        <4>3. p \in Record /\ Knows(p, servers)
          BY <1>1, <4>1, EntryIs DEF Lasting, Fit
        <4> HIDE DEF p
        <4>4. e \in Record /\ Knows(e, servers)
          BY <4>3 DEF Record, Knows, Processes!Stands
        <4>5. e \in Fit(servers)
          BY <4>4 DEF Fit
        <4> HIDE DEF e
        <4> QED
          BY <1>1, <4>1, <4>2, <4>5, SettledIs
      <3> QED
        BY <3>1, <3>2
    <2> QED
      BY <1>2, <2>2, <2>3, TableStays, OrderStays DEF EInv, Children, Outputs
  <1> QED
    BY <1>3, <1>4

(* The two loops of do_processes, one after the other.                      *)
LEMMA PollKeeps ==
    ASSUME Processes!ExecAssumption, EInv, NEW lines, Processes!DoProcesses(lines)
    PROVE  EInv'
  <1> DEFINE ready == Processes!Ended \cup lines
             n == Len(process_list)
             read == CHOOSE g : g = ReadStep(ready, g, n)
             after == read[n]
             checked == CHOOSE g : g = LimitStep(after, g, Len(after))
  <1>1. process_list \in Table(servers) /\ n \in Nat
    BY DEF EInv, Table
  <1>2. /\ process_list' = checked[Len(after)]
        /\ UNCHANGED <<child, got_sigchild, servers, current>>
    BY DEF Processes!DoProcesses, ReadStep, LimitStep
  <1> HIDE DEF ready, n
  <1>3. after \in Table(servers)
    BY <1>1, ReadLoop
  <1> HIDE DEF after
  <1>4. Len(after) \in Nat
    BY <1>3 DEF Table
  <1>5. checked[Len(after)] \in Table(servers)
    BY <1>3, <1>4, LimitLoop
  <1> HIDE DEF checked
  <1>6. process_list' \in Table(servers)
    BY <1>2, <1>5
  <1> QED
    BY <1>2, <1>6, TableStays, OrderStays DEF EInv, Children, Outputs

(* The servers behind the deleted one move up, and so do the indices that   *)
(* the processes keep.  Those of the deleted server go to the one before it. *)
LEMMA RemoveKeeps ==
    ASSUME Processes!ExecAssumption, EInv, NEW n, Processes!RemoveFromServerList(n)
    PROVE  EInv'
  <1> DEFINE s == Processes!RemoveAt(servers, n)
             Told(p) == IF p.server >= n - 1 THEN [p EXCEPT !.server = @ - 1] ELSE p
  <1>1. /\ n \in DOMAIN servers /\ Len(servers) > 1 /\ current # n
        /\ servers' = s
        /\ current' = IF current > n THEN current - 1 ELSE current
        /\ process_list' = Processes!ExecServerDelete(process_list, n - 1)
        /\ UNCHANGED <<child, got_sigchild>>
    BY DEF Processes!RemoveFromServerList
  <1>2. /\ process_list \in Table(servers) /\ servers \in Seq(1 .. ServerCount)
        /\ Len(servers) =< ServerCount /\ current \in 1 .. Len(servers)
        /\ \A i, j \in DOMAIN servers : servers[i] = servers[j] => i = j
        /\ InOrder(servers)
    BY DEF EInv, InOrder
  <1>3. ServerCount \in Nat /\ Len(servers) \in Nat /\ n \in 1 .. Len(servers)
    BY <1>1, <1>2 DEF Processes!ExecAssumption
  <1>4. /\ s \in Seq(1 .. ServerCount) /\ Len(s) = Len(servers) - 1
        /\ \A j \in 1 .. Len(servers) - 1 : s[j] = IF j < n THEN servers[j] ELSE servers[j + 1]
    <2>1. servers \in Seq(1 .. ServerCount) /\ n \in DOMAIN servers
      BY <1>1, <1>2
    <2> QED
      BY <2>1, Removed, SameRemoveAt, ZenonT(60)
  <1> HIDE DEF s
  <1>5. DOMAIN s = 1 .. Len(servers) - 1 /\ DOMAIN servers = 1 .. Len(servers)
    BY <1>2, <1>4, LenProperties
  <1> DEFINE Old(j) == IF j < n THEN j ELSE j + 1
  <1>6. \A j \in DOMAIN s : Old(j) \in DOMAIN servers /\ Old(j) # n /\ s[j] = servers[Old(j)]
    BY <1>3, <1>4, <1>5
  <1>7. \A i, j \in DOMAIN s : s[i] = s[j] => i = j
    <2> SUFFICES ASSUME NEW i \in DOMAIN s, NEW j \in DOMAIN s, s[i] = s[j] PROVE i = j
      OBVIOUS
    <2>1. Old(i) = Old(j)
      BY <1>2, <1>6
    <2> QED
      BY <1>3, <1>5, <2>1
  <1>8. current' \in DOMAIN s
    BY <1>1, <1>2, <1>3, <1>5
  <1>12. \A i, j \in DOMAIN s : i =< j <=> Old(i) =< Old(j)
    BY <1>3, <1>5
  <1>13. InOrder(s)
    <2> HIDE DEF Old
    <2> QED
      BY <1>2, <1>6, <1>12 DEF InOrder
  <1>9. ASSUME NEW p \in Lasting(servers) PROVE Told(p) \in Lasting(s)
    <2>1. p \in Record /\ Knows(p, servers) /\ ~Processes!Finished(p)
      BY DEF Lasting, Fit
    <2>2. p.server \in -1 .. ServerCount
      BY <2>1 DEF Record
    <2>3. Told(p) \in Record /\ ~Processes!Finished(Told(p)) /\ Told(p).own = p.own
      <3>1. CASE p.server >= n - 1
        <4>1. p.server - 1 \in -1 .. ServerCount
          BY <1>3, <2>2, <3>1
        <4> QED
          BY <2>1, <3>1, <4>1 DEF Record, Processes!Finished
      <3>2. CASE ~(p.server >= n - 1)
        BY <2>1, <3>2
      <3> QED
        BY <3>1, <3>2
    <2>4. Told(p).server = IF p.server >= n - 1 THEN p.server - 1 ELSE p.server
      BY <2>1 DEF Record
    <2> HIDE DEF Told
    <2>5. ASSUME p.own \in Processes!ToSet(s)
          PROVE  Told(p).server + 1 \in DOMAIN s /\ s[Told(p).server + 1] = p.own
      <3>1. PICK j \in DOMAIN s : s[j] = p.own
        BY <2>5 DEF Processes!ToSet
      <3>2. servers[Old(j)] = p.own /\ Old(j) \in DOMAIN servers /\ Old(j) # n
        BY <1>6, <3>1
      <3>3. p.own \in Processes!ToSet(servers)
        BY <3>2 DEF Processes!ToSet
      <3>4. p.server + 1 \in DOMAIN servers /\ servers[p.server + 1] = p.own
        BY <2>1, <3>3 DEF Knows
      <3>5. p.server + 1 = Old(j)
        BY <1>2, <3>2, <3>4
      <3>6. Told(p).server + 1 = j
        BY <1>3, <1>5, <2>2, <2>4, <3>5
      <3> QED
        BY <3>1, <3>6
    <2>7. p.server + 1 \in 0 .. Len(servers) /\ Processes!Stands(p, servers)
      BY <2>1 DEF Knows
    <2>8. Told(p).server + 1 \in 0 .. Len(s)
      BY <1>3, <1>4, <2>2, <2>4, <2>7
    <2>9. \A j \in DOMAIN s : j =< Told(p).server + 1 <=> Old(j) =< p.server + 1
      BY <1>3, <1>5, <2>2, <2>4
    <2>10. Processes!Stands(Told(p), s)
      <3> HIDE DEF Old
      <3>1. SUFFICES ASSUME NEW j \in DOMAIN s
                     PROVE  j =< Told(p).server + 1 <=> s[j] =< p.own
        BY <2>3 DEF Processes!Stands
      <3>2. Old(j) \in DOMAIN servers /\ s[j] = servers[Old(j)]
        BY <1>6
      <3>3. Old(j) =< p.server + 1 <=> servers[Old(j)] =< p.own
        BY <2>7, <3>2 DEF Processes!Stands
      <3> QED
        BY <2>9, <3>2, <3>3
    <2>6. Knows(Told(p), s)
      BY <2>3, <2>5, <2>8, <2>10 DEF Knows
    <2> QED
      BY <2>3, <2>6 DEF Lasting, Fit
  <1>10. process_list' \in Table(s)
    <2>1. process_list' = [i \in DOMAIN process_list |->
              IF process_list[i] # Processes!Empty THEN Told(process_list[i]) ELSE process_list[i]]
      <3>1. ASSUME NEW i \in DOMAIN process_list, process_list[i] # Processes!Empty
            PROVE  process_list[i].server \in Int
        BY <1>2, <3>1, EntryIs DEF Lasting, Fit, Record
      <3> QED
        BY <1>1, <3>1 DEF Processes!ExecServerDelete
    <2> HIDE DEF Told
    <2>2. ASSUME NEW i \in DOMAIN process_list
          PROVE  (IF process_list[i] # Processes!Empty THEN Told(process_list[i]) ELSE process_list[i])
                     \in {Processes!Empty} \cup Lasting(s)
      BY <1>2, <1>9, EntryIs
    <2>3. Len(process_list) \in Nat /\ DOMAIN process_list = 1 .. Len(process_list)
      BY <1>2 DEF Table
    <2> QED
      BY <2>1, <2>2, <2>3 DEF Table
  <1>11. (process_list \in Table(servers))'
    BY <1>1, <1>10, TableStays
  <1> QED
    BY <1>1, <1>3, <1>4, <1>8, <1>11, <1>13, OrderStays
       DEF EInv, Children, Outputs

(* Every step keeps the invariant.                                          *)
LEMMA NextEInv == Processes!ExecAssumption /\ EInv /\ [Processes!Next]_(Processes!vars) => EInv'
  <1> SUFFICES ASSUME Processes!ExecAssumption, EInv, [Processes!Next]_(Processes!vars) PROVE EInv'
    OBVIOUS
  <1>1. CASE \E pid \in Pids : Processes!StartProcess(pid)
    BY <1>1, StartKeeps
  <1>2. CASE \E i \in Processes!Listed : Processes!Close(i)
    BY <1>2, CloseKeeps
  <1>3. CASE \E pid \in Pids, out \in {"stdout", "stderr"} : Processes!Ends(pid, out)
    BY <1>3, ChildKeeps DEF Outputs
  <1>4. CASE \E pid \in Pids : Processes!Exits(pid)
    BY <1>4, ChildKeeps
  <1>5. CASE Processes!CheckWaitStatus
    BY <1>5, CheckWaitStatusKeeps
  <1>6. CASE Processes!Poll
    BY <1>6, PollKeeps DEF Processes!Poll
  <1>7. CASE \E n \in DOMAIN servers : Processes!RemoveFromServerList(n)
    BY <1>7, RemoveKeeps
  <1>8. CASE \E n \in DOMAIN servers : Processes!SwitchServer(n)
    <2>1. process_list' \in Table(servers) /\ UNCHANGED <<child, got_sigchild, servers>>
          /\ current' \in DOMAIN servers
      BY <1>8 DEF Processes!SwitchServer, EInv
    <2> QED
      BY <2>1, TableStays, OrderStays DEF EInv, Children, Outputs
  <1>9. CASE UNCHANGED Processes!vars
    <2>1. process_list' \in Table(servers)
      BY <1>9 DEF Processes!vars, EInv
    <2> QED
      BY <1>9, <2>1, TableStays, OrderStays DEF Processes!vars, EInv, Children, Outputs
  <1> QED
    BY <1>1, <1>2, <1>3, <1>4, <1>5, <1>6, <1>7, <1>8, <1>9 DEF Processes!Next

(* What the table holds of a listed process.                                *)
LEMMA Known ==
    ASSUME Processes!ExecAssumption, EInv, NEW i \in Processes!Listed
    PROVE  process_list[i] \in Record /\ Knows(process_list[i], servers) /\ ~Processes!Finished(process_list[i])
  <1>1. i \in DOMAIN process_list /\ process_list[i] # Processes!Empty /\ process_list \in Table(servers)
    BY DEF EInv, Processes!Listed
  <1> QED
    BY <1>1, EntryIs DEF Lasting, Fit

(* The types of the table, of what is known of the processes and of the     *)
(* server list, for any number of processes and servers.                    *)
LEMMA ProcessTypes == Processes!ExecAssumption /\ EInv => Processes!TypeOK
  <1> SUFFICES ASSUME Processes!ExecAssumption, EInv PROVE Processes!TypeOK
    OBVIOUS
  <1>1. process_list \in Seq({Processes!Empty} \cup Record)
    <2>1. {Processes!Empty} \cup Lasting(servers) \subseteq {Processes!Empty} \cup Record
      BY DEF Lasting, Fit
    <2>2. process_list \in Seq({Processes!Empty} \cup Lasting(servers))
      BY DEF EInv, Table
    <2> QED
      BY <2>1, <2>2
  <1> QED
    BY <1>1 DEF EInv, Processes!TypeOK, Record, Children, Outputs

(* The output of a process goes to the server it was started for as long as *)
(* that one is listed, then to the nearest that stood before it, and no     *)
(* process that has ended is in the table.                                  *)
LEMMA ProcessesBehave == Processes!ExecAssumption /\ EInv => OwnServer
  <1> SUFFICES ASSUME Processes!ExecAssumption, EInv PROVE OwnServer
    OBVIOUS
  <1>1. Processes!OwnServer
    BY Known DEF Processes!OwnServer, Knows, Processes!Stands
  <1>2. Processes!FinishedAreDeleted
    BY Known DEF Processes!FinishedAreDeleted
  <1> QED
    BY <1>1, <1>2 DEF OwnServer

----------------------------------------------------------------------------
(* Every behaviour of Jobs.                                                 *)

LEMMA ProcessSteps == [JobsNext]_<<part, jobVars>> => [Processes!Next]_(Processes!vars)
  BY DEF JobsNext, jobVars, execVars, Processes!vars

LEMMA ProcessesInductive == JobsSpec => []EInv
  <1>1. JobsInit => EInv
    BY InitEInv, ProcessesAssumption DEF JobsInit
  <1>2. EInv /\ [JobsNext]_<<part, jobVars>> => EInv'
    BY NextEInv, ProcessSteps, ProcessesAssumption
  <1> QED
    BY <1>1, <1>2, PTL DEF JobsSpec

(* The lists of clients and of processes hold what they should, for any     *)
(* bounds, types, process ids and servers.                                  *)
THEOREM JobTypesHold == JobsSpec => []JobsTypeOK
  <1>1. CInv /\ EInv => JobsTypeOK
    BY ClientTypes, ProcessTypes, ProcessesAssumption DEF JobsTypeOK
  <1> QED
    BY <1>1, ClientsInductive, ProcessesInductive, PTL

(* The output of a process goes to the server it was started for, however   *)
(* the servers are renumbered, as long as that server is listed: every      *)
(* entry moves with its server when one before it is deleted.  When its own *)
(* is deleted it goes to the nearest that stood before it and is listed, to *)
(* index -1 when none is, and to no other later (exec_server_delete).       *)
(* And a process whose outputs have ended and which has been waited for is  *)
(* not in the table, in whatever order the two are noticed, and whatever    *)
(* holes are in the table.                                                  *)
THEOREM OutputReachesItsServer == JobsSpec => []OwnServer
  <1>1. EInv => OwnServer
    BY ProcessesBehave, ProcessesAssumption
  <1> QED
    BY <1>1, ProcessesInductive, PTL
=============================================================================
