--------------------------- MODULE ServersProofs ---------------------------
(* Proofs about Servers for any set of names and windows, any bound on the  *)
(* timers and any choice of events; two theorems exclude deletions.         *)
EXTENDS Servers, FiniteSetTheorems, WellFoundedInduction, TLAPS

(* What every operator on a client record preserves: its type, and a socket *)
(* behind every server marked connected.                                    *)
Record(r) == r \in Server /\ (r.connected => r.sock)

Good(C) == ClientOK(C) /\ \A i \in Refnums(C) : Record(C.server_list[i])

(* Replacing the record of one server.                                      *)
LEMMA GoodUpdate ==
    ASSUME NEW C, Good(C), NEW i, NEW r, i \in Refnums(C) => Record(r)
    PROVE  LET D == [C EXCEPT !.server_list[i] = r]
           IN Good(D) /\ Refnums(D) = Refnums(C)
  BY DEF Good, ClientOK, ClientType, Refnums, Record

(* Replacing a scalar.                                                      *)
LEMMA GoodScalars ==
    ASSUME NEW C, Good(C), NEW k \in Int
    PROVE  /\ Good([C EXCEPT !.from_server = k])
           /\ Good([C EXCEPT !.primary_server = k])
           /\ Refnums([C EXCEPT !.from_server = k]) = Refnums(C)
           /\ Refnums([C EXCEPT !.primary_server = k]) = Refnums(C)
  BY DEF Good, ClientOK, ClientType, Refnums, Record

\* A record that shut_server leaves is a record, and closed.
LEMMA ShutRecord ==
    ASSUME NEW r, Record(r), NEW b \in BOOLEAN
    PROVE  Record(Shut(r, b))
  BY DEF Record, Shut, Server

\* close_server keeps a good client good.
LEMMA GoodClose ==
    ASSUME NEW C, Good(C), NEW i
    PROVE  Good(CloseServer(C, i)) /\ Refnums(CloseServer(C, i)) = Refnums(C)
  <1>1. i \in Refnums(C) => Record(Shut(C.server_list[i], i = C.primary_server))
    BY ShutRecord DEF Good
  <1> QED
    BY <1>1, GoodUpdate DEF CloseServer

\* clean_whois_queue keeps a good client good.
LEMMA GoodClean ==
    ASSUME NEW C, Good(C), NEW i
    PROVE  Good(CleanWhoisQueue(C, i)) /\ Refnums(CleanWhoisQueue(C, i)) = Refnums(C)
  <1>1. i \in Refnums(C) => Record([C.server_list[i] EXCEPT !.whois = FALSE])
    BY DEF Good, Record, Server
  <1> QED
    BY <1>1, GoodUpdate DEF CleanWhoisQueue

\* So does marking a server that has ended.
LEMMA GoodEof ==
    ASSUME NEW C, Good(C), NEW i
    PROVE  Good(SetEof(C, i)) /\ Refnums(SetEof(C, i)) = Refnums(C)
  <1>1. i \in Refnums(C) => Record([C.server_list[i] EXCEPT !.eof = TRUE])
    BY DEF Good, Record, Server
  <1> QED
    BY <1>1, GoodUpdate DEF SetEof

(* A nonempty set of refnums has a greatest element: the least of n - i.    *)
LEMMA Greatest ==
    ASSUME NEW n \in Nat, NEW S \in SUBSET (0 .. n - 1), S # {}
    PROVE  \E i \in S : \A j \in S : j <= i
  <1> DEFINE T == {n - i : i \in S}
  <1>1. T \subseteq Nat /\ T # {}
    OBVIOUS
  <1>2. PICK x \in T : \A y \in T : ~(<<y, x>> \in OpToRel(<, Nat))
    BY <1>1, WFMin, NatLessThanWellFounded, Zenon
  <1>3. \A y \in T : ~(y < x)
    BY <1>1, <1>2 DEF OpToRel
  <1>4. PICK i \in S : x = n - i
    BY <1>2
  <1>5. \A j \in S : n - j \in T
    OBVIOUS
  <1>6. \A j \in S : ~(n - j < n - i)
    BY <1>3, <1>4, <1>5
  <1> QED
    BY <1>4, <1>6

\* What window_check_servers finds: servers of the list, a count, and its new primary server.
LEMMA HeldFacts ==
    ASSUME NEW C, Good(C)
    PROVE  /\ Held(C) \subseteq Refnums(C)
           /\ Counted(C) \in Nat
           /\ Prime(C) \in Int
           /\ Held(C) # {} => Prime(C) \in Held(C)
  <1>1. Held(C) \subseteq Refnums(C)
    BY DEF Held
  <1>2. IsFiniteSet(Refnums(C))
    BY FS_Interval DEF Refnums, Good, ClientOK
  <1>3. Counted(C) \in Nat
    BY <1>1, <1>2, FS_Subset, FS_CardinalityType DEF Counted
  <1>4. Held(C) # {} => Prime(C) \in Held(C)
    BY <1>1, Greatest DEF Prime, Refnums, Good, ClientOK
  <1> QED
    BY <1>1, <1>3, <1>4 DEF Prime, None, Refnums

\* window_check_servers keeps a good client good.
LEMMA GoodCheck ==
    ASSUME NEW C, Good(C)
    PROVE  /\ Good(WindowCheckServers(C))
           /\ Refnums(WindowCheckServers(C)) = Refnums(C)
  <1> DEFINE W == WindowCheckServers(C)
  <1>1. \A i \in Refnums(C) : Record(W.server_list[i])
    BY ShutRecord DEF WindowCheckServers, Good, ClientOK, ClientType
  <1>2. W \in ClientType(C.number_of_servers, DOMAIN C.windows)
    BY <1>1, HeldFacts
    DEF WindowCheckServers, Good, ClientOK, ClientType, Refnums, Record
  <1>3. /\ W.number_of_servers = C.number_of_servers
        /\ DOMAIN W.windows = DOMAIN C.windows
    BY <1>2 DEF ClientType
  <1> HIDE DEF W
  <1> QED
    BY <1>1, <1>2, <1>3 DEF Good, ClientOK, Refnums, W

\* set_window_server of one window keeps it good.
LEMMA GoodSetWindow ==
    ASSUME NEW C, Good(C), NEW w \in DOMAIN C.windows, NEW s \in Int
    PROVE  /\ Good(SetWindowServer(C, w, s))
           /\ Refnums(SetWindowServer(C, w, s)) = Refnums(C)
  <1>1. /\ Good([C EXCEPT !.windows[w] = s])
        /\ Refnums([C EXCEPT !.windows[w] = s]) = Refnums(C)
    BY DEF Good, ClientOK, ClientType, Refnums, Record
  <1> QED
    BY <1>1, GoodCheck DEF SetWindowServer

\* set_window_server of the primary windows keeps it good.
LEMMA GoodSetPrimary ==
    ASSUME NEW C, Good(C), NEW s \in Int
    PROVE  /\ Good(SetPrimaryServer(C, s))
           /\ Refnums(SetPrimaryServer(C, s)) = Refnums(C)
  <1> DEFINE shown == [w \in DOMAIN C.windows |->
                         IF C.windows[w] = C.primary_server THEN s ELSE C.windows[w]]
             D == [C EXCEPT !.windows = shown]
  <1>1. shown \in [DOMAIN C.windows -> Int]
    BY DEF Good, ClientOK, ClientType
  <1> HIDE DEF shown
  <1>2. Good(D) /\ Refnums(D) = Refnums(C)
    BY <1>1 DEF Good, ClientOK, ClientType, Refnums, Record
  <1> HIDE DEF D
  <1>3. Good(WindowCheckServers(D)) /\ Refnums(WindowCheckServers(D)) = Refnums(C)
    BY <1>2, GoodCheck
  <1> QED
    BY <1>3, GoodScalars DEF SetPrimaryServer, D, shown

\* change_server_channels keeps it good.
LEMMA GoodChannels ==
    ASSUME NEW C, Good(C), NEW old, NEW new
    PROVE  /\ Good(ChangeServerChannels(C, old, new))
           /\ Refnums(ChangeServerChannels(C, old, new)) = Refnums(C)
  <1> DEFINE b == old \in Refnums(C) /\ C.server_list[old].channels
             D == [C EXCEPT !.server_list[new].channels = b]
  <1>1. b \in BOOLEAN
    OBVIOUS
  <1> HIDE DEF b
  <1>2. new \in Refnums(C) => Record([C.server_list[new] EXCEPT !.channels = b])
    BY <1>1 DEF Good, Record, Server
  <1>3. Good(D) /\ Refnums(D) = Refnums(C)
    BY <1>2, GoodUpdate
  <1> HIDE DEF D
  <1>4. old \in Refnums(D) => Record([D.server_list[old] EXCEPT !.channels = FALSE])
    BY <1>3 DEF Good, Record, Server
  <1>5. LET E == [D EXCEPT !.server_list[old].channels = FALSE]
        IN Good(E) /\ Refnums(E) = Refnums(C)
    BY <1>3, <1>4, GoodUpdate
  <1> QED
    BY <1>5 DEF ChangeServerChannels, D, b

(* login_to_server marks a server connected: it needs the socket.           *)
LEMMA GoodLogin ==
    ASSUME NEW C, Good(C), NEW i \in Refnums(C), NEW c \in Int,
           C.server_list[i].sock
    PROVE  /\ Good(LoginToServer(C, i, c))
           /\ Refnums(LoginToServer(C, i, c)) = Refnums(C)
  <1> DEFINE D == IF c \in {None, i} THEN C ELSE CloseServer(C, c)
             r == [D.server_list[i] EXCEPT !.logged_in = TRUE, !.connected = TRUE]
  <1>1. Good(D) /\ Refnums(D) = Refnums(C)
    BY GoodClose
  <1>2. D.server_list[i].sock
    BY DEF CloseServer, Good, ClientOK, ClientType, Refnums
  <1> HIDE DEF D
  <1>3. Record(r)
    BY <1>1, <1>2 DEF Good, Record, Server
  <1>4. Good([D EXCEPT !.server_list[i] = r]) /\ Refnums([D EXCEPT !.server_list[i] = r]) = Refnums(C)
    BY <1>1, <1>3, GoodUpdate
  <1>5. LoginToServer(C, i, c) = [D EXCEPT !.server_list[i] = r]
    BY <1>1 DEF LoginToServer, D, Good, ClientOK, ClientType, Refnums
  <1> QED
    BY <1>4, <1>5

\* connect_to_server keeps it good, whether the connect fails, logs in or is reset.
LEMMA GoodConnect ==
    ASSUME NEW C, Good(C), NEW i \in Refnums(C), NEW c \in Int, NEW outcome
    PROVE  /\ Good(ConnectToServer(C, i, c, outcome))
           /\ Refnums(ConnectToServer(C, i, c, outcome)) = Refnums(C)
  <1> DEFINE F == [C EXCEPT !.from_server = i]
             r == [F.server_list[i] EXCEPT !.sock = TRUE, !.logged_in = FALSE]
             opened == [F EXCEPT !.server_list[i] = r]
  <1>0. i \in Int
    BY DEF Refnums
  <1>1. Good(F) /\ Refnums(F) = Refnums(C)
    BY <1>0, GoodScalars
  <1> HIDE DEF F
  <1>2. Record(r) /\ r.sock
    BY <1>1 DEF Good, Record, Server
  <1> HIDE DEF r
  <1>3. Good(opened) /\ Refnums(opened) = Refnums(C)
    BY <1>1, <1>2, GoodUpdate
  <1>4. opened.server_list[i].sock
    BY <1>1, <1>2 DEF Good, ClientOK, ClientType, Refnums
  <1>5. [C EXCEPT !.from_server = i, !.server_list[i].sock = TRUE,
                  !.server_list[i].logged_in = FALSE] = opened
    BY DEF F, r, Good, ClientOK, ClientType, Refnums
  <1> HIDE DEF opened
  <1>6. /\ Good(LoginToServer(opened, i, c))
        /\ Refnums(LoginToServer(opened, i, c)) = Refnums(C)
    BY <1>3, <1>4, GoodLogin
  <1> QED
    BY <1>1, <1>3, <1>5, <1>6 DEF ConnectToServer, F

\* get_connected keeps it good.
LEMMA GoodGetConnected ==
    ASSUME NEW C, Good(C), NEW server \in Int, NEW D \in GetConnectedResults(C, server)
    PROVE  Good(D) /\ Refnums(D) = Refnums(C)
  <1>1. PICK j \in Reachable(C, server), outcome \in Outcomes : D = GetConnected(C, j, outcome)
    BY DEF GetConnectedResults
  <1> DEFINE tried == IF j \in Refnums(C)
                      THEN ConnectToServer(C, j, C.primary_server, outcome)
                      ELSE [C EXCEPT !.from_server = None]
             moved == ChangeServerChannels(tried, tried.primary_server, tried.from_server)
  <1>2. C.primary_server \in Int
    BY DEF Good, ClientOK, ClientType
  <1>3. Good(tried) /\ Refnums(tried) = Refnums(C)
    <2>1. CASE j \in Refnums(C)
      BY <1>2, <2>1, GoodConnect
    <2>2. CASE j \notin Refnums(C)
      <3>1. None \in Int
        BY DEF None
      <3> QED
        BY <2>2, <3>1, GoodScalars
    <2> QED
      BY <2>1, <2>2
  <1> HIDE DEF tried
  <1>4. Good(moved) /\ Refnums(moved) = Refnums(C)
    BY <1>3, GoodChannels
  <1>5. tried.from_server \in Int
    BY <1>3 DEF Good, ClientOK, ClientType
  <1> HIDE DEF moved
  <1>6. /\ Good(SetPrimaryServer(moved, tried.from_server))
        /\ Refnums(SetPrimaryServer(moved, tried.from_server)) = Refnums(C)
    BY <1>4, <1>5, GoodSetPrimary
  <1> QED
    BY <1>1, <1>6 DEF GetConnected, moved, tried

\* remove_from_server_list keeps it good: the refnums behind it move.
LEMMA GoodRemove ==
    ASSUME NEW C, Good(C), NEW i \in Refnums(C), C.number_of_servers > 1
    PROVE  Good(RemoveFromServerList(C, i))
  <1> DEFINE R == RemoveFromServerList(C, i)
             n == C.number_of_servers - 1
             fixed(s) == IF i < s THEN s - 1 ELSE s
             list == [k \in 0 .. C.number_of_servers - 2 |->
                         IF k < i THEN C.server_list[k] ELSE C.server_list[k + 1]]
             shown == [w \in DOMAIN C.windows |-> fixed(C.windows[w])]
  <1>1. n \in Nat \ {0} /\ 0 .. C.number_of_servers - 2 = 0 .. n - 1 /\ i \in Int
    BY DEF Good, ClientOK, Refnums
  <1>2. \A k \in 0 .. n - 1 : k \in Refnums(C) /\ k + 1 \in Refnums(C)
    BY <1>1 DEF Refnums, Good, ClientOK
  <1>3. \A k \in 0 .. n - 1 : Record(list[k])
    BY <1>1, <1>2 DEF Good
  <1>4. list \in [0 .. n - 1 -> Server]
    BY <1>1, <1>3 DEF Record
  <1>5. shown \in [DOMAIN C.windows -> Int]
    BY <1>1 DEF Good, ClientOK, ClientType
  <1>6. fixed(C.primary_server) \in Int /\ fixed(C.from_server) \in Int
    BY <1>1 DEF Good, ClientOK, ClientType
  <1>7. R = [C EXCEPT !.number_of_servers = n, !.server_list = list,
                      !.primary_server = fixed(C.primary_server),
                      !.from_server = fixed(C.from_server), !.windows = shown]
    BY DEF RemoveFromServerList
  <1> HIDE DEF R, n, list, shown, fixed
  <1>8. R \in ClientType(n, DOMAIN C.windows)
    BY <1>1, <1>4, <1>5, <1>6, <1>7 DEF Good, ClientOK, ClientType
  <1>9. R.number_of_servers = n /\ DOMAIN R.windows = DOMAIN C.windows /\ R.server_list = list
    BY <1>5, <1>7, <1>8 DEF Good, ClientOK, ClientType
  <1>10. Good(R)
    BY <1>1, <1>3, <1>8, <1>9 DEF Good, ClientOK, Refnums
  <1> QED
    BY <1>10 DEF R

\* add_to_server_list keeps it good.
LEMMA GoodAdd ==
    ASSUME NEW C, Good(C), NEW name \in Names
    PROVE  Good(AddToServerList(C, name))
  <1> DEFINE A == AddToServerList(C, name)
             n == C.number_of_servers
             list == [k \in 0 .. n |-> IF k < n THEN C.server_list[k] ELSE Blank(name)]
  <1>1. n \in Nat \ {0} /\ 0 .. n = 0 .. (n + 1) - 1
    BY DEF Good, ClientOK
  <1>2. Record(Blank(name))
    BY <1>1 DEF Blank, Record, Server
  <1>3. \A k \in 0 .. n : Record(list[k])
    BY <1>1, <1>2 DEF Good, Refnums
  <1>4. list \in [0 .. (n + 1) - 1 -> Server]
    BY <1>1, <1>3 DEF Record
  <1>5. A = [C EXCEPT !.number_of_servers = n + 1, !.server_list = list]
    BY DEF AddToServerList
  <1> HIDE DEF A, list
  <1>6. A \in ClientType(n + 1, DOMAIN C.windows)
    BY <1>1, <1>4, <1>5 DEF Good, ClientOK, ClientType
  <1>7. A.number_of_servers = n + 1 /\ DOMAIN A.windows = DOMAIN C.windows /\ A.server_list = list
    BY <1>5, <1>6 DEF Good, ClientOK, ClientType
  <1>8. Good(A)
    BY <1>1, <1>3, <1>6, <1>7 DEF Good, ClientOK, Refnums
  <1> QED
    BY <1>8 DEF A

----------------------------------------------------------------------------
(* The invariant: the part of the client, and the types of the rest.        *)

Rest == /\ reading \in Int /\ prompt \in Int
        /\ timers \in 0 .. MaxTimers
        /\ in_timed_server \in BOOLEAN

IInv == Good(client) /\ Rest

\* So does setting from_server.
LEMMA GoodFrom ==
    ASSUME NEW C, Good(C), NEW k \in Int
    PROVE  /\ Good([C EXCEPT !.from_server = k])
           /\ Refnums([C EXCEPT !.from_server = k]) = Refnums(C)
  BY GoodScalars

(* The program starts with one window, on no server, and a list it tries.   *)
LEMMA Starts ==
    ASSUME Init
    PROVE  \E S, w : /\ Good(S) /\ S.windows = [v \in {w} |-> None]
                     /\ client \in GetConnectedResults(S, 0)
  <1>1. PICK n \in 1 .. Cardinality(Names) : \E names \in [0 .. n - 1 -> Names], w \in Windows :
            client \in GetConnectedResults(
                           Started([i \in 0 .. n - 1 |-> Blank(names[i])], w), 0)
    BY DEF Init
  <1>2. PICK names \in [0 .. n - 1 -> Names], w \in Windows :
            client \in GetConnectedResults(
                           Started([i \in 0 .. n - 1 |-> Blank(names[i])], w), 0)
    BY <1>1
  <1> DEFINE list == [i \in 0 .. n - 1 |-> Blank(names[i])]
             S == Started(list, w)
  <1>3. Cardinality(Names) \in Nat /\ n \in Nat \ {0}
    BY NamesAssumption, FS_CardinalityType
  <1>4. Cardinality(0 .. n - 1) = n
    BY <1>3, FS_Interval
  <1>5. \A i \in 0 .. n - 1 : Record(list[i])
    BY <1>3 DEF Blank, Record, Server
  <1>6. list \in [0 .. n - 1 -> Server]
    BY <1>5 DEF Record
  <1> HIDE DEF list
  <1>7. /\ S \in ClientType(n, {w})
        /\ S.number_of_servers = n /\ S.windows = [v \in {w} |-> None]
        /\ S.server_list = list
    BY <1>3, <1>4, <1>6 DEF Started, ClientType, None
  <1> HIDE DEF S
  <1>8. Good(S)
    BY <1>3, <1>5, <1>7 DEF Good, ClientOK, Refnums
  <1> QED
    BY <1>2, <1>7, <1>8 DEF S, list

\* The invariant holds at the start.
LEMMA InitIInv == Init => IInv
  <1> SUFFICES ASSUME Init PROVE IInv
    OBVIOUS
  <1>1. PICK S : Good(S) /\ client \in GetConnectedResults(S, 0)
    BY Starts
  <1>2. Good(client)
    BY <1>1, GoodGetConnected
  <1>3. reading = None /\ timers = 0 /\ in_timed_server = FALSE /\ prompt = None
    BY DEF Init
  <1>4. in_timed_server \in BOOLEAN
    BY <1>3, Zenon
  <1>5. reading \in Int /\ prompt \in Int /\ timers \in 0 .. MaxTimers
    BY <1>3, MaxTimersAssumption DEF None
  <1>6. Rest
    BY <1>4, <1>5, Zenon DEF Rest
  <1> QED
    BY <1>2, <1>6 DEF IInv

----------------------------------------------------------------------------
(* The steps.                                                               *)

LEMMA FieldTypes ==
    ASSUME Good(client)
    PROVE  /\ client.primary_server \in Int /\ client.from_server \in Int
           /\ client.curr_scr_win \in DOMAIN client.windows
           /\ \A w \in DOMAIN client.windows : client.windows[w] \in Int
           /\ Refnums(client) \subseteq Int
  BY DEF Good, ClientOK, ClientType, Refnums

\* A command begins with the server of the current window, and with a good client.
LEMMA GoodTyped ==
    ASSUME Good(client)
    PROVE  /\ Good(Typed) /\ Refnums(Typed) = Refnums(client)
           /\ Typed.from_server \in Int
           /\ Typed.windows = client.windows
  <1>1. client.windows[client.curr_scr_win] \in Int
    BY FieldTypes
  <1>2. Good(Typed) /\ Refnums(Typed) = Refnums(client)
    BY <1>1, GoodFrom DEF Typed
  <1> QED
    BY <1>1, <1>2 DEF Typed, Good, ClientOK, ClientType

\* A handler of a line leaves a good client when what it computed is good.
LEMMA HandledKeeps ==
    ASSUME NEW C, Good(C), NEW i \in Int, Handled(i, C)
    PROVE  Good(client') /\ reading' \in Int
  <1>1. None \in Int
    BY DEF None
  <1> QED
    BY <1>1, GoodFrom DEF Handled

\* So does a command.
LEMMA CommandKeeps ==
    ASSUME NEW C, Good(C), Good(client), Command(C)
    PROVE  Good(client') /\ reading' = reading
  <1>1. client.from_server \in Int
    BY FieldTypes
  <1> QED
    BY <1>1, GoodFrom DEF Command

(* Lines received from server i.                                            *)
LEMMA LinesKeep ==
    ASSUME IInv, NEW i \in Refnums(client), Lines(i)
    PROVE  IInv'
  <1>1. Good(client) /\ i \in Int /\ Rest
    BY FieldTypes DEF IInv
  <1>2. CanRead(i) => client.server_list[i].sock
    BY DEF CanRead, IsOpen
  <1>3. Record(client.server_list[i])
    BY <1>1 DEF Good
  <1>4. /\ Good(From(i)) /\ Refnums(From(i)) = Refnums(client)
    BY <1>1, GoodFrom DEF From
  <1>5. /\ Good(WindowCheckServers(CloseServer(From(i), i)))
        /\ Refnums(WindowCheckServers(CloseServer(From(i), i))) = Refnums(client)
    BY <1>4, GoodClose, GoodCheck
  <1>6. ASSUME NEW C, Good(C), Handled(i, C),
               UNCHANGED <<timers, in_timed_server>>, prompt' \in Int
        PROVE  IInv'
    BY <1>1, <1>6, HandledKeeps DEF IInv, Rest
  <1>7. CASE Welcome(i)
    <2> DEFINE r == [client.server_list[i] EXCEPT
                        !.connected = TRUE, !.eof = FALSE]
               D == [client EXCEPT !.server_list[i] = r]
    <2>1. Record(r)
      BY <1>2, <1>3, <1>7 DEF Welcome, Record, Server
    <2>2. Good(D)
      BY <1>1, <2>1, GoodUpdate
    <2>3. [client EXCEPT !.server_list[i].connected = TRUE,
                         !.server_list[i].eof = FALSE] = D
      BY <1>1, <1>3 DEF Good, ClientOK, ClientType, Refnums, Record, Server
    <2> HIDE DEF D
    <2> QED
      BY <1>1, <1>6, <1>7, <2>2, <2>3 DEF Welcome, Rest
  <1>8. CASE MyInfo(i) \/ Join(i)
    <2>1. \A b \in BOOLEAN : Record([client.server_list[i] EXCEPT !.channels = b])
      BY <1>3 DEF Record, Server
    <2>2. \A b \in BOOLEAN : Good([client EXCEPT !.server_list[i].channels = b])
      BY <1>1, <2>1, GoodUpdate
    <2>3. Good([client EXCEPT !.server_list[i].channels = TRUE])
      BY <2>2
    <2>4. Good([client EXCEPT !.server_list[i].channels = FALSE])
      BY <2>2
    <2> QED
      BY <1>1, <1>6, <1>8, <2>3, <2>4 DEF MyInfo, Join, Rest
  <1>9. CASE WhoisReply(i)
    BY <1>1, <1>6, <1>9, GoodClean DEF WhoisReply, Rest
  <1>10. CASE NoPermForHost(i)
    <2> DEFINE C == WindowCheckServers(CloseServer(From(i), i))
    <2>1. PICK D \in IF i = C.primary_server THEN GetConnectedResults(C, i + 1) ELSE {C} :
              Handled(i, D)
      BY <1>10 DEF NoPermForHost
    <2> HIDE DEF C
    <2>2. i + 1 \in Int /\ Good(C)
      BY <1>1, <1>5 DEF C
    <2>3. Good(D)
      BY <2>2, GoodGetConnected
    <2> QED
      BY <1>1, <1>6, <1>10, <2>1, <2>3 DEF NoPermForHost, Rest
  <1>11. CASE PasswdMismatch(i)
    BY <1>1, <1>6, <1>11, GoodClose DEF PasswdMismatch, Rest
  <1>12. CASE Banned(i)
    <2> DEFINE C == WindowCheckServers(CloseServer(From(i), i))
               D == IF C.number_of_servers > 1 THEN RemoveFromServerList(C, i) ELSE C
    <2>1. PICK E \in IF i = D.primary_server THEN GetConnectedResults(D, i) ELSE {D} :
              Handled(i, E)
      BY <1>12 DEF Banned
    <2> HIDE DEF C
    <2>2. Good(C) /\ i \in Refnums(C)
      BY <1>1, <1>5 DEF C
    <2>3. Good(D)
      BY <2>2, GoodRemove
    <2> HIDE DEF D
    <2>4. Good(E)
      BY <1>1, <2>3, GoodGetConnected
    <2> QED
      BY <1>1, <1>6, <1>12, <2>1, <2>4 DEF Banned, Rest
  <1>13. CASE Kill(i)
    <2>1. Good(CloseServer(From(i), i))
      BY <1>4, GoodClose
    <2>2. Good(WindowCheckServers(CleanWhoisQueue(CloseServer(From(i), i), i)))
      BY <2>1, GoodClean, GoodCheck
    <2> QED
      BY <1>1, <1>6, <1>13, <2>2 DEF Kill, Rest
  <1> QED
    BY <1>7, <1>8, <1>9, <1>10, <1>11, <1>12, <1>13 DEF Lines

(* The other steps of the network: reads, losses, logins.                   *)
LEMMA NetworkKeeps ==
    ASSUME IInv, NEW i \in Refnums(client), Network(i)
    PROVE  IInv'
  <1>1. Good(client) /\ i \in Int /\ Rest /\ None \in Int
    BY FieldTypes DEF IInv, None
  <1>2. /\ Good(From(i)) /\ Refnums(From(i)) = Refnums(client)
    BY <1>1, GoodFrom DEF From
  <1>3. /\ Good(Closed(i)) /\ Refnums(Closed(i)) = Refnums(client)
    BY <1>2, GoodClose DEF Closed
  <1>4. ASSUME Good(client'), reading' \in Int,
               UNCHANGED <<timers, in_timed_server, prompt>>
        PROVE  IInv'
    BY <1>1, <1>4 DEF IInv, Rest
  <1>5. CASE Lines(i)
    BY <1>5, LinesKeep
  <1>6. CASE ReadTimeout(i)
    BY <1>1, <1>2, <1>4, <1>6 DEF ReadTimeout
  <1>7. CASE LosePrimary(i)
    <2>1. Good(client')
      BY <1>3, <1>7, GoodCheck DEF LosePrimary
    <2>2. reading' \in Int /\ prompt' \in Int
      BY <1>1, <1>7 DEF LosePrimary, Rest
    <2>3. timers' \in 0 .. MaxTimers
      BY <1>1, <1>7, MaxTimersAssumption DEF LosePrimary, AddServerTimer, Rest
    <2>4. in_timed_server' \in BOOLEAN
      BY <1>7, Zenon DEF LosePrimary, AddServerTimer
    <2> QED
      BY <2>1, <2>2, <2>3, <2>4 DEF IInv, Rest
  <1>8. CASE LoseOther(i)
    <2>1. ASSUME NEW C, Good(C) PROVE Good(GiveUp(i, C))
      <3>1. Good(CloseServer(C, i))
        BY <2>1, GoodClose
      <3>2. Good(WindowCheckServers(CleanWhoisQueue(CloseServer(C, i), i)))
        BY <3>1, GoodClean, GoodCheck
      <3> QED
        BY <3>2, GoodEof DEF GiveUp
    <2>2. ASSUME NEW outcome PROVE Good(ConnectToServer(Closed(i), i, None, outcome))
      BY <1>1, <1>3, GoodConnect
    <2>3. Good(client')
      BY <1>3, <1>8, <2>1, <2>2, GoodEof DEF LoseOther
    <2> QED
      BY <1>1, <1>4, <1>8, <2>3 DEF LoseOther
  <1>9. CASE Login(i)
    <2>1. client.server_list[i].sock
      BY <1>9 DEF Login, IsOpen
    <2>2. Good(LoginToServer(client, i, None))
      BY <1>1, <2>1, GoodLogin
    <2> QED
      BY <1>1, <1>4, <1>9, <2>2 DEF Login, Rest
  <1>10. CASE Unreachable(i)
    <2>1. Good(CloseServer(client, i))
      BY <1>1, GoodClose
    <2>2. Good(client')
      BY <1>1, <1>10, <2>1, GoodGetConnected DEF Unreachable
    <2> QED
      BY <1>1, <1>4, <1>10, <2>2 DEF Unreachable, Rest
  <1> QED
    BY <1>5, <1>6, <1>7, <1>8, <1>9, <1>10 DEF Network

(* The commands that name a server.                                         *)
LEMMA UserKeeps ==
    ASSUME IInv, NEW i \in Refnums(client), User(i)
    PROVE  IInv'
  <1>1. Good(client) /\ i \in Int /\ Rest /\ None \in Int
    BY FieldTypes DEF IInv, None
  <1>2. /\ Good(Typed) /\ Refnums(Typed) = Refnums(client)
        /\ Typed.from_server \in Int /\ Typed.windows = client.windows
    BY <1>1, GoodTyped
  <1>3. ASSUME NEW C, Good(C), Command(C), UNCHANGED <<timers, in_timed_server>>,
               prompt' \in Int
        PROVE  IInv'
    BY <1>1, <1>3, CommandKeeps DEF IInv, Rest
  <1>4. ASSUME NEW C, Good(C), Command(C), Others
        PROVE  IInv'
    BY <1>1, <1>3, <1>4 DEF Others, Rest
  <1>5. ASSUME NEW c \in Int, NEW outcome
        PROVE  /\ Good(ConnectToServer(Typed, i, c, outcome))
               /\ ConnectToServer(Typed, i, c, outcome).from_server \in Int
    <2> DEFINE C == ConnectToServer(Typed, i, c, outcome)
    <2>1. Good(C)
      BY <1>2, GoodConnect
    <2> HIDE DEF C
    <2>2. C.from_server \in Int
      BY <2>1 DEF Good, ClientOK, ClientType
    <2> QED
      BY <2>1, <2>2 DEF C
  <1>6. CASE ServerCmd(i)
    <2>1. PICK outcome \in Outcomes :
            LET C == ConnectToServer(Typed, i, client.primary_server, outcome)
                D == ChangeServerChannels(C, C.primary_server, C.from_server)
            IN /\ Command(IF Connects(client, i, outcome)
                          THEN SetPrimaryServer(D, D.from_server) ELSE C)
               /\ Others
      BY <1>6 DEF ServerCmd
    <2> DEFINE C == ConnectToServer(Typed, i, client.primary_server, outcome)
               D == ChangeServerChannels(C, C.primary_server, C.from_server)
               E == SetPrimaryServer(D, D.from_server)
    <2>2. Good(C)
      BY <1>1, <1>5, FieldTypes
    <2> HIDE DEF C
    <2>3. Good(D)
      BY <2>2, GoodChannels
    <2> HIDE DEF D
    <2>4. D.from_server \in Int
      BY <2>3 DEF Good, ClientOK, ClientType
    <2>5. Good(E)
      BY <2>3, <2>4, GoodSetPrimary
    <2>6. Command(IF Connects(client, i, outcome) THEN E ELSE C) /\ Others
      BY <2>1 DEF C, D
    <2> HIDE DEF E
    <2>7. Good(IF Connects(client, i, outcome) THEN E ELSE C)
      BY <2>2, <2>5
    <2> QED
      BY <1>4, <2>6, <2>7
  <1>7. CASE CloseCmd(i)
    <2>1. Good(WindowCheckServers(CloseServer(Typed, i)))
      BY <1>2, GoodClose, GoodCheck
    <2> QED
      BY <1>4, <1>7, <2>1 DEF CloseCmd
  <1>8. CASE DeleteServer(i)
    <2>1. Typed.number_of_servers = client.number_of_servers
      BY DEF Typed
    <2>2. Good(RemoveFromServerList(Typed, i))
      BY <1>2, <1>8, <2>1, GoodRemove DEF DeleteServer
    <2> QED
      BY <1>4, <1>8, <2>2 DEF DeleteServer
  <1>9. CASE Disconnect(i)
    <2> DEFINE here == Typed.from_server
               B == [Typed EXCEPT !.server_list[i].channels = FALSE]
               C == CloseServer(B, i)
               D == IF here \in Refnums(client) THEN CleanWhoisQueue(SetEof(C, i), here)
                    ELSE SetEof(C, i)
    <2>1. Record([Typed.server_list[i] EXCEPT !.channels = FALSE])
      BY <1>2 DEF Good, Record, Server
    <2>2. Good(B)
      BY <1>2, <2>1, GoodUpdate
    <2>3. Good(C)
      BY <2>2, GoodClose
    <2>4. Good(SetEof(C, i))
      BY <2>3, GoodEof
    <2>5. Good(WindowCheckServers(D))
      BY <2>4, GoodClean, GoodCheck
    <2>6. Command(WindowCheckServers(D)) /\ Others
      BY <1>9 DEF Disconnect
    <2> QED
      BY <1>4, <2>5, <2>6
  <1>10. CASE PasswordSendline(i)
    <2>1. PICK outcome : Command(ConnectToServer(Typed, i, None, outcome))
      BY <1>10 DEF PasswordSendline
    <2>2. Good(ConnectToServer(Typed, i, None, outcome))
      BY <1>1, <1>5
    <2>3. prompt' \in Int
      BY <1>1, <1>10 DEF PasswordSendline
    <2> QED
      BY <1>3, <1>10, <2>1, <2>2, <2>3 DEF PasswordSendline
  <1>11. ASSUME NEW w \in DOMAIN client.windows, WindowServer(w, i) PROVE IInv'
    <2>1. PICK outcome :
            LET C == ConnectToServer(Typed, i, None, outcome)
            IN /\ Command(IF Connects(client, i, outcome) THEN SetWindowServer(C, w, i) ELSE C)
               /\ Others
      BY <1>11 DEF WindowServer
    <2> DEFINE C == ConnectToServer(Typed, i, None, outcome)
    <2>2. Good(C)
      BY <1>1, <1>5
    <2>3. DOMAIN C.windows = DOMAIN client.windows
      BY <1>1, <1>2 DEF ConnectToServer, LoginToServer, CloseServer, None
    <2> HIDE DEF C
    <2>4. Good(SetWindowServer(C, w, i))
      BY <1>1, <2>2, <2>3, GoodSetWindow
    <2>5. Good(IF Connects(client, i, outcome) THEN SetWindowServer(C, w, i) ELSE C)
      BY <2>2, <2>4
    <2> QED
      BY <1>4, <2>1, <2>5 DEF C
  <1> QED
    BY <1>6, <1>7, <1>8, <1>9, <1>10, <1>11 DEF User

(* Timers, windows and the commands that name no server.                    *)
LEMMA OthersKeep ==
    ASSUME IInv,
           \/ ReadBeyondEnd \/ MinuteTick \/ TimedServer
           \/ \E step \in {1, -1} : NextServer(step)
           \/ \E name \in Names : AddServer(name)
           \/ Reconnect \/ AskWhois
           \/ \E w \in Windows : NewWindow(w) \/ DeleteWindow(w) \/ SwitchWindow(w)
    PROVE  IInv'
  <1>1. Good(client) /\ Rest /\ None \in Int
    BY DEF IInv, None
  <1>2. /\ Good(Typed) /\ Refnums(Typed) = Refnums(client)
        /\ Typed.from_server \in Int /\ Typed.windows = client.windows
    BY <1>1, GoodTyped
  <1>3. ASSUME NEW C, Good(C), Command(C), Others
        PROVE  IInv'
    BY <1>1, <1>3, CommandKeeps DEF IInv, Rest, Others
  <1>4. CASE ReadBeyondEnd
    <2>1. Good(client')
      BY <1>1, <1>4, GoodFrom DEF ReadBeyondEnd, From, Rest
    <2> QED
      BY <1>1, <1>4, <2>1 DEF ReadBeyondEnd, IInv, Rest
  <1>5. CASE MinuteTick
    <2>1. timers' \in 0 .. MaxTimers
      BY <1>1, <1>5, MaxTimersAssumption DEF MinuteTick, AddServerTimer, Rest
    <2>2. in_timed_server' \in BOOLEAN
      BY <1>5, Zenon DEF MinuteTick, AddServerTimer
    <2> QED
      BY <1>1, <1>5, <2>1, <2>2 DEF MinuteTick, IInv, Rest
  <1>6. CASE TimedServer
    <2>1. Good(client')
      BY <1>1, <1>6, GoodGetConnected DEF TimedServer
    <2>2. timers' \in 0 .. MaxTimers
      BY <1>1, <1>6, MaxTimersAssumption DEF TimedServer, Rest
    <2>3. in_timed_server' \in BOOLEAN
      BY <1>6, Zenon DEF TimedServer
    <2> QED
      BY <1>1, <1>6, <2>1, <2>2, <2>3 DEF TimedServer, IInv, Rest
  <1>7. ASSUME NEW step \in {1, -1}, NextServer(step) PROVE IInv'
    <2>1. PICK C \in GetConnectedResults(Typed, client.primary_server + step) : Command(C)
      BY <1>7 DEF NextServer
    <2>2. client.primary_server + step \in Int
      BY <1>1, FieldTypes
    <2>3. Good(C)
      BY <1>2, <2>2, GoodGetConnected
    <2> QED
      BY <1>3, <1>7, <2>1, <2>3 DEF NextServer
  <1>8. ASSUME NEW name \in Names, AddServer(name) PROVE IInv'
    BY <1>1, <1>3, <1>8, GoodAdd DEF AddServer
  <1>9. CASE Reconnect
    <2> DEFINE i == Typed.from_server
               C == WindowCheckServers(CleanWhoisQueue(CloseServer(Typed, i), i))
    <2>1. i \in Refnums(client)
      BY <1>9 DEF Reconnect
    <2>2. PICK outcome :
             LET D == ConnectToServer(C, i, None, outcome)
             IN Command(IF outcome = "fail" THEN D
                        ELSE SetWindowServer(D, client.curr_scr_win, i))
      BY <1>9 DEF Reconnect
    <2>3. Good(CloseServer(Typed, i)) /\ Refnums(CloseServer(Typed, i)) = Refnums(client)
      BY <1>2, GoodClose
    <2>4. Good(C) /\ Refnums(C) = Refnums(client)
      BY <2>3, GoodClean, GoodCheck
    <2>5. DOMAIN C.windows = DOMAIN client.windows
      BY <1>2 DEF WindowCheckServers, CleanWhoisQueue, CloseServer
    <2> HIDE DEF C
    <2> DEFINE D == ConnectToServer(C, i, None, outcome)
    <2>6. Good(D)
      BY <1>1, <2>1, <2>4, GoodConnect
    <2>7. DOMAIN D.windows = DOMAIN client.windows
      BY <2>5 DEF ConnectToServer, LoginToServer, CloseServer, None
    <2> HIDE DEF D
    <2>8. Good(SetWindowServer(D, client.curr_scr_win, i))
      BY <1>1, <1>2, <2>6, <2>7, FieldTypes, GoodSetWindow
    <2>9. Good(IF outcome = "fail" THEN D ELSE SetWindowServer(D, client.curr_scr_win, i))
      BY <2>6, <2>8
    <2>10. Command(IF outcome = "fail" THEN D ELSE SetWindowServer(D, client.curr_scr_win, i))
      BY <2>2 DEF D
    <2>11. Others
      BY <1>9 DEF Reconnect
    <2> QED
      BY <1>3, <2>9, <2>10, <2>11
  <1>10. CASE AskWhois
    <2> DEFINE i == Typed.from_server
    <2>1. i \in Refnums(client)
      BY <1>10 DEF AskWhois
    <2>2. Record([client.server_list[i] EXCEPT !.whois = TRUE])
      BY <1>1, <2>1 DEF Good, Record, Server
    <2>3. Good([client EXCEPT !.server_list[i].whois = TRUE])
      BY <1>1, <2>2, GoodUpdate
    <2> QED
      BY <1>3, <1>10, <2>3 DEF AskWhois
  <1>11. ASSUME NEW w \in Windows, NewWindow(w) PROVE IInv'
    <2> DEFINE D == [client EXCEPT
            !.windows = [v \in DOMAIN client.windows \cup {w} |->
                IF v = w THEN Typed.from_server ELSE client.windows[v]],
            !.curr_scr_win = w]
    <2>1. Good(D)
      BY <1>1, <1>2, <1>11 DEF Good, ClientOK, ClientType, Refnums
    <2> QED
      BY <1>3, <1>11, <2>1 DEF NewWindow
  <1>12. ASSUME NEW w \in Windows, DeleteWindow(w) PROVE IInv'
    <2>1. PICK v \in DOMAIN client.windows \ {w} :
             Command(WindowCheckServers([client EXCEPT
                !.windows = [u \in DOMAIN client.windows \ {w} |-> client.windows[u]],
                !.curr_scr_win = v]))
      BY <1>12 DEF DeleteWindow
    <2> DEFINE D == [client EXCEPT
                !.windows = [u \in DOMAIN client.windows \ {w} |-> client.windows[u]],
                !.curr_scr_win = v]
    <2>2. Good(D)
      BY <1>1 DEF Good, ClientOK, ClientType, Refnums
    <2> HIDE DEF D
    <2>3. Good(WindowCheckServers(D))
      BY <2>2, GoodCheck
    <2> QED
      BY <1>3, <1>12, <2>1, <2>3 DEF DeleteWindow, D
  <1>13. ASSUME NEW w \in Windows, SwitchWindow(w) PROVE IInv'
    <2>1. Good([client EXCEPT !.curr_scr_win = w])
      BY <1>1, <1>13 DEF SwitchWindow, Good, ClientOK, ClientType, Refnums
    <2> QED
      BY <1>3, <1>13, <2>1 DEF SwitchWindow
  <1> QED
    BY <1>4, <1>5, <1>6, <1>7, <1>8, <1>9, <1>10, <1>11, <1>12, <1>13

\* Every action keeps the invariant.
LEMMA NextIInv == IInv /\ [Next]_vars => IInv'
  <1> SUFFICES ASSUME IInv, [Next]_vars PROVE IInv'
    OBVIOUS
  <1>1. CASE Next
    BY <1>1, NetworkKeeps, UserKeeps, OthersKeep DEF Next
  <1>2. CASE UNCHANGED vars
    BY <1>2 DEF vars, IInv, Rest
  <1> QED
    BY <1>1, <1>2

----------------------------------------------------------------------------
(* Through any sequence of connects, losses, closes, deletions, additions   *)
(* and window commands the list holds number_of_servers records, every      *)
(* window and refnum variable its type, and the timers their bound.         *)
THEOREM TypeCorrect == Spec => []TypeOK
  <1>1. IInv => TypeOK
    BY DEF IInv, Rest, Good, TypeOK
  <1> QED
    BY <1>1, InitIInv, NextIInv, PTL DEF Spec

(* A server marked connected has a socket, whatever closed it.              *)
THEOREM ConnectedOpen == Spec => []ConnectedIsOpen
  <1>1. IInv => ConnectedIsOpen
    BY DEF IInv, Good, Record, ConnectedIsOpen
  <1> QED
    BY <1>1, InitIInv, NextIInv, PTL DEF Spec

----------------------------------------------------------------------------
(* Windows, the count of connections, and the channels to rejoin.           *)
(*                                                                          *)
(* window_check_servers makes a client Settled whatever it was, as long as  *)
(* the windows hold refnums (Fit); every handler either ends in that check  *)
(* or closes no server a window shows (Stays).  Two cases do neither.  A    *)
(* 464 closes the server and leaves it to the reading loop, which comes     *)
(* back to the same refnum before anything else runs: Halfway describes     *)
(* that point by the client the loop started from.  /SERVER -DELETE of a    *)
(* server that is open but not yet registered leaves a window on a refnum   *)
(* that names another server or none, and the count too high: what is said  *)
(* of windows holds only where nothing is deleted (NoDeletion); what is     *)
(* said of channels, and the safety of the list, holds with deletions too.  *)

NoDeletion == "delete" \notin Events

(* A window or primary_server holds a refnum or -1.                         *)
IsRefnum(C, s) == s = None \/ s \in Refnums(C)
Placed(C) == \A w \in DOMAIN C.windows : IsRefnum(C, C.windows[w])

(* The open servers some window shows, which connected_to_server counts.    *)
Shown(C) == {i \in Refnums(C) : IsOpen(C, i) /\ \E w \in DOMAIN C.windows : C.windows[w] = i}

Seen(C) == /\ \A w \in DOMAIN C.windows : C.windows[w] # None => IsOpen(C, C.windows[w])
           /\ C.connected_to_server = Cardinality(Shown(C))

(* The closed servers that have kept their channels.                        *)
Kept(C) == {i \in Refnums(C) : C.server_list[i].channels /\ ~C.server_list[i].sock}
OneKept(C) == \A i, j \in Kept(C) : i = j

(* The check moves every window to an open server and counts what is shown. *)
LEMMA CheckSeen ==
    ASSUME NEW C, Good(C), Placed(C)
    PROVE  Seen(WindowCheckServers(C))
  <1> DEFINE W == WindowCheckServers(C)
             lost == C.primary_server \notin Held(C)
             moved(s) == IF s \in Refnums(C) /\ ~IsOpen(C, s) THEN C.primary_server ELSE s
             rescued(s) == IF lost /\ s = C.primary_server THEN Prime(C) ELSE s
  <1>1. Refnums(W) = Refnums(C) /\ None \notin Refnums(C) /\ Refnums(C) \subseteq Nat
    BY GoodCheck DEF Refnums, None
  <1>2. W.windows = [w \in DOMAIN C.windows |-> rescued(moved(C.windows[w]))]
    BY DEF WindowCheckServers, Good, ClientOK, ClientType
  <1>3. \A i \in Refnums(C) : IsOpen(W, i) <=> i \in Held(C)
    <2>1. \A i \in Refnums(C) : W.server_list[i] = IF i \in Held(C) THEN C.server_list[i]
                ELSE Shut(C.server_list[i], i = C.primary_server)
      BY DEF WindowCheckServers, Good, ClientOK, ClientType
    <2>2. \A i \in Held(C) : C.server_list[i].sock
      BY DEF Held, IsOpen
    <2>3. \A i \in Refnums(C) : Shut(C.server_list[i], i = C.primary_server).sock = FALSE
      BY DEF Shut, Good, Record, Server
    <2> HIDE DEF W
    <2> QED
      BY <1>1, <2>1, <2>2, <2>3 DEF IsOpen
  <1>4. W.connected_to_server = Cardinality(Held(C))
    BY DEF WindowCheckServers, Counted, Good, ClientOK, ClientType
  <1>5. Held(C) \subseteq Refnums(C) /\ (Prime(C) = None \/ Prime(C) \in Held(C))
    BY HeldFacts DEF Prime
  <1> HIDE DEF W
  <1>6. ASSUME NEW w \in DOMAIN C.windows
        PROVE  W.windows[w] = None \/ W.windows[w] \in Held(C)
    <2>1. C.windows[w] = None \/ C.windows[w] \in Refnums(C)
      BY DEF Placed, IsRefnum
    <2>2. CASE C.windows[w] \in Refnums(C) /\ IsOpen(C, C.windows[w])
      <3>1. C.windows[w] \in Held(C)
        BY <2>2 DEF Held, Shows
      <3> QED
        BY <1>2, <2>2, <3>1
    <2>3. CASE C.windows[w] \in Refnums(C) /\ ~IsOpen(C, C.windows[w])
      BY <1>2, <1>5, <2>3
    <2>4. CASE C.windows[w] = None
      BY <1>1, <1>2, <1>5, <2>4
    <2> QED
      BY <2>1, <2>2, <2>3, <2>4
  <1>7. ASSUME NEW i \in Held(C)
        PROVE  \E w \in DOMAIN C.windows : W.windows[w] = i
    <2>1. PICK w \in DOMAIN C.windows : Shows(C, w, i)
      BY DEF Held
    <2>2. IsOpen(C, i) /\ i \in Refnums(C)
      BY DEF Held
    <2>3. CASE C.windows[w] = i
      BY <1>2, <2>2, <2>3
    <2>4. CASE /\ i = C.primary_server /\ C.windows[w] \in 0 .. i - 1
               /\ ~IsOpen(C, C.windows[w])
      <3>1. C.windows[w] \in Refnums(C)
        BY <1>5, <2>4 DEF Refnums, Good, ClientOK
      <3> QED
        BY <1>2, <2>4, <3>1
    <2> QED
      BY <2>1, <2>3, <2>4 DEF Shows
  <1>8. DOMAIN W.windows = DOMAIN C.windows
    BY <1>2
  <1>9. Shown(W) = Held(C)
    BY <1>1, <1>3, <1>5, <1>6, <1>7, <1>8 DEF Shown
  <1> QED
    BY <1>1, <1>3, <1>4, <1>5, <1>6, <1>8, <1>9 DEF Seen, W

(* The check leaves channels only to the server that was primary before it. *)
LEMMA CheckKept ==
    ASSUME NEW C, Good(C)
    PROVE  /\ Kept(WindowCheckServers(C)) \subseteq {C.primary_server}
           /\ OneKept(WindowCheckServers(C))
  <1> DEFINE W == WindowCheckServers(C)
  <1>1. Refnums(W) = Refnums(C)
    BY GoodCheck
  <1>2. \A i \in Refnums(C) : W.server_list[i] = IF i \in Held(C) THEN C.server_list[i]
                ELSE Shut(C.server_list[i], i = C.primary_server)
    BY DEF WindowCheckServers, Good, ClientOK, ClientType
  <1>3. \A i \in Held(C) : C.server_list[i].sock
    BY DEF Held, IsOpen
  <1>4. \A i \in Refnums(C) : i # C.primary_server =>
            Shut(C.server_list[i], i = C.primary_server).channels = FALSE
    BY DEF Shut, Good, Record, Server
  <1> HIDE DEF W
  <1>5. Kept(W) \subseteq {C.primary_server}
    BY <1>1, <1>2, <1>3, <1>4 DEF Kept
  <1> QED
    BY <1>5 DEF OneKept, W

(* What the operators leave alone; D may open servers but closes none.      *)
Alike(C, D) == /\ Refnums(D) = Refnums(C)
               /\ D.windows = C.windows
               /\ D.connected_to_server = C.connected_to_server

Stays(C, D) ==
    /\ Alike(C, D)
    /\ \A i \in Refnums(C) :
         /\ C.server_list[i].sock => D.server_list[i].sock
         /\ D.server_list[i].channels /\ ~D.server_list[i].sock
              => C.server_list[i].channels /\ ~C.server_list[i].sock

(* What window_check_servers needs, and what it gives.                      *)
Fit(C) == Good(C) /\ (NoDeletion => Placed(C))
Settled(C) == Good(C) /\ (NoDeletion => Seen(C)) /\ OneKept(C)

(* A settled client is fit for the next check.                              *)
LEMMA SettledFits ==
    ASSUME NEW C, Settled(C)
    PROVE  Fit(C)
  BY DEF Settled, Fit, Seen, Placed, IsRefnum, IsOpen

(* Fitness depends on the windows and the refnums only.                     *)
LEMMA FitAlike ==
    ASSUME NEW C, NEW D, Fit(C), Good(D), Alike(C, D)
    PROVE  Fit(D)
  BY DEF Fit, Alike, Placed, IsRefnum

(* Opening servers, or changing what is not looked at, keeps a client       *)
(* settled.                                                                 *)
LEMMA SettledStays ==
    ASSUME NEW C, NEW D, Settled(C), Good(D), Stays(C, D)
    PROVE  Settled(D)
  <1>1. ASSUME NoDeletion PROVE Seen(D)
    <2>1. Seen(C)
      BY <1>1 DEF Settled
    <2>2. None \notin Refnums(C)
      BY DEF None, Refnums
    <2>3. ASSUME NEW i \in Refnums(C), NEW w \in DOMAIN C.windows, C.windows[w] = i
          PROVE  IsOpen(C, i) /\ IsOpen(D, i)
      BY <2>1, <2>2, <2>3 DEF Seen, Stays, Alike, IsOpen
    <2>4. Shown(D) = Shown(C)
      BY <2>3 DEF Shown, Stays, Alike
    <2> QED
      BY <2>1, <2>4 DEF Seen, Stays, Alike, IsOpen
  <1>2. OneKept(D)
    BY DEF OneKept, Kept, Settled, Stays, Alike
  <1> QED
    BY <1>1, <1>2 DEF Settled

(* window_check_servers settles a fit client.                               *)
LEMMA CheckSettles ==
    ASSUME NEW C, Fit(C)
    PROVE  Settled(WindowCheckServers(C)) /\ Refnums(WindowCheckServers(C)) = Refnums(C)
  BY CheckSeen, CheckKept, GoodCheck DEF Fit, Settled

(* close_server moves no window.                                            *)
LEMMA CloseAlike ==
    ASSUME NEW C, Good(C), NEW i
    PROVE  Good(CloseServer(C, i)) /\ Alike(C, CloseServer(C, i))
  <1>1. /\ CloseServer(C, i).windows = C.windows
        /\ CloseServer(C, i).connected_to_server = C.connected_to_server
    BY DEF CloseServer
  <1> QED
    BY <1>1, GoodClose DEF Alike

(* close_server shuts its server and touches no other.                      *)
LEMMA CloseShuts ==
    ASSUME NEW C, Good(C), NEW i \in Refnums(C)
    PROVE  LET K == CloseServer(C, i)
           IN  /\ ~K.server_list[i].sock
               /\ i # C.primary_server => ~K.server_list[i].channels
               /\ \A k \in Refnums(C) \ {i} : K.server_list[k] = C.server_list[k]
  <1> DEFINE s == Shut(C.server_list[i], i = C.primary_server)
  <1>1. \A k \in Refnums(C) :
           CloseServer(C, i).server_list[k] = IF k = i THEN s ELSE C.server_list[k]
    BY DEF CloseServer, Good, ClientOK, ClientType, Refnums
  <1>2. s.sock = FALSE /\ (i # C.primary_server => ~s.channels)
    BY DEF Shut, Good, Record, Server
  <1> HIDE DEF s
  <1> QED
    BY <1>1, <1>2

(* clean_whois_queue, the eof mark and from_server touch nothing counted.   *)
LEMMA CleanStays ==
    ASSUME NEW C, Good(C), NEW i
    PROVE  Good(CleanWhoisQueue(C, i)) /\ Stays(C, CleanWhoisQueue(C, i))
  <1> DEFINE D == CleanWhoisQueue(C, i)
  <1>1. /\ D.windows = C.windows
        /\ D.connected_to_server = C.connected_to_server
    BY DEF CleanWhoisQueue
  <1>2. \A k \in Refnums(C) : /\ D.server_list[k].sock = C.server_list[k].sock
                              /\ D.server_list[k].channels = C.server_list[k].channels
    BY DEF CleanWhoisQueue, Good, ClientOK, ClientType, Refnums
  <1>3. Good(D) /\ Refnums(D) = Refnums(C)
    BY GoodClean
  <1> QED
    BY <1>1, <1>2, <1>3 DEF Alike, Stays

LEMMA EofStays ==
    ASSUME NEW C, Good(C), NEW i
    PROVE  Good(SetEof(C, i)) /\ Stays(C, SetEof(C, i))
  <1> DEFINE D == SetEof(C, i)
  <1>1. /\ D.windows = C.windows
        /\ D.connected_to_server = C.connected_to_server
    BY DEF SetEof
  <1>2. \A k \in Refnums(C) : /\ D.server_list[k].sock = C.server_list[k].sock
                              /\ D.server_list[k].channels = C.server_list[k].channels
    BY DEF SetEof, Good, ClientOK, ClientType, Refnums
  <1>3. Good(D) /\ Refnums(D) = Refnums(C)
    BY GoodEof
  <1> QED
    BY <1>1, <1>2, <1>3 DEF Alike, Stays

LEMMA FromStays ==
    ASSUME NEW C, Good(C), NEW k \in Int
    PROVE  LET D == [C EXCEPT !.from_server = k]
           IN  Good(D) /\ Stays(C, D) /\ D.from_server = k
  <1> DEFINE D == [C EXCEPT !.from_server = k]
  <1>1. /\ D.windows = C.windows /\ D.server_list = C.server_list
        /\ D.connected_to_server = C.connected_to_server
        /\ D.from_server = k
    BY DEF Good, ClientOK, ClientType
  <1>2. Good(D) /\ Refnums(D) = Refnums(C)
    BY GoodFrom
  <1> QED
    BY <1>1, <1>2 DEF Alike, Stays

(* connect_to_server moves no window.                                       *)
LEMMA ConnectAlike ==
    ASSUME NEW C, Good(C), NEW i \in Refnums(C), NEW c \in Int, NEW outcome
    PROVE  LET D == ConnectToServer(C, i, c, outcome)
           IN  /\ Good(D) /\ Alike(C, D) /\ D.from_server = i
               /\ D.primary_server = C.primary_server
  <1> DEFINE D == ConnectToServer(C, i, c, outcome)
  <1>1. /\ D.windows = C.windows
        /\ D.connected_to_server = C.connected_to_server
        /\ D.from_server = i
        /\ D.primary_server = C.primary_server
    BY DEF ConnectToServer, LoginToServer, CloseServer, Good, ClientOK, ClientType
  <1>2. Good(D) /\ Refnums(D) = Refnums(C)
    BY GoodConnect
  <1> QED
    BY <1>1, <1>2 DEF Alike

(* A connect that replaces no server closes none.                           *)
LEMMA ConnectStays ==
    ASSUME NEW C, Good(C), NEW i \in Refnums(C), NEW outcome
    PROVE  Stays(C, ConnectToServer(C, i, None, outcome))
  <1> DEFINE D == ConnectToServer(C, i, None, outcome)
  <1>1. \A k \in Refnums(C) :
           /\ D.server_list[k].channels = C.server_list[k].channels
           /\ C.server_list[k].sock => D.server_list[k].sock
    BY DEF ConnectToServer, LoginToServer, Good, ClientOK, ClientType, Refnums
  <1>2. Alike(C, D)
    BY ConnectAlike DEF None
  <1>3. \A k \in Refnums(C) : D.server_list[k].sock \in BOOLEAN
    BY ConnectAlike DEF None, Good, Alike, Record, Server
  <1> QED
    BY <1>1, <1>2, <1>3 DEF Stays

(* A connect closes no server but the one it replaces, and opens its own.   *)
LEMMA ConnectLists ==
    ASSUME NEW C, Good(C), NEW i \in Refnums(C), NEW c \in Int, NEW outcome
    PROVE  LET D == ConnectToServer(C, i, c, outcome)
           IN  /\ Connects(C, i, outcome) => D.server_list[i].sock
               /\ \A k \in Refnums(C) \ {c} :
                     C.server_list[k].sock => D.server_list[k].sock
  <1> DEFINE F == [C EXCEPT !.from_server = i]
             r == [F.server_list[i] EXCEPT !.sock = TRUE, !.logged_in = FALSE]
             opened == [F EXCEPT !.server_list[i] = r]
             D == ConnectToServer(C, i, c, outcome)
  <1>0. i \in Int
    BY DEF Refnums
  <1>1. Good(F) /\ Refnums(F) = Refnums(C) /\ F.server_list = C.server_list
    BY <1>0, GoodScalars DEF Good, ClientOK, ClientType
  <1> HIDE DEF F
  <1>2. Record(r) /\ r.sock
    BY <1>1 DEF Good, Record, Server
  <1> HIDE DEF r
  <1>3. Good(opened) /\ Refnums(opened) = Refnums(C)
    BY <1>1, <1>2, GoodUpdate
  <1>4. /\ opened.server_list[i].sock
        /\ \A k \in Refnums(C) : k # i => opened.server_list[k] = C.server_list[k]
    BY <1>1, <1>2 DEF Good, ClientOK, ClientType, Refnums
  <1>5. [C EXCEPT !.from_server = i, !.server_list[i].sock = TRUE,
                  !.server_list[i].logged_in = FALSE] = opened
    BY DEF F, r, Good, ClientOK, ClientType, Refnums
  <1> HIDE DEF opened
  <1> DEFINE L == LoginToServer(opened, i, c)
             E == IF c \in {None, i} THEN opened ELSE CloseServer(opened, c)
             q == [E.server_list[i] EXCEPT !.logged_in = TRUE, !.connected = TRUE]
  <1>6. \A k \in Refnums(C) : k = i \/ k # c => E.server_list[k] = opened.server_list[k]
    <2>1. CASE c \in {None, i}
      BY <2>1
    <2>2. CASE c \notin {None, i}
      BY <1>3, <2>2 DEF CloseServer, Good, ClientOK, ClientType, Refnums
    <2> QED
      BY <2>1, <2>2
  <1>7. Good(E) /\ Refnums(E) = Refnums(C)
    BY <1>3, GoodClose
  <1>8. L = [E EXCEPT !.server_list[i] = q]
    BY <1>7 DEF LoginToServer, Good, ClientOK, ClientType, Refnums
  <1> HIDE DEF E
  <1>9. q.sock = E.server_list[i].sock
    BY <1>7 DEF Good, Record, Server
  <1> HIDE DEF q
  <1>10. \A k \in Refnums(C) : L.server_list[k] = IF k = i THEN q ELSE E.server_list[k]
    BY <1>7, <1>8 DEF Good, ClientOK, ClientType, Refnums
  <1> HIDE DEF L
  <1>11. /\ L.server_list[i].sock
         /\ \A k \in Refnums(C) \ {c} : C.server_list[k].sock => L.server_list[k].sock
    BY <1>4, <1>6, <1>9, <1>10
  <1>12. D = IF C.server_list[i].sock \/ outcome = "fail" THEN F
             ELSE IF outcome = "login" THEN L ELSE opened
    BY <1>5 DEF ConnectToServer, F, L
  <1> HIDE DEF D
  <1> QED
    BY <1>1, <1>4, <1>11, <1>12 DEF Connects, D

(* change_server_channels moves no window and closes no server.             *)
LEMMA ChannelsAlike ==
    ASSUME NEW C, Good(C), NEW old, NEW new
    PROVE  LET D == ChangeServerChannels(C, old, new)
           IN  Good(D) /\ Alike(C, D) /\ D.from_server = C.from_server
  <1> DEFINE D == ChangeServerChannels(C, old, new)
  <1>1. /\ D.windows = C.windows
        /\ D.connected_to_server = C.connected_to_server
        /\ D.from_server = C.from_server
    BY DEF ChangeServerChannels
  <1>2. Good(D) /\ Refnums(D) = Refnums(C)
    BY GoodChannels
  <1> QED
    BY <1>1, <1>2 DEF Alike

LEMMA ChannelsSockets ==
    ASSUME NEW C, Good(C), NEW old, NEW new
    PROVE  LET D == ChangeServerChannels(C, old, new)
           IN  \A k \in Refnums(C) : D.server_list[k].sock = C.server_list[k].sock
  <1>1. ASSUME NEW B, Good(B), NEW s, NEW b \in BOOLEAN
        PROVE  LET D == [B EXCEPT !.server_list[s] = [B.server_list[s] EXCEPT !.channels = b]]
               IN  /\ Good(D) /\ Refnums(D) = Refnums(B)
                   /\ \A k \in Refnums(B) : D.server_list[k].sock = B.server_list[k].sock
    <2> DEFINE r == [B.server_list[s] EXCEPT !.channels = b]
               D == [B EXCEPT !.server_list[s] = r]
    <2>1. s \in Refnums(B) => Record(r) /\ r.sock = B.server_list[s].sock
      BY <1>1 DEF Good, Record, Server
    <2> HIDE DEF r
    <2>2. Good(D) /\ Refnums(D) = Refnums(B)
      BY <1>1, <2>1, GoodUpdate
    <2>3. \A k \in Refnums(B) : D.server_list[k] = IF k = s THEN r ELSE B.server_list[k]
      BY <1>1 DEF Good, ClientOK, ClientType, Refnums
    <2> QED
      BY <2>1, <2>2, <2>3 DEF r
  <1> DEFINE b == old \in Refnums(C) /\ C.server_list[old].channels
             B == [C EXCEPT !.server_list[new] = [C.server_list[new] EXCEPT !.channels = b]]
             D == [B EXCEPT !.server_list[old] = [B.server_list[old] EXCEPT !.channels = FALSE]]
  <1>2. b \in BOOLEAN
    OBVIOUS
  <1> HIDE DEF b
  <1>3. /\ Good(B) /\ Refnums(B) = Refnums(C)
        /\ \A k \in Refnums(C) : B.server_list[k].sock = C.server_list[k].sock
    BY <1>1, <1>2
  <1> HIDE DEF B
  <1>4. \A k \in Refnums(C) : D.server_list[k].sock = C.server_list[k].sock
    BY <1>1, <1>3
  <1>5. ChangeServerChannels(C, old, new) = IF new = old \/ new = None \/ old = None THEN C ELSE D
    BY DEF ChangeServerChannels, b, B
  <1> HIDE DEF D
  <1> QED
    BY <1>4, <1>5

(* set_window_server settles a fit client.                                  *)
LEMMA WindowSettles ==
    ASSUME NEW C, Fit(C), NEW w \in DOMAIN C.windows, NEW s \in Int, IsRefnum(C, s)
    PROVE  Settled(SetWindowServer(C, w, s))
  <1> DEFINE D == [C EXCEPT !.windows[w] = s]
  <1>1. Good(D) /\ Refnums(D) = Refnums(C)
    BY DEF Fit, Good, ClientOK, ClientType, Refnums, Record
  <1>2. /\ DOMAIN D.windows = DOMAIN C.windows
        /\ \A v \in DOMAIN C.windows : D.windows[v] = IF v = w THEN s ELSE C.windows[v]
    BY DEF Fit, Good, ClientOK, ClientType
  <1> HIDE DEF D
  <1>3. Fit(D)
    BY <1>1, <1>2 DEF Fit, Placed, IsRefnum
  <1> QED
    BY <1>3, CheckSettles DEF SetWindowServer, D

LEMMA PrimarySettles ==
    ASSUME NEW C, Fit(C), NEW s, IsRefnum(C, s)
    PROVE  /\ Settled(SetPrimaryServer(C, s))
           /\ Refnums(SetPrimaryServer(C, s)) = Refnums(C)
  <1> DEFINE shown == [w \in DOMAIN C.windows |->
                         IF C.windows[w] = C.primary_server THEN s ELSE C.windows[w]]
             D == [C EXCEPT !.windows = shown]
             W == WindowCheckServers(D)
             P == [W EXCEPT !.primary_server = s]
  <1>0. s \in Int
    BY DEF IsRefnum, None, Refnums
  <1>1. shown \in [DOMAIN C.windows -> Int]
    BY <1>0 DEF Fit, Good, ClientOK, ClientType
  <1>2. \A w \in DOMAIN shown : NoDeletion => IsRefnum(C, shown[w])
    BY DEF Fit, Placed, IsRefnum
  <1> HIDE DEF shown
  <1>3. Good(D) /\ Refnums(D) = Refnums(C) /\ D.windows = shown
    BY <1>1 DEF Fit, Good, ClientOK, ClientType, Refnums, Record
  <1> HIDE DEF D
  <1>4. Fit(D)
    BY <1>2, <1>3 DEF Fit, Placed, IsRefnum
  <1>5. Settled(W) /\ Refnums(W) = Refnums(C)
    BY <1>3, <1>4, CheckSettles
  <1> HIDE DEF W
  <1>6. Good(P) /\ Refnums(P) = Refnums(C)
    BY <1>0, <1>5, GoodScalars DEF Settled
  <1>7. P.windows = W.windows /\ P.server_list = W.server_list
        /\ P.connected_to_server = W.connected_to_server
    OBVIOUS
  <1>8. Stays(W, P)
    BY <1>5, <1>6, <1>7 DEF Stays, Alike
  <1>9. Settled(P)
    BY <1>5, <1>6, <1>8, SettledStays
  <1>10. SetPrimaryServer(C, s) = P
    BY DEF SetPrimaryServer, P, W, D, shown
  <1> QED
    BY <1>6, <1>9, <1>10

(* get_connected settles a fit client, whatever its attempts end in.        *)
LEMMA GetConnectedSettles ==
    ASSUME NEW C, Fit(C), NEW server \in Int, NEW D \in GetConnectedResults(C, server)
    PROVE  Settled(D) /\ Refnums(D) = Refnums(C)
  <1>1. PICK j \in Reachable(C, server), outcome \in Outcomes : D = GetConnected(C, j, outcome)
    BY DEF GetConnectedResults
  <1> DEFINE tried == IF j \in Refnums(C)
                      THEN ConnectToServer(C, j, C.primary_server, outcome)
                      ELSE [C EXCEPT !.from_server = None]
             moved == ChangeServerChannels(tried, tried.primary_server, tried.from_server)
  <1>2. C.primary_server \in Int /\ None \in Int
    BY DEF Fit, Good, ClientOK, ClientType, None
  <1>3. Good(tried) /\ Alike(C, tried) /\ IsRefnum(C, tried.from_server)
    <2>1. CASE j \in Refnums(C)
      BY <1>2, <2>1, ConnectAlike DEF Fit, IsRefnum
    <2>2. CASE j \notin Refnums(C)
      BY <1>2, <2>2, FromStays DEF Fit, IsRefnum, Stays
    <2> QED
      BY <2>1, <2>2
  <1> HIDE DEF tried
  <1>4. Good(moved) /\ Alike(tried, moved)
    BY <1>3, ChannelsAlike
  <1> HIDE DEF moved
  <1>5. Fit(moved) /\ IsRefnum(moved, tried.from_server) /\ Refnums(moved) = Refnums(C)
    BY <1>3, <1>4, FitAlike DEF Alike, IsRefnum
  <1>6. LET P == SetPrimaryServer(moved, tried.from_server)
        IN  Settled(P) /\ Refnums(P) = Refnums(C)
    BY <1>5, PrimarySettles
  <1> QED
    BY <1>1, <1>6 DEF GetConnected, moved, tried

(* Refnums beyond the removed one move down by one, in the list and in the  *)
(* windows alike; without deletions only a closed server is removed (465).  *)
LEMMA RemoveSettles ==
    ASSUME NEW C, Settled(C), NEW i \in Refnums(C), C.number_of_servers > 1,
           NoDeletion => ~C.server_list[i].sock
    PROVE  Settled(RemoveFromServerList(C, i))
  <1> DEFINE R == RemoveFromServerList(C, i)
             n == C.number_of_servers
             fixed(s) == IF i < s THEN s - 1 ELSE s
             former(k) == IF k < i THEN k ELSE k + 1
  <1>1. /\ n \in Nat /\ Refnums(C) = 0 .. n - 1 /\ i \in 0 .. n - 1
        /\ \A w \in DOMAIN C.windows : C.windows[w] \in Int
    BY DEF Settled, Good, ClientOK, ClientType, Refnums
  <1>2. Good(R)
    BY GoodRemove DEF Settled
  <1>3. /\ Refnums(R) = 0 .. n - 2
        /\ R.windows = [w \in DOMAIN C.windows |-> fixed(C.windows[w])]
        /\ \A k \in 0 .. n - 2 : R.server_list[k] = C.server_list[former(k)]
        /\ R.connected_to_server = C.connected_to_server
    BY <1>1 DEF RemoveFromServerList, Refnums, Settled, Good, ClientOK, ClientType
  <1> HIDE DEF R
  <1>4. \A k \in 0 .. n - 2 : former(k) \in 0 .. n - 1 \ {i} /\ fixed(former(k)) = k
    BY <1>1
  <1>5. \A k \in 0 .. n - 1 \ {i} : fixed(k) \in 0 .. n - 2 /\ former(fixed(k)) = k
    BY <1>1
  <1>6. OneKept(R)
    <2>1. \A k \in Kept(R) : former(k) \in Kept(C) /\ fixed(former(k)) = k
      BY <1>1, <1>3, <1>4 DEF Kept
    <2>2. OneKept(C)
      BY DEF Settled
    <2> HIDE DEF former, fixed
    <2> QED
      BY <2>1, <2>2 DEF OneKept
  <1>7. ASSUME NoDeletion PROVE Seen(R)
    <2>1. Seen(C) /\ ~C.server_list[i].sock
      BY <1>7 DEF Settled
    <2>2. i \notin Shown(C) /\ Shown(C) \subseteq 0 .. n - 1
      BY <1>1, <2>1 DEF Shown, IsOpen
    <2>3. ASSUME NEW w \in DOMAIN C.windows, C.windows[w] # None
          PROVE  /\ C.windows[w] \in 0 .. n - 1 \ {i}
                 /\ C.server_list[C.windows[w]].sock
      BY <1>1, <2>1, <2>3 DEF Seen, IsOpen
    <2>4. ASSUME NEW w \in DOMAIN C.windows, C.windows[w] = None
          PROVE  R.windows[w] = None
      BY <1>1, <1>3, <2>4 DEF None
    <2>5. ASSUME NEW w \in DOMAIN C.windows, C.windows[w] # None
          PROVE  R.windows[w] = fixed(C.windows[w]) /\ IsOpen(R, R.windows[w])
      <3> DEFINE s == C.windows[w]
      <3>1. s \in 0 .. n - 1 \ {i} /\ C.server_list[s].sock
        BY <2>3, <2>5
      <3> HIDE DEF s
      <3>2. fixed(s) \in 0 .. n - 2 /\ R.server_list[fixed(s)].sock
        BY <1>3, <1>5, <3>1
      <3>3. R.windows[w] = fixed(s)
        BY <1>3 DEF s
      <3> QED
        BY <1>3, <3>2, <3>3 DEF IsOpen, s
    <2>6. Shown(R) = {fixed(k) : k \in Shown(C)}
      <3>1. ASSUME NEW k \in Shown(R) PROVE k \in {fixed(j) : j \in Shown(C)}
        <4>1. PICK w \in DOMAIN C.windows : R.windows[w] = k
          BY <1>3, <3>1 DEF Shown
        <4>2. k \in 0 .. n - 2
          BY <1>3, <3>1 DEF Shown
        <4>3. C.windows[w] # None
          BY <2>4, <4>1, <4>2 DEF None
        <4>4. C.windows[w] \in Shown(C)
          BY <1>1, <2>3, <4>3 DEF Shown, IsOpen
        <4>5. k = fixed(C.windows[w])
          BY <2>5, <4>1, <4>3
        <4> QED
          BY <4>4, <4>5
      <3>2. ASSUME NEW j \in Shown(C) PROVE fixed(j) \in Shown(R)
        <4>1. PICK w \in DOMAIN C.windows : C.windows[w] = j
          BY DEF Shown
        <4>2. j # None
          BY <2>2 DEF None
        <4>3. R.windows[w] = fixed(j) /\ IsOpen(R, fixed(j))
          BY <2>5, <4>1, <4>2
        <4> QED
          BY <1>3, <4>3 DEF Shown, IsOpen
      <3> QED
        BY <3>1, <3>2
    <2>7. Cardinality(Shown(R)) = Cardinality(Shown(C))
      <3> DEFINE f == [j \in Shown(C) |-> fixed(j)]
      <3>1. f \in Bijection(Shown(C), Shown(R))
        <4>1. f \in Surjection(Shown(C), Shown(R))
          BY <2>6 DEF Surjection
        <4>2. f \in Injection(Shown(C), Shown(R))
          BY <1>1, <2>2, <2>6 DEF Injection, IsInjective
        <4> QED
          BY <4>1, <4>2 DEF Bijection
      <3>2. IsFiniteSet(Shown(C))
        <4>1. IsFiniteSet(0 .. n - 1)
          BY <1>1, FS_Interval
        <4> QED
          BY <2>2, <4>1, FS_Subset
      <3> QED
        BY <3>1, <3>2, FS_Bijection DEF ExistsBijection
    <2> QED
      BY <1>3, <2>1, <2>4, <2>5, <2>7 DEF Seen
  <1> QED
    BY <1>2, <1>6, <1>7 DEF Settled, R

(* A new server is closed, shown nowhere and without channels.              *)
LEMMA AddSettles ==
    ASSUME NEW C, Settled(C), NEW name \in Names
    PROVE  Settled(AddToServerList(C, name))
  <1> DEFINE A == AddToServerList(C, name)
             n == C.number_of_servers
  <1>1. n \in Nat /\ Refnums(C) = 0 .. n - 1
    BY DEF Settled, Good, ClientOK, Refnums
  <1>2. Good(A)
    BY GoodAdd DEF Settled
  <1>3. /\ Refnums(A) = 0 .. n
        /\ A.windows = C.windows
        /\ A.connected_to_server = C.connected_to_server
        /\ \A k \in 0 .. n - 1 : A.server_list[k] = C.server_list[k]
        /\ ~A.server_list[n].sock /\ ~A.server_list[n].channels
    BY <1>1 DEF AddToServerList, Blank, Refnums, Settled, Good, ClientOK, ClientType
  <1> HIDE DEF A
  <1>4. Kept(A) = Kept(C) /\ Shown(A) = Shown(C)
    BY <1>1, <1>3 DEF Kept, Shown, IsOpen
  <1>5. OneKept(A)
    BY <1>4 DEF OneKept, Settled
  <1>6. NoDeletion => Seen(A)
    BY <1>1, <1>3, <1>4 DEF Settled, Seen, IsOpen
  <1> QED
    BY <1>2, <1>5, <1>6 DEF Settled, A

----------------------------------------------------------------------------
Reopened(C, i) == [C EXCEPT !.server_list[i].sock = TRUE]

(* A 464 closes the server without a look at the windows: the loop of       *)
(* do_server, which still holds its number, comes back to it.               *)
Halfway(i) == /\ i \in Refnums(client) /\ ~client.server_list[i].sock
              /\ NoDeletion => Seen(Reopened(client, i))
              /\ OneKept(client) \/ i = client.primary_server

WInv == IInv /\ (Settled(client) \/ Halfway(reading))

(* The client a 464 was read from, as far as windows and channels go.       *)
LEMMA ReopenedFacts ==
    ASSUME NEW C, Good(C), NEW i \in Refnums(C)
    PROVE  LET D == Reopened(C, i)
           IN  /\ Good(D) /\ Alike(C, D) /\ Stays(C, D)
               /\ D.server_list[i].sock
               /\ \A k \in Refnums(C) :
                    /\ D.server_list[k].channels = C.server_list[k].channels
                    /\ k # i => D.server_list[k].sock = C.server_list[k].sock
  <1> DEFINE r == [C.server_list[i] EXCEPT !.sock = TRUE]
             D == [C EXCEPT !.server_list[i] = r]
  <1>1. Record(r)
    BY DEF Good, Record, Server
  <1>2. Good(D) /\ Refnums(D) = Refnums(C)
    BY <1>1, GoodUpdate
  <1>3. /\ D.windows = C.windows
        /\ D.connected_to_server = C.connected_to_server
    OBVIOUS
  <1>4. \A k \in Refnums(C) : D.server_list[k] = IF k = i THEN r ELSE C.server_list[k]
    BY DEF Good, ClientOK, ClientType, Refnums
  <1>5. r.sock /\ r.channels = C.server_list[i].channels
    BY DEF Good, Record, Server
  <1> HIDE DEF D, r
  <1>6. Alike(C, D)
    BY <1>2, <1>3 DEF Alike
  <1>7. Stays(C, D)
    BY <1>4, <1>5, <1>6 DEF Stays
  <1> QED
    BY <1>2, <1>4, <1>5, <1>6, <1>7 DEF Reopened, D, r

(* Every reachable client is fit, the one a 464 left behind included.       *)
LEMMA WInvFits ==
    ASSUME WInv
    PROVE  Fit(client)
  <1>1. CASE Settled(client)
    BY <1>1, SettledFits
  <1>2. CASE Halfway(reading)
    <2>1. Good(client) /\ reading \in Refnums(client)
      BY <1>2 DEF WInv, IInv, Halfway
    <2> DEFINE D == Reopened(client, reading)
    <2>2. Alike(client, D)
      BY <2>1, ReopenedFacts
    <2>3. NoDeletion => Seen(D)
      BY <1>2 DEF Halfway
    <2> HIDE DEF D
    <2>4. NoDeletion => Placed(client)
      BY <2>2, <2>3 DEF Placed, Seen, IsOpen, IsRefnum, Alike
    <2> QED
      BY <2>1, <2>4 DEF Fit
  <1> QED
    BY <1>1, <1>2 DEF WInv

(* Outside the loop of a 464, the client is settled.                        *)
LEMMA SettledThen ==
    ASSUME WInv, reading = None \/ IsOpen(client, reading) \/ reading \notin Refnums(client)
    PROVE  Settled(client)
  <1>1. None \notin Refnums(client)
    BY DEF Refnums, None
  <1> QED
    BY <1>1 DEF WInv, Halfway, IsOpen

(* The ends of a line's handler and of a command keep a client settled.     *)
LEMMA HandledSettles ==
    ASSUME NEW C, Settled(C), NEW i, Handled(i, C)
    PROVE  Settled(client')
  <1>1. None \in Int /\ Good(C)
    BY DEF None, Settled
  <1> QED
    BY <1>1, FromStays, SettledStays DEF Handled

\* A command leaves the client settled when what it computed is.
LEMMA CommandSettles ==
    ASSUME NEW C, Settled(C), Good(client), Command(C)
    PROVE  Settled(client')
  <1>1. client.from_server \in Int /\ Good(C)
    BY FieldTypes DEF Settled
  <1> QED
    BY <1>1, FromStays, SettledStays DEF Command

(* Lines received from server i.                                            *)
LEMMA LinesSettle ==
    ASSUME WInv, NEW i \in Refnums(client), Lines(i)
    PROVE  Settled(client') \/ Halfway(reading)'
  <1>1. Good(client) /\ i \in Int /\ None \in Int
    BY FieldTypes DEF WInv, IInv, None
  <1>2. CanRead(i)
    BY DEF Lines, Welcome, MyInfo, Join, WhoisReply, NoPermForHost, PasswdMismatch, Banned, Kill
  <1>3. Settled(client) /\ client.server_list[i].sock
    BY <1>2, SettledThen DEF CanRead, IsOpen
  <1>4. Record(client.server_list[i])
    BY <1>1 DEF Good
  <1>5. Good(From(i)) /\ Stays(client, From(i)) /\ Refnums(From(i)) = Refnums(client)
    BY <1>1, FromStays DEF From, Stays, Alike
  <1>6. Fit(From(i))
    BY <1>3, <1>5, SettledStays, SettledFits
  <1>7. Fit(CloseServer(From(i), i)) /\ Refnums(CloseServer(From(i), i)) = Refnums(client)
    BY <1>5, <1>6, CloseAlike, FitAlike DEF Alike
  <1>8. LET C == WindowCheckServers(CloseServer(From(i), i))
        IN  Settled(C) /\ Refnums(C) = Refnums(client)
    BY <1>7, CheckSettles
  <1>9. ASSUME NEW r, Record(r), r.sock, Handled(i, [client EXCEPT !.server_list[i] = r])
        PROVE  Settled(client')
    <2> DEFINE D == [client EXCEPT !.server_list[i] = r]
    <2>1. Good(D) /\ Refnums(D) = Refnums(client)
      BY <1>1, <1>9, GoodUpdate
    <2>2. /\ D.windows = client.windows
          /\ D.connected_to_server = client.connected_to_server
      OBVIOUS
    <2>3. \A k \in Refnums(client) : D.server_list[k] = IF k = i THEN r ELSE client.server_list[k]
      BY <1>1 DEF Good, ClientOK, ClientType, Refnums
    <2> HIDE DEF D
    <2>4. Stays(client, D)
      BY <1>9, <2>1, <2>2, <2>3 DEF Stays, Alike
    <2>5. Settled(D)
      BY <1>3, <2>1, <2>4, SettledStays
    <2> QED
      BY <1>9, <2>5, HandledSettles DEF D
  <1>10. CASE Welcome(i)
    <2> DEFINE r == [client.server_list[i] EXCEPT !.connected = TRUE, !.eof = FALSE]
    <2>1. Record(r) /\ r.sock
      BY <1>3, <1>4 DEF Record, Server
    <2>2. [client EXCEPT !.server_list[i].connected = TRUE, !.server_list[i].eof = FALSE]
             = [client EXCEPT !.server_list[i] = r]
      BY <1>1, <1>4 DEF Good, ClientOK, ClientType, Refnums, Record, Server
    <2> HIDE DEF r
    <2> QED
      BY <1>9, <1>10, <2>1, <2>2 DEF Welcome
  <1>11. CASE MyInfo(i) \/ Join(i)
    <2>1. \A b \in BOOLEAN : LET r == [client.server_list[i] EXCEPT !.channels = b]
                             IN  Record(r) /\ r.sock
      BY <1>3, <1>4 DEF Record, Server
    <2>2. PICK b \in BOOLEAN :
             Handled(i, [client EXCEPT !.server_list[i] =
                            [client.server_list[i] EXCEPT !.channels = b]])
      BY <1>11 DEF MyInfo, Join
    <2> QED
      BY <1>9, <2>1, <2>2
  <1>12. CASE WhoisReply(i)
    <2>1. Settled(CleanWhoisQueue(client, i))
      BY <1>1, <1>3, CleanStays, SettledStays
    <2> QED
      BY <1>12, <2>1, HandledSettles DEF WhoisReply
  <1>13. CASE NoPermForHost(i)
    <2> DEFINE C == WindowCheckServers(CloseServer(From(i), i))
    <2>1. PICK D \in IF i = C.primary_server THEN GetConnectedResults(C, i + 1) ELSE {C} :
              Handled(i, D)
      BY <1>13 DEF NoPermForHost
    <2>2. Settled(C) /\ i + 1 \in Int
      BY <1>1, <1>8
    <2> HIDE DEF C
    <2>3. Settled(D)
      BY <2>2, SettledFits, GetConnectedSettles
    <2> QED
      BY <2>1, <2>3, HandledSettles
  <1>14. CASE Banned(i)
    <2> DEFINE C == WindowCheckServers(CloseServer(From(i), i))
               D == IF C.number_of_servers > 1 THEN RemoveFromServerList(C, i) ELSE C
    <2>1. PICK E \in IF i = D.primary_server THEN GetConnectedResults(D, i) ELSE {D} :
              Handled(i, E)
      BY <1>14 DEF Banned
    <2>2. Settled(C) /\ i \in Refnums(C)
      BY <1>8
    <2>3. ~C.server_list[i].sock
      <3> DEFINE K == CloseServer(From(i), i)
      <3>1. Good(K) /\ i \in Refnums(K)
        BY <1>5, <1>7, CloseAlike
      <3>2. ~K.server_list[i].sock
        BY <1>5, CloseShuts
      <3> HIDE DEF K
      <3>3. i \notin Held(K)
        BY <3>2 DEF Held, IsOpen
      <3>4. WindowCheckServers(K).server_list[i] = Shut(K.server_list[i], i = K.primary_server)
        BY <3>1, <3>3 DEF WindowCheckServers, Good, ClientOK, ClientType
      <3>5. Shut(K.server_list[i], i = K.primary_server).sock = FALSE
        BY <3>1 DEF Shut, Good, Record, Server
      <3> QED
        BY <3>4, <3>5 DEF K
    <2> HIDE DEF C
    <2>4. Settled(D)
      BY <2>2, <2>3, RemoveSettles
    <2> HIDE DEF D
    <2>5. Settled(E)
      BY <1>1, <2>1, <2>4, SettledFits, GetConnectedSettles
    <2> QED
      BY <2>1, <2>5, HandledSettles
  <1>15. CASE Kill(i)
    <2> DEFINE K == CloseServer(From(i), i)
    <2>1. Fit(K)
      BY <1>7
    <2> HIDE DEF K
    <2>2. Fit(CleanWhoisQueue(K, i))
      BY <2>1, CleanStays, FitAlike DEF Stays, Fit
    <2>3. Settled(WindowCheckServers(CleanWhoisQueue(K, i)))
      BY <2>2, CheckSettles
    <2> QED
      BY <1>15, <2>3, HandledSettles DEF Kill, K
  <1>16. CASE PasswdMismatch(i)
    <2> DEFINE K == CloseServer(client, i)
               s == Shut(client.server_list[i], i = client.primary_server)
    <2>1. Good(K) /\ Alike(client, K)
      BY <1>1, CloseAlike
    <2>2. \A k \in Refnums(client) : K.server_list[k] = IF k = i THEN s ELSE client.server_list[k]
      BY <1>1 DEF CloseServer, Good, ClientOK, ClientType, Refnums
    <2>3. /\ s.sock = FALSE /\ s.channels \in BOOLEAN
          /\ s.channels => client.server_list[i].channels
          /\ i # client.primary_server => ~s.channels
      BY <1>4 DEF Shut, Record, Server
    <2>4. K.primary_server = client.primary_server
      BY DEF CloseServer
    <2> HIDE DEF K, s
    <2>5. /\ client' = [K EXCEPT !.from_server = None]
          /\ reading' = i
      BY <1>16 DEF PasswdMismatch, Handled, K
    <2>6. Good(client') /\ Stays(K, client') /\ client'.server_list = K.server_list
          /\ client'.primary_server = K.primary_server
      BY <1>1, <2>1, <2>5, FromStays
    <2>7. Good(client') /\ Alike(client, client')
          /\ \A k \in Refnums(client) :
                client'.server_list[k] = IF k = i THEN s ELSE client.server_list[k]
      BY <2>1, <2>2, <2>6 DEF Alike, Stays
    <2> DEFINE R == Reopened(client', i)
    <2>8. /\ Good(R) /\ Alike(client', R) /\ R.server_list[i].sock
          /\ \A k \in Refnums(client') :
                /\ R.server_list[k].channels = client'.server_list[k].channels
                /\ k # i => R.server_list[k].sock = client'.server_list[k].sock
      BY <2>7, ReopenedFacts DEF Alike
    <2> HIDE DEF R
    <2>9. Stays(client, R)
      BY <2>3, <2>7, <2>8 DEF Stays, Alike
    <2>10. NoDeletion => Seen(R)
      BY <1>3, <2>8, <2>9, SettledStays DEF Settled
    <2>11. i # client.primary_server => Kept(client') \subseteq Kept(client)
      BY <2>3, <2>7 DEF Kept, Alike
    <2>12. OneKept(client') \/ i = client'.primary_server
      BY <1>3, <2>4, <2>6, <2>11 DEF OneKept, Settled
    <2>13. i \in Refnums(client') /\ ~client'.server_list[i].sock
      BY <2>3, <2>7 DEF Alike
    <2> QED
      BY <2>5, <2>10, <2>12, <2>13 DEF Halfway, R
  <1> QED
    BY <1>10, <1>11, <1>12, <1>13, <1>14, <1>15, <1>16 DEF Lines

(* A server other than the primary one that read_data gives up on.          *)
LEMMA GiveUpSettles ==
    ASSUME NEW C, Fit(C), NEW i
    PROVE  Settled(GiveUp(i, C))
  <1> DEFINE K == CloseServer(C, i)
             L == CleanWhoisQueue(K, i)
             W == WindowCheckServers(L)
  <1>1. Fit(K)
    BY CloseAlike, FitAlike DEF Fit
  <1> HIDE DEF K
  <1>2. Fit(L)
    BY <1>1, CleanStays, FitAlike DEF Stays, Fit
  <1> HIDE DEF L
  <1>3. Settled(W)
    BY <1>2, CheckSettles
  <1> HIDE DEF W
  <1>4. Settled(SetEof(W, i))
    BY <1>3, EofStays, SettledStays DEF Settled
  <1> QED
    BY <1>4 DEF GiveUp, W, L, K

(* The loss of a server other than the primary one: it is reopened, or      *)
(* given up on.                                                             *)
LEMMA LoseOtherSettles ==
    ASSUME WInv, NEW i \in Refnums(client), LoseOther(i)
    PROVE  Settled(client')
  <1>1. Good(client) /\ i \in Int /\ None \in Int /\ Fit(client)
    BY FieldTypes, WInvFits DEF WInv, IInv, None
  <1>2. Good(From(i)) /\ Stays(client, From(i)) /\ Refnums(From(i)) = Refnums(client)
        /\ From(i).server_list = client.server_list
        /\ From(i).primary_server = client.primary_server
    BY <1>1, FromStays DEF From, Stays, Alike
  <1> DEFINE K == Closed(i)
  <1>3. Good(K) /\ Alike(client, K)
    BY <1>2, CloseAlike DEF Closed, Alike, Stays
  <1>4. Fit(K)
    BY <1>1, <1>3, FitAlike
  <1>5. /\ ~K.server_list[i].sock /\ ~K.server_list[i].channels
        /\ \A k \in Refnums(client) \ {i} : K.server_list[k] = client.server_list[k]
    BY <1>2, CloseShuts DEF Closed, LoseOther
  <1> HIDE DEF K
  <1>6. Settled(GiveUp(i, K))
    BY <1>4, GiveUpSettles
  <1>7. ASSUME NEW outcome \in Outcomes, client' = GiveUp(i, ConnectToServer(K, i, None, outcome))
        PROVE  Settled(client')
    <2>1. Fit(ConnectToServer(K, i, None, outcome))
      BY <1>1, <1>3, <1>4, ConnectAlike, FitAlike DEF Alike
    <2> QED
      BY <1>7, <2>1, GiveUpSettles
  <1>8. ASSUME NEW outcome \in Outcomes, outcome # "fail",
               client' = SetEof(ConnectToServer(K, i, None, outcome), i)
        PROVE  Settled(client')
    <2> DEFINE D == ConnectToServer(K, i, None, outcome)
               R == Reopened(client, i)
    <2>1. Good(D) /\ Alike(K, D) /\ Stays(K, D)
      BY <1>1, <1>3, ConnectAlike, ConnectStays DEF Alike
    <2>2. D.server_list[i].sock
      BY <1>1, <1>3, <1>8, ConnectLists DEF Alike, Connects
    <2>3. Good(client') /\ Stays(D, client')
      BY <1>8, <2>1, EofStays
    <2> HIDE DEF D
    <2>4. /\ Good(R) /\ Alike(client, R) /\ Stays(client, R) /\ R.server_list[i].sock
          /\ \A k \in Refnums(client) :
                /\ R.server_list[k].channels = client.server_list[k].channels
                /\ k # i => R.server_list[k].sock = client.server_list[k].sock
      BY <1>1, ReopenedFacts
    <2>5. Settled(R)
      <3>1. CASE Settled(client)
        BY <2>4, <3>1, SettledStays
      <3>2. CASE Halfway(reading)
        <4>1. reading = i
          BY <3>2 DEF LoseOther, Lost, Halfway, None, Refnums
        <4>2. OneKept(client) /\ (NoDeletion => Seen(R))
          BY <3>2, <4>1 DEF Halfway, LoseOther
        <4>3. OneKept(R)
          BY <2>4, <4>2 DEF OneKept, Kept, Stays, Alike
        <4> QED
          BY <2>4, <4>2, <4>3 DEF Settled
      <3> QED
        BY <3>1, <3>2 DEF WInv
    <2> HIDE DEF R
    <2>6. Stays(R, client')
      <3>1. Alike(R, client') /\ Refnums(R) = Refnums(client)
        BY <1>3, <2>1, <2>3, <2>4 DEF Stays, Alike
      <3>2. client'.server_list[i].sock
        BY <1>3, <2>1, <2>2, <2>3 DEF Stays, Alike
      <3>3. ASSUME NEW k \in Refnums(client), k # i
            PROVE  /\ R.server_list[k].sock => client'.server_list[k].sock
                   /\ client'.server_list[k].channels /\ ~client'.server_list[k].sock
                        => R.server_list[k].channels /\ ~R.server_list[k].sock
        <4>1. k \in Refnums(K) /\ k \in Refnums(D)
          BY <1>3, <2>1 DEF Alike
        <4>2. K.server_list[k] = client.server_list[k]
          BY <1>5, <3>3
        <4>3. /\ R.server_list[k].channels = client.server_list[k].channels
              /\ R.server_list[k].sock = client.server_list[k].sock
          BY <2>4, <3>3
        <4> QED
          BY <2>1, <2>3, <4>1, <4>2, <4>3 DEF Stays
      <3> QED
        BY <3>1, <3>2, <3>3 DEF Stays
    <2> QED
      BY <2>3, <2>5, <2>6, SettledStays
  <1>9. CASE client.server_list[i].eof
    BY <1>6, <1>9 DEF LoseOther, K
  <1>10. CASE ~client.server_list[i].eof
    <2>1. PICK outcome \in Outcomes :
             LET C == ConnectToServer(Closed(i), i, None, outcome)
             IN client' = IF outcome = "fail" THEN GiveUp(i, C) ELSE SetEof(C, i)
      BY <1>10 DEF LoseOther
    <2> QED
      BY <1>7, <1>8, <2>1 DEF K
  <1> QED
    BY <1>9, <1>10

(* The other steps of the network.                                          *)
LEMMA NetworkSettles ==
    ASSUME WInv, NEW i \in Refnums(client), Network(i)
    PROVE  Settled(client') \/ Halfway(reading)'
  <1>1. Good(client) /\ i \in Int /\ None \in Int /\ Fit(client)
    BY FieldTypes, WInvFits DEF WInv, IInv, None
  <1>2. Good(From(i)) /\ Stays(client, From(i)) /\ Refnums(From(i)) = Refnums(client)
    BY <1>1, FromStays DEF From, Stays, Alike
  <1>3. CASE Lines(i)
    BY <1>3, LinesSettle
  <1>4. CASE ReadTimeout(i)
    <2>1. Settled(client)
      BY <1>4, SettledThen DEF ReadTimeout, CanRead
    <2> QED
      BY <1>2, <1>4, <2>1, SettledStays DEF ReadTimeout
  <1>5. CASE LosePrimary(i)
    <2>1. Fit(Closed(i))
      BY <1>1, <1>2, CloseAlike, FitAlike DEF Closed, Stays
    <2> QED
      BY <1>5, <2>1, CheckSettles DEF LosePrimary
  <1>6. CASE LoseOther(i)
    BY <1>6, LoseOtherSettles
  <1>7. CASE Login(i)
    <2> DEFINE D == LoginToServer(client, i, None)
    <2>1. Settled(client) /\ client.server_list[i].sock
      BY <1>7, SettledThen DEF Login, Idle, IsOpen
    <2>2. Good(D) /\ Refnums(D) = Refnums(client)
      BY <1>1, <2>1, GoodLogin
    <2>3. /\ D.windows = client.windows
          /\ D.connected_to_server = client.connected_to_server
          /\ \A k \in Refnums(client) : /\ D.server_list[k].sock = client.server_list[k].sock
                                        /\ D.server_list[k].channels = client.server_list[k].channels
      BY <1>1 DEF LoginToServer, Good, ClientOK, ClientType, Refnums
    <2> HIDE DEF D
    <2>4. Stays(client, D)
      BY <2>2, <2>3 DEF Stays, Alike
    <2> QED
      BY <1>7, <2>1, <2>2, <2>4, SettledStays DEF Login, D
  <1>8. CASE Unreachable(i)
    <2>1. Fit(CloseServer(client, i))
      BY <1>1, CloseAlike, FitAlike
    <2> QED
      BY <1>1, <1>8, <2>1, GetConnectedSettles DEF Unreachable
  <1> QED
    BY <1>3, <1>4, <1>5, <1>6, <1>7, <1>8 DEF Network

(* The commands that name a server.                                         *)
LEMMA UserSettles ==
    ASSUME WInv, NEW i \in Refnums(client), User(i)
    PROVE  Settled(client')
  <1>1. Good(client) /\ i \in Int /\ None \in Int
    BY FieldTypes DEF WInv, IInv, None
  <1>2. reading = None
    BY DEF User, ServerCmd, CloseCmd, DeleteServer, Disconnect, PasswordSendline, WindowServer,
           Command, Idle
  <1>3. Settled(client)
    BY <1>2, SettledThen
  <1>4. /\ Good(Typed) /\ Refnums(Typed) = Refnums(client) /\ Typed.windows = client.windows
        /\ Settled(Typed)
    BY <1>1, <1>3, GoodTyped, FieldTypes, FromStays, SettledStays DEF Typed
  <1>5. Fit(Typed) /\ i \in Refnums(Typed)
    BY <1>4, SettledFits
  <1>6. Typed.server_list = client.server_list
    BY DEF Typed
  <1>7. ASSUME NEW C, Settled(C), Command(C)
        PROVE  Settled(client')
    BY <1>1, <1>7, CommandSettles
  <1>8. CASE ServerCmd(i)
    <2>1. PICK outcome \in Outcomes :
            LET C == ConnectToServer(Typed, i, client.primary_server, outcome)
                D == ChangeServerChannels(C, C.primary_server, C.from_server)
            IN /\ Command(IF Connects(client, i, outcome)
                          THEN SetPrimaryServer(D, D.from_server) ELSE C)
               /\ Others
      BY <1>8 DEF ServerCmd
    <2> DEFINE C == ConnectToServer(Typed, i, client.primary_server, outcome)
               D == ChangeServerChannels(C, C.primary_server, C.from_server)
               E == SetPrimaryServer(D, D.from_server)
    <2>2. Fit(C) /\ Refnums(C) = Refnums(client) /\ C.from_server = i
      BY <1>1, <1>4, <1>5, FieldTypes, ConnectAlike, FitAlike DEF Alike
    <2>3. ASSUME ~Connects(client, i, outcome) PROVE Settled(C)
      <3>1. C = [Typed EXCEPT !.from_server = i]
        BY <1>6, <2>3 DEF ConnectToServer, Connects
      <3> QED
        BY <1>1, <1>4, <3>1, FromStays, SettledStays
    <2> HIDE DEF C
    <2>4. Fit(D) /\ IsRefnum(D, D.from_server)
      BY <2>2, ChannelsAlike, FitAlike DEF Fit, Alike, IsRefnum
    <2> HIDE DEF D
    <2>5. Settled(E)
      BY <2>4, PrimarySettles
    <2>6. Command(IF Connects(client, i, outcome) THEN E ELSE C)
      BY <2>1 DEF C, D
    <2> HIDE DEF E
    <2> QED
      BY <1>7, <2>3, <2>5, <2>6
  <1>9. CASE CloseCmd(i)
    <2>1. Fit(CloseServer(Typed, i))
      BY <1>4, <1>5, CloseAlike, FitAlike
    <2> QED
      BY <1>7, <1>9, <2>1, CheckSettles DEF CloseCmd
  <1>10. CASE DeleteServer(i)
    <2>1. Typed.number_of_servers = client.number_of_servers
      BY DEF Typed
    <2>2. Settled(RemoveFromServerList(Typed, i))
      BY <1>4, <1>5, <1>10, <2>1, RemoveSettles DEF DeleteServer, NoDeletion
    <2> QED
      BY <1>7, <1>10, <2>2 DEF DeleteServer
  <1>11. CASE Disconnect(i)
    <2> DEFINE here == Typed.from_server
               B == [Typed EXCEPT !.server_list[i].channels = FALSE]
               C == CloseServer(B, i)
               S == SetEof(C, i)
               D == IF here \in Refnums(client) THEN CleanWhoisQueue(S, here) ELSE S
    <2>1. Record([Typed.server_list[i] EXCEPT !.channels = FALSE])
      BY <1>5 DEF Fit, Good, Record, Server
    <2>2. Good(B) /\ Alike(Typed, B)
      <3>1. Good(B) /\ Refnums(B) = Refnums(Typed)
        BY <1>4, <2>1, GoodUpdate
      <3>2. B.windows = Typed.windows /\ B.connected_to_server = Typed.connected_to_server
        OBVIOUS
      <3> QED
        BY <3>1, <3>2 DEF Alike
    <2> HIDE DEF B
    <2>3. Fit(C)
      BY <1>5, <2>2, FitAlike, CloseAlike
    <2> HIDE DEF C
    <2>4. Fit(S)
      BY <2>3, EofStays, FitAlike DEF Stays, Fit
    <2> HIDE DEF S
    <2>5. Fit(CleanWhoisQueue(S, here))
      BY <2>4, CleanStays, FitAlike DEF Stays, Fit
    <2>6. Settled(WindowCheckServers(D))
      BY <2>4, <2>5, CheckSettles
    <2>7. Command(WindowCheckServers(D))
      BY <1>11 DEF Disconnect, S, C, B
    <2> HIDE DEF D
    <2> QED
      BY <1>7, <2>6, <2>7
  <1>12. CASE PasswordSendline(i)
    <2>1. PICK outcome : Command(ConnectToServer(Typed, i, None, outcome))
      BY <1>12 DEF PasswordSendline
    <2>2. Settled(ConnectToServer(Typed, i, None, outcome))
      BY <1>1, <1>4, <1>5, ConnectAlike, ConnectStays, SettledStays
    <2> QED
      BY <1>7, <2>1, <2>2
  <1>13. ASSUME NEW w \in DOMAIN client.windows, WindowServer(w, i) PROVE Settled(client')
    <2> DEFINE C(outcome) == ConnectToServer(Typed, i, None, outcome)
    <2>1. PICK outcome :
             Command(IF Connects(client, i, outcome) THEN SetWindowServer(C(outcome), w, i)
                     ELSE C(outcome))
      BY <1>13 DEF WindowServer
    <2> DEFINE D == C(outcome)
    <2>2. Settled(D) /\ Alike(Typed, D)
      BY <1>1, <1>4, <1>5, ConnectAlike, ConnectStays, SettledStays
    <2> HIDE DEF D
    <2>3. w \in DOMAIN D.windows /\ IsRefnum(D, i)
      BY <1>4, <1>13, <2>2 DEF Alike, IsRefnum
    <2>4. Settled(SetWindowServer(D, w, i))
      BY <1>1, <2>2, <2>3, SettledFits, WindowSettles
    <2> QED
      BY <1>7, <2>1, <2>2, <2>4 DEF D
  <1> QED
    BY <1>8, <1>9, <1>10, <1>11, <1>12, <1>13 DEF User

(* Timers, windows and the commands that name no server.                    *)
LEMMA OthersSettle ==
    ASSUME WInv,
           \/ ReadBeyondEnd \/ MinuteTick \/ TimedServer
           \/ \E step \in {1, -1} : NextServer(step)
           \/ \E name \in Names : AddServer(name)
           \/ Reconnect \/ AskWhois
           \/ \E w \in Windows : NewWindow(w) \/ DeleteWindow(w) \/ SwitchWindow(w)
    PROVE  Settled(client')
  <1>1. /\ Good(client) /\ None \in Int /\ reading \in Int /\ client.primary_server \in Int
        /\ client.curr_scr_win \in DOMAIN client.windows
        /\ \A w \in DOMAIN client.windows : client.windows[w] \in Int
    BY FieldTypes DEF WInv, IInv, Rest, None
  <1>2. reading = None \/ reading \notin Refnums(client)
    BY DEF ReadBeyondEnd, MinuteTick, TimedServer, NextServer, AddServer, Reconnect, AskWhois,
           NewWindow, DeleteWindow, SwitchWindow, Command, Idle
  <1>3. Settled(client)
    BY <1>2, SettledThen
  <1>4. /\ Good(Typed) /\ Refnums(Typed) = Refnums(client) /\ Typed.windows = client.windows
        /\ Settled(Typed) /\ Fit(Typed)
    BY <1>1, <1>3, GoodTyped, FromStays, SettledStays, SettledFits DEF Typed
  <1>5. ASSUME NEW C, Settled(C), Command(C)
        PROVE  Settled(client')
    BY <1>1, <1>5, CommandSettles
  <1>6. CASE ReadBeyondEnd
    BY <1>1, <1>3, <1>6, FromStays, SettledStays DEF ReadBeyondEnd, From
  <1>7. CASE MinuteTick
    BY <1>3, <1>7 DEF MinuteTick
  <1>8. CASE TimedServer
    BY <1>3, <1>8, SettledFits, GetConnectedSettles DEF TimedServer
  <1>9. ASSUME NEW step \in {1, -1}, NextServer(step) PROVE Settled(client')
    <2>1. PICK C \in GetConnectedResults(Typed, client.primary_server + step) : Command(C)
      BY <1>9 DEF NextServer
    <2>2. client.primary_server + step \in Int
      BY <1>1
    <2>3. Settled(C)
      BY <1>4, <2>2, GetConnectedSettles
    <2> QED
      BY <1>5, <2>1, <2>3
  <1>10. ASSUME NEW name \in Names, AddServer(name) PROVE Settled(client')
    BY <1>3, <1>5, <1>10, AddSettles DEF AddServer
  <1>11. CASE Reconnect
    <2> DEFINE i == Typed.from_server
               K == CloseServer(Typed, i)
               L == CleanWhoisQueue(K, i)
               C == WindowCheckServers(L)
    <2>1. i \in Refnums(client) /\ i \in Int
      BY <1>11 DEF Reconnect, Refnums
    <2>2. PICK outcome :
             LET D == ConnectToServer(C, i, None, outcome)
             IN Command(IF outcome = "fail" THEN D
                        ELSE SetWindowServer(D, client.curr_scr_win, i))
      BY <1>11 DEF Reconnect
    <2>3. Fit(K) /\ Alike(Typed, K)
      BY <1>4, CloseAlike, FitAlike
    <2> HIDE DEF K
    <2>4. Fit(L) /\ Alike(Typed, L)
      BY <2>3, CleanStays, FitAlike DEF Stays, Fit, Alike
    <2>5. DOMAIN C.windows = DOMAIN L.windows
      BY DEF WindowCheckServers
    <2> HIDE DEF L
    <2>6. Settled(C) /\ Refnums(C) = Refnums(client) /\ DOMAIN C.windows = DOMAIN client.windows
      BY <1>4, <2>4, <2>5, CheckSettles DEF Alike
    <2> HIDE DEF C
    <2> DEFINE D == ConnectToServer(C, i, None, outcome)
    <2>7. Settled(D) /\ Alike(C, D)
      BY <1>1, <2>1, <2>6, ConnectAlike, ConnectStays, SettledStays DEF Settled
    <2> HIDE DEF D
    <2> HIDE DEF i
    <2>8. /\ client.curr_scr_win \in DOMAIN D.windows
          /\ IsRefnum(D, i)
      <3>1. D.windows = C.windows /\ Refnums(D) = Refnums(C)
        BY <2>7 DEF Alike
      <3>2. client.curr_scr_win \in DOMAIN D.windows
        BY <1>1, <2>6, <3>1
      <3> QED
        BY <2>1, <2>6, <3>1, <3>2 DEF IsRefnum
    <2>9. Settled(SetWindowServer(D, client.curr_scr_win, i))
      BY <2>1, <2>7, <2>8, SettledFits, WindowSettles
    <2> QED
      BY <1>5, <2>2, <2>7, <2>9 DEF D
  <1>12. CASE AskWhois
    <2> DEFINE i == Typed.from_server
               r == [client.server_list[i] EXCEPT !.whois = TRUE]
               D == [client EXCEPT !.server_list[i] = r]
    <2>1. i \in Refnums(client) /\ Command(D)
      BY <1>12 DEF AskWhois
    <2>2. /\ Record(r) /\ r.sock = client.server_list[i].sock
          /\ r.channels = client.server_list[i].channels
      BY <1>1, <2>1 DEF Good, Record, Server
    <2> HIDE DEF r, i
    <2>3. Good(D) /\ Refnums(D) = Refnums(client)
      BY <1>1, <2>2, GoodUpdate
    <2>4. /\ D.windows = client.windows
          /\ D.connected_to_server = client.connected_to_server
      OBVIOUS
    <2>5. \A k \in Refnums(client) : D.server_list[k] = IF k = i THEN r ELSE client.server_list[k]
      BY <1>1 DEF Good, ClientOK, ClientType, Refnums
    <2> HIDE DEF D
    <2>6. Stays(client, D)
      BY <2>2, <2>3, <2>4, <2>5 DEF Stays, Alike
    <2>7. Settled(D)
      BY <1>3, <2>3, <2>6, SettledStays
    <2> QED
      BY <1>5, <2>1, <2>7
  <1>13. ASSUME NEW D, Good(D), Command(D), D.server_list = client.server_list,
                D.number_of_servers = client.number_of_servers,
                D.connected_to_server = client.connected_to_server,
                \A w \in DOMAIN D.windows : \E v \in DOMAIN client.windows :
                    D.windows[w] = client.windows[v],
                \A v \in DOMAIN client.windows : \E w \in DOMAIN D.windows :
                    D.windows[w] = client.windows[v]
         PROVE  Settled(client')
    <2>1. Refnums(D) = Refnums(client) /\ \A i : IsOpen(D, i) <=> IsOpen(client, i)
      BY <1>13 DEF Refnums, IsOpen
    <2>2. Kept(D) = Kept(client)
      BY <1>13, <2>1 DEF Kept
    <2>3. Shown(D) = Shown(client)
      BY <1>13, <2>1 DEF Shown
    <2>4. Seen(client) => Seen(D)
      BY <1>13, <2>1, <2>3 DEF Seen
    <2>5. Settled(D)
      BY <1>3, <1>13, <2>2, <2>4 DEF Settled, OneKept
    <2> QED
      BY <1>5, <1>13, <2>5
  <1>14. ASSUME NEW w \in Windows, NewWindow(w) PROVE Settled(client')
    <2> DEFINE s == Typed.from_server
               shown == [v \in DOMAIN client.windows \cup {w} |->
                            IF v = w THEN s ELSE client.windows[v]]
               D == [client EXCEPT !.windows = shown, !.curr_scr_win = w]
    <2>1. /\ w \notin DOMAIN client.windows /\ Command(D)
          /\ s = client.windows[client.curr_scr_win] /\ s \in Int
      BY <1>1, <1>14 DEF NewWindow, Typed, Good, ClientOK, ClientType
    <2>2. Good(D)
      BY <1>1, <2>1 DEF Good, ClientOK, ClientType, Refnums
    <2> HIDE DEF s
    <2>3. shown[w] = s /\ \A v \in DOMAIN client.windows : shown[v] = client.windows[v]
      BY <2>1
    <2>4. DOMAIN shown = DOMAIN client.windows \cup {w}
      OBVIOUS
    <2> HIDE DEF shown
    <2>5. /\ D.server_list = client.server_list
          /\ D.number_of_servers = client.number_of_servers
          /\ D.connected_to_server = client.connected_to_server
          /\ D.windows = shown
      BY <1>1 DEF Good, ClientOK, ClientType
    <2> HIDE DEF D
    <2>6. ASSUME NEW v \in DOMAIN D.windows
          PROVE  \E u \in DOMAIN client.windows : D.windows[v] = client.windows[u]
      <3>1. CASE v = w
        BY <1>1, <2>1, <2>3, <2>5, <3>1
      <3>2. CASE v # w
        <4>1. v \in DOMAIN client.windows
          BY <2>4, <2>5, <3>2
        <4> QED
          BY <2>3, <2>5, <4>1
      <3> QED
        BY <3>1, <3>2
    <2>7. \A u \in DOMAIN client.windows : \E v \in DOMAIN D.windows :
              D.windows[v] = client.windows[u]
      BY <2>3, <2>4, <2>5
    <2> QED
      BY <1>13, <2>1, <2>2, <2>5, <2>6, <2>7
  <1>15. ASSUME NEW w \in Windows, DeleteWindow(w) PROVE Settled(client')
    <2> DEFINE rest == [u \in DOMAIN client.windows \ {w} |-> client.windows[u]]
               D(v) == [client EXCEPT !.windows = rest, !.curr_scr_win = v]
    <2>1. PICK v \in DOMAIN client.windows \ {w} : Command(WindowCheckServers(D(v)))
      BY <1>15 DEF DeleteWindow
    <2>2. Good(D(v)) /\ Refnums(D(v)) = Refnums(client) /\ D(v).windows = rest
      BY <1>1 DEF Good, ClientOK, ClientType, Refnums
    <2> DEFINE E == D(v)
    <2> HIDE DEF E
    <2>3. Fit(client)
      BY <1>3, SettledFits
    <2>4. Fit(E)
      BY <2>2, <2>3 DEF E, Fit, Placed, IsRefnum
    <2>5. Settled(WindowCheckServers(E))
      BY <2>4, CheckSettles
    <2> QED
      BY <1>5, <2>1, <2>5 DEF E
  <1>16. ASSUME NEW w \in Windows, SwitchWindow(w) PROVE Settled(client')
    <2> DEFINE D == [client EXCEPT !.curr_scr_win = w]
    <2>1. Good(D)
      BY <1>1, <1>16 DEF SwitchWindow, Good, ClientOK, ClientType, Refnums
    <2>2. /\ D.server_list = client.server_list
          /\ D.number_of_servers = client.number_of_servers
          /\ D.connected_to_server = client.connected_to_server
          /\ D.windows = client.windows
      OBVIOUS
    <2>3. Command(D)
      BY <1>16 DEF SwitchWindow
    <2> HIDE DEF D
    <2> QED
      BY <1>13, <2>1, <2>2, <2>3
  <1> QED
    BY <1>6, <1>7, <1>8, <1>9, <1>10, <1>11, <1>12, <1>14, <1>15, <1>16

\* Every action keeps the invariant of the windows.
LEMMA NextWInv == WInv /\ [Next]_vars => WInv'
  <1> SUFFICES ASSUME WInv, [Next]_vars PROVE WInv'
    OBVIOUS
  <1>1. IInv'
    BY NextIInv DEF WInv
  <1>2. CASE Next
    <2>1. Settled(client') \/ Halfway(reading)'
      BY <1>2, NetworkSettles, UserSettles, OthersSettle DEF Next
    <2> QED
      BY <1>1, <2>1 DEF WInv
  <1>3. CASE UNCHANGED vars
    BY <1>1, <1>3 DEF vars, WInv, Halfway
  <1> QED
    BY <1>2, <1>3

----------------------------------------------------------------------------
(* The theorems.                                                            *)

(* The first get_connected settles the client of the start.                 *)
LEMMA InitSettles == Init => Settled(client)
  <1> SUFFICES ASSUME Init PROVE Settled(client)
    OBVIOUS
  <1>1. PICK S, w : /\ Good(S) /\ S.windows = [v \in {w} |-> None]
                    /\ client \in GetConnectedResults(S, 0)
    BY Starts
  <1>2. Fit(S)
    BY <1>1 DEF Fit, Placed, IsRefnum
  <1> QED
    BY <1>1, <1>2, GetConnectedSettles

\* It holds at the start.
LEMMA InitWInv == Init => WInv
  BY InitIInv, InitSettles DEF WInv

(* Where no server is deleted from the list: between two handlers every     *)
(* window shows an open server or none, and connected_to_server, on which   *)
(* timed_server decides, counts the open servers some window shows, through *)
(* any sequence of connects, losses, bans, wrong passwords, commands and    *)
(* window changes, for any number of servers and windows.                   *)
THEOREM WindowsCorrect ==
    ASSUME NoDeletion
    PROVE  Spec => []WindowsShowOpenServers
  <1>1. WInv => WindowsShowOpenServers
    <2> SUFFICES ASSUME WInv, Idle
                 PROVE  /\ \A w \in DOMAIN client.windows :
                              client.windows[w] # None => IsOpen(client, client.windows[w])
                        /\ client.connected_to_server
                             = Cardinality({i \in Refnums(client) :
                                               IsOpen(client, i) /\ Showing(i) # {}})
      BY DEF WindowsShowOpenServers
    <2>1. Seen(client)
      BY SettledThen DEF Idle, Settled
    <2>2. Shown(client) = {i \in Refnums(client) : IsOpen(client, i) /\ Showing(i) # {}}
      BY DEF Shown, Showing
    <2> QED
      BY <2>1, <2>2 DEF Seen
  <1> QED
    BY <1>1, InitWInv, NextWInv, PTL DEF Spec

(* At most one closed server keeps its channels, deletions included: what   *)
(* is rejoined after a loss is what one connection had.                     *)
THEOREM OneToRejoin == Spec => []OneServerToRejoin
  <1>1. WInv => OneServerToRejoin
    <2> SUFFICES ASSUME WInv, Idle, NEW i \in Refnums(client), NEW j \in Refnums(client),
                        client.server_list[i].channels, ~IsOpen(client, i),
                        client.server_list[j].channels, ~IsOpen(client, j)
                 PROVE  i = j
      BY DEF OneServerToRejoin
    <2>1. OneKept(client)
      BY SettledThen DEF Idle, Settled
    <2> QED
      BY <2>1 DEF OneKept, Kept, IsOpen
  <1> QED
    BY <1>1, InitWInv, NextWInv, PTL DEF Spec

(* A refnum above the deleted one and the server it named move together.    *)
LEMMA DeletionShifts ==
    ASSUME Good(client), NEW i \in Refnums(client), DeleteServer(i),
           NEW s \in Int, s # i
    PROVE  NameOf(client', IF i < s THEN s - 1 ELSE s) = NameOf(client, s)
  <1> DEFINE n == client.number_of_servers
             t == IF i < s THEN s - 1 ELSE s
  <1>1. n \in Nat /\ n > 1 /\ i \in 0 .. n - 1 /\ Refnums(client) = 0 .. n - 1
    BY DEF Good, ClientOK, Refnums, DeleteServer
  <1>2. /\ client'.number_of_servers = n - 1
        /\ client'.server_list = [k \in 0 .. n - 2 |->
               IF k < i THEN client.server_list[k] ELSE client.server_list[k + 1]]
    BY DEF DeleteServer, Command, RemoveFromServerList, Typed, Good, ClientOK, ClientType
  <1>3. Refnums(client') = 0 .. n - 2
    BY <1>1, <1>2 DEF Refnums
  <1>4. CASE s \in 0 .. n - 1
    <2>1. t \in 0 .. n - 2
      BY <1>1, <1>4
    <2>2. client'.server_list[t] = client.server_list[s]
      BY <1>1, <1>2, <1>4, <2>1
    <2> HIDE DEF t
    <2> QED
      BY <1>1, <1>3, <1>4, <2>1, <2>2 DEF NameOf, t
  <1>5. CASE s \notin 0 .. n - 1
    <2>1. t \notin 0 .. n - 2
      BY <1>1, <1>5
    <2> QED
      BY <1>1, <1>3, <1>5, <2>1 DEF NameOf
  <1> QED
    BY <1>4, <1>5

(* /SERVER -DELETE leaves every window that showed another server, and the  *)
(* primary server, on the server they were on.                              *)
THEOREM DeletionCorrect == Spec => DeletionKeepsServers
  <1> DEFINE A == client'.number_of_servers < client.number_of_servers
         => \A i \in Refnums(client) : DeleteServer(i) =>
              /\ \A w \in DOMAIN client.windows : client.windows[w] # i =>
                    NameOf(client', client'.windows[w]) = NameOf(client, client.windows[w])
              /\ client.primary_server # i =>
                    NameOf(client', client'.primary_server)
                        = NameOf(client, client.primary_server)
  <1>1. IInv => A
    <2> SUFFICES ASSUME IInv, NEW i \in Refnums(client), DeleteServer(i)
                 PROVE  /\ \A w \in DOMAIN client.windows : client.windows[w] # i =>
                              NameOf(client', client'.windows[w]) = NameOf(client, client.windows[w])
                        /\ client.primary_server # i =>
                              NameOf(client', client'.primary_server)
                                 = NameOf(client, client.primary_server)
      OBVIOUS
    <2>1. Good(client)
      BY DEF IInv
    <2> DEFINE fixed(s) == IF i < s THEN s - 1 ELSE s
    <2>2. /\ client'.primary_server = fixed(client.primary_server)
          /\ client'.windows = [w \in DOMAIN client.windows |-> fixed(client.windows[w])]
      BY <2>1 DEF DeleteServer, Command, RemoveFromServerList, Typed, Good, ClientOK, ClientType
    <2>3. \A s \in Int \ {i} : NameOf(client', fixed(s)) = NameOf(client, s)
      BY <2>1, DeletionShifts
    <2>4. /\ client.primary_server \in Int
          /\ \A w \in DOMAIN client.windows : client.windows[w] \in Int
      BY <2>1, FieldTypes
    <2> HIDE DEF fixed
    <2> QED
      BY <2>2, <2>3, <2>4
  <1> HIDE DEF A
  <1>2. IInv /\ [Next]_vars => [A]_vars
    BY <1>1
  <1>3. Spec => [][A]_vars
    BY <1>2, InitIInv, NextIInv, PTL DEF Spec
  <1> QED
    BY <1>3 DEF DeletionKeepsServers, A

(* The refnums are finitely many.                                           *)
LEMMA RefnumsFinite ==
    ASSUME NEW C, Good(C)
    PROVE  IsFiniteSet(Refnums(C))
  BY FS_Interval DEF Refnums, Good, ClientOK

(* /SERVER of a connected user: the window that showed an open server shows *)
(* it still, or shows the new one, which is open.                           *)
LEMMA SwitchConnects ==
    ASSUME NoDeletion, WInv, NEW i \in Refnums(client), ServerCmd(i),
           client.connected_to_server > 0
    PROVE  client'.connected_to_server # 0
  <1>1. /\ Good(client) /\ i \in Int /\ reading = None
        /\ client.primary_server \in Int
    BY FieldTypes DEF WInv, IInv, ServerCmd, Command, Idle
  <1>2. Seen(client)
    BY <1>1, SettledThen DEF Settled
  <1>3. /\ Good(Typed) /\ Refnums(Typed) = Refnums(client) /\ Typed.windows = client.windows
        /\ Typed.server_list = client.server_list /\ Typed.primary_server = client.primary_server
        /\ Typed.connected_to_server = client.connected_to_server
    BY <1>1, GoodTyped DEF Typed
  <1>4. PICK outcome \in Outcomes :
          LET C == ConnectToServer(Typed, i, client.primary_server, outcome)
              D == ChangeServerChannels(C, C.primary_server, C.from_server)
          IN Command(IF Connects(client, i, outcome)
                     THEN SetPrimaryServer(D, D.from_server) ELSE C)
    BY DEF ServerCmd
  <1> DEFINE C == ConnectToServer(Typed, i, client.primary_server, outcome)
             D == ChangeServerChannels(C, C.primary_server, C.from_server)
             E == SetPrimaryServer(D, D.from_server)
  <1>5. /\ Good(C) /\ Alike(Typed, C) /\ C.from_server = i
        /\ C.primary_server = client.primary_server
    BY <1>1, <1>3, ConnectAlike
  <1>6. /\ Connects(client, i, outcome) => C.server_list[i].sock
        /\ \A k \in Refnums(client) \ {client.primary_server} :
               client.server_list[k].sock => C.server_list[k].sock
    BY <1>1, <1>3, ConnectLists DEF Connects
  <1> HIDE DEF C
  <1>7. Good(D) /\ Alike(C, D) /\ D.from_server = i
    BY <1>5, ChannelsAlike
  <1>8. \A k \in Refnums(client) : D.server_list[k].sock = C.server_list[k].sock
    BY <1>3, <1>5, ChannelsSockets DEF Alike
  <1>9. D.primary_server = client.primary_server
    BY <1>5 DEF ChangeServerChannels
  <1> HIDE DEF D
  <1>10. Command(IF Connects(client, i, outcome) THEN E ELSE C)
    BY <1>4 DEF C, D
  <1>11. CASE ~Connects(client, i, outcome)
    <2>1. client'.connected_to_server = client.connected_to_server
      BY <1>3, <1>5, <1>10, <1>11 DEF Command, Alike
    <2> QED
      BY <2>1
  <1>12. CASE Connects(client, i, outcome)
    <2> DEFINE shown == [w \in DOMAIN D.windows |->
                           IF D.windows[w] = D.primary_server THEN i ELSE D.windows[w]]
               S == [D EXCEPT !.windows = shown]
    <2>1. /\ S.server_list = D.server_list /\ S.number_of_servers = D.number_of_servers
          /\ S.windows = shown
      BY <1>7 DEF Good, ClientOK, ClientType
    <2>2. PICK j \in Refnums(client), w \in DOMAIN client.windows :
             IsOpen(client, j) /\ client.windows[w] = j
      <3>1. Shown(client) # {}
        BY <1>2, FS_EmptySet DEF Seen
      <3> QED
        BY <3>1 DEF Shown
    <2>3. /\ Refnums(D) = Refnums(client) /\ D.windows = client.windows
          /\ Refnums(S) = Refnums(client)
      BY <1>3, <1>5, <1>7, <2>1 DEF Alike, Refnums
    <2> HIDE DEF S
    <2>4. \A k \in Refnums(client) :
             S.server_list[k].sock /\ (\E v \in DOMAIN client.windows : S.windows[v] = k)
                => k \in Held(S)
      BY <2>1, <2>3 DEF Held, IsOpen, Shows
    <2>5. S.windows[w] = IF j = client.primary_server THEN i ELSE j
      BY <1>9, <2>1, <2>2, <2>3
    <2>6. Held(S) # {}
      <3>1. CASE j = client.primary_server
        BY <1>6, <1>8, <1>12, <2>1, <2>2, <2>4, <2>5, <3>1
      <3>2. CASE j # client.primary_server
        <4>1. client.server_list[j].sock
          BY <2>2 DEF IsOpen
        <4>2. S.server_list[j].sock
          BY <1>6, <1>8, <2>1, <3>2, <4>1
        <4> QED
          BY <2>2, <2>4, <2>5, <3>2, <4>2
      <3> QED
        BY <3>1, <3>2
    <2>7. Held(S) \subseteq Refnums(client) /\ IsFiniteSet(Refnums(client))
      <3>1. Held(S) \subseteq Refnums(S)
        BY DEF Held
      <3>2. IsFiniteSet(Refnums(client))
        BY <1>1, RefnumsFinite
      <3> QED
        BY <2>3, <3>1, <3>2
    <2>8. Counted(S) # 0
      BY <2>6, <2>7, FS_Subset, FS_EmptySet DEF Counted
    <2>9. E = [WindowCheckServers(S) EXCEPT !.primary_server = i]
      <3>1. E = SetPrimaryServer(D, i)
        BY <1>7
      <3> HIDE DEF E
      <3> QED
        BY <3>1 DEF SetPrimaryServer, S
    <2>10. E.connected_to_server = Counted(S)
      <3>1. WindowCheckServers(S).connected_to_server = Counted(S)
        <4>1. S.connected_to_server = D.connected_to_server
          BY DEF S
        <4> QED
          BY <2>1 DEF WindowCheckServers
      <3> QED
        BY <2>9, <3>1
    <2>11. client'.connected_to_server = E.connected_to_server
      BY <1>10, <1>12 DEF Command
    <2> QED
      BY <2>8, <2>10, <2>11
  <1> QED
    BY <1>11, <1>12

(* /SERVER name never costs a connected user the last connection, whatever  *)
(* the connect ends in (where no server is deleted from the list).          *)
THEOREM SwitchCorrect ==
    ASSUME NoDeletion
    PROVE  Spec => SwitchKeepsConnection
  <1> DEFINE A == client.connected_to_server > 0 /\ client'.connected_to_server = 0
                     => \A i \in Refnums(client) : ~ServerCmd(i)
  <1>1. WInv => A
    BY SwitchConnects
  <1> HIDE DEF A
  <1>2. WInv /\ [Next]_vars => [A]_vars
    BY <1>1
  <1>3. Spec => [][A]_vars
    BY <1>2, InitWInv, NextWInv, PTL DEF Spec
  <1> QED
    BY <1>3 DEF SwitchKeepsConnection, A
=============================================================================
