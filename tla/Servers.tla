------------------------------ MODULE Servers ------------------------------
(***************************************************************************)
(* The connection core of xaric: the server list (server.c), the windows   *)
(* that display servers (window.c), the commands that open, change and     *)
(* close connections (ncommand.c), the numerics and messages that close    *)
(* them (numbers.c, parse.c), and the reconnection timer (misc.c).         *)
(*                                                                         *)
(* xaric is single-threaded: every action is one handler run to its end by *)
(* io().  Only the inner loop of do_server, `while (read_data(i)) ;', is   *)
(* cut into its iterations, because a line's handler may close, replace or *)
(* delete the very server whose index the loop holds (`reading').          *)
(***************************************************************************)
EXTENDS Integers, FiniteSets

CONSTANTS
    Names,        \* host names the list may hold, one per server
    Windows,      \* windows that may exist
    MaxTimers,    \* bound on pending timed_server timers
    Events        \* the inputs below that the servers and the user of a run send

ASSUME NamesAssumption == IsFiniteSet(Names) /\ Names # {}
ASSUME MaxTimersAssumption == MaxTimers \in Nat \ {0}
ASSUME EventsAssumption ==
    Events \subseteq {"001", "004", "JOIN", "whois", "463", "464", "465", "KILL",
                      "unreachable", "add", "delete", "windows"}

None == -1

VARIABLES
    client,           \* the globals of server.c and the server of each window
    reading,          \* server whose lines do_server is reading, or None
    timers,           \* pending timed_server callbacks
    in_timed_server,  \* a timed_server callback is believed to be pending
    prompt            \* server of the pending "Server Password:" prompt, or None

vars == <<client, reading, timers, in_timed_server, prompt>>

(* struct server: what the properties tell apart.                          *)
Server == [name      : Names,
           sock      : BOOLEAN,   \* sock != NULL
           connected : BOOLEAN,
           logged_in : BOOLEAN,   \* flags & LOGGED_IN
           eof       : BOOLEAN,   \* reconnected once without a 001 since
           whois     : BOOLEAN,   \* the whois queue is not empty
           channels  : BOOLEAN]   \* chan_list is not empty

Blank(name) ==
    [name |-> name, sock |-> FALSE, connected |-> FALSE,
     logged_in |-> FALSE, eof |-> FALSE, whois |-> FALSE, channels |-> FALSE]

----------------------------------------------------------------------------
(* Operators on a client record C.  The refnums of its list are            *)
(* 0 .. C.number_of_servers - 1; C.windows maps each window that exists to  *)
(* its server.                                                             *)

Refnums(C) == 0 .. C.number_of_servers - 1
IsOpen(C, i) == i \in Refnums(C) /\ C.server_list[i].sock

(* Mutants of Shut: `connected' survives; the channels always survive.     *)
ShutStaysConnected(r, isPrimary) ==
    [r EXCEPT !.sock = FALSE,
              !.whois = @ /\ ~isPrimary, !.channels = @ /\ isPrimary]

ShutKeepsChannels(r, isPrimary) ==
    [r EXCEPT !.sock = FALSE, !.connected = FALSE,
              !.whois = @ /\ ~isPrimary]

(* close_server keeps the channels of the primary server (to rejoin them)  *)
(* and the whois queue of every other.                                     *)
Shut(r, isPrimary) ==
    [r EXCEPT !.sock = FALSE, !.connected = FALSE,
              !.whois = @ /\ ~isPrimary, !.channels = @ /\ isPrimary]

CloseServer(C, i) ==
    [C EXCEPT !.server_list[i] = Shut(@, i = C.primary_server)]

CleanWhoisQueue(C, i) == [C EXCEPT !.server_list[i].whois = FALSE]

(* The windows window_check_servers counts for server i: those that show   *)
(* it, and those that its loop has already moved from a closed server with *)
(* a smaller refnum to the primary server.                                 *)
Shows(C, w, i) ==
    \/ C.windows[w] = i
    \/ /\ i = C.primary_server
       /\ C.windows[w] \in 0 .. i - 1
       /\ ~IsOpen(C, C.windows[w])

Held(C) == {i \in Refnums(C) :
                IsOpen(C, i) /\ \E w \in DOMAIN C.windows : Shows(C, w, i)}

Prime(C) == IF Held(C) = {} THEN None
            ELSE CHOOSE i \in Held(C) : \A j \in Held(C) : j <= i

(* Mutant: the servers are counted before those without a window close.    *)
CountedTooEarly(C) == Cardinality({i \in Refnums(C) : IsOpen(C, i)})

(* The new value of connected_to_server.                                   *)
Counted(C) == Cardinality(Held(C))

WindowCheckServers(C) ==
    LET lost == C.primary_server \notin Held(C)
        moved(s) == IF s \in Refnums(C) /\ ~IsOpen(C, s) THEN C.primary_server ELSE s
        rescued(s) == IF lost /\ s = C.primary_server THEN Prime(C) ELSE s
    IN [C EXCEPT
          !.server_list = [i \in Refnums(C) |->
                IF i \in Held(C) THEN C.server_list[i]
                ELSE Shut(C.server_list[i], i = C.primary_server)],
          !.windows = [w \in DOMAIN C.windows |-> rescued(moved(C.windows[w]))],
          !.primary_server = IF lost THEN Prime(C) ELSE @,
          !.connected_to_server = Counted(C)]

(* set_window_server for one window, and for the primary server (-1).  The *)
(* assignment of primary_server comes after the check.                     *)
SetWindowServer(C, w, s) == WindowCheckServers([C EXCEPT !.windows[w] = s])

SetPrimaryServer(C, s) ==
    LET shown == [w \in DOMAIN C.windows |->
                     IF C.windows[w] = C.primary_server THEN s ELSE C.windows[w]]
    IN [WindowCheckServers([C EXCEPT !.windows = shown]) EXCEPT !.primary_server = s]

(* The refnum of a deleted primary server may be the one past the end of   *)
(* the list, where remove_from_server_list left a blank record.            *)
ChangeServerChannels(C, old, new) ==
    IF new = old \/ new = None \/ old = None THEN C
    ELSE [C EXCEPT !.server_list[new].channels =
                       old \in Refnums(C) /\ C.server_list[old].channels,
                   !.server_list[old].channels = FALSE]

(* Sends PASS, NICK and USER; c_server is the server this one replaces.    *)
LoginToServer(C, i, c_server) ==
    [(IF c_server \in {None, i} THEN C ELSE CloseServer(C, c_server))
        EXCEPT !.server_list[i].logged_in = TRUE, !.server_list[i].connected = TRUE]

(* What a blocking connect can do: fail, succeed with the peer's name      *)
(* known (the login follows), or succeed and be reset before getpeername.  *)
Outcomes == {"fail", "login", "reset"}

Connects(C, i, outcome) == C.server_list[i].sock \/ outcome # "fail"

ConnectToServer(C, i, c_server, outcome) ==
    LET opened == [C EXCEPT !.from_server = i,
                            !.server_list[i].sock = TRUE,
                            !.server_list[i].logged_in = FALSE]
    IN CASE C.server_list[i].sock \/ outcome = "fail" -> [C EXCEPT !.from_server = i]
         [] ~C.server_list[i].sock /\ outcome = "login" -> LoginToServer(opened, i, c_server)
         [] OTHER -> opened

(* get_connected tries `server' and the servers after it in the list.      *)
Wrapped(C, server) == IF server = C.number_of_servers THEN 0
                      ELSE IF server < 0 THEN C.number_of_servers - 1 ELSE server

(* The servers it can end on, None when every attempt fails.               *)
Reachable(C, server) ==
    {j \in Wrapped(C, server) .. C.number_of_servers :
        \A k \in Wrapped(C, server) .. j - 1 : ~C.server_list[k].sock}

GetConnected(C, j, outcome) ==
    LET tried == IF j \in Refnums(C) THEN ConnectToServer(C, j, C.primary_server, outcome)
                 ELSE [C EXCEPT !.from_server = None]
    IN SetPrimaryServer(ChangeServerChannels(tried, tried.primary_server, tried.from_server),
                        tried.from_server)

(* Every client that get_connected(server) can leave.                      *)
GetConnectedResults(C, server) ==
    {GetConnected(C, j, outcome) :
        j \in Reachable(C, server), outcome \in Outcomes \ {"fail"}}

(* Mutant: the windows keep their refnums.                                 *)
RemoveForgetsWindows(C, i) ==
    LET fixed(s) == IF i < s THEN s - 1 ELSE s
    IN [C EXCEPT
          !.number_of_servers = @ - 1,
          !.server_list = [k \in 0 .. C.number_of_servers - 2 |->
                              IF k < i THEN C.server_list[k] ELSE C.server_list[k + 1]],
          !.primary_server = fixed(@),
          !.from_server = fixed(@)]

(* remove_from_server_list, when it does not exit.                         *)
RemoveFromServerList(C, i) ==
    LET fixed(s) == IF i < s THEN s - 1 ELSE s
    IN [C EXCEPT
          !.number_of_servers = @ - 1,
          !.server_list = [k \in 0 .. C.number_of_servers - 2 |->
                              IF k < i THEN C.server_list[k] ELSE C.server_list[k + 1]],
          !.primary_server = fixed(@),
          !.from_server = fixed(@),
          !.windows = [w \in DOMAIN C.windows |-> fixed(C.windows[w])]]

(* Mutant: the list is not reallocated.                                    *)
AddWithoutRealloc(C, name) == [C EXCEPT !.number_of_servers = @ + 1]

AddToServerList(C, name) ==
    [C EXCEPT !.number_of_servers = @ + 1,
              !.server_list = [k \in 0 .. C.number_of_servers |->
                  IF k < C.number_of_servers THEN C.server_list[k]
                  ELSE Blank(name)]]

----------------------------------------------------------------------------
(* Start-up: a list of servers, one window, and get_connected(0).          *)

Started(list, w) ==
    [server_list |-> list, number_of_servers |-> Cardinality(DOMAIN list),
     primary_server |-> None, from_server |-> None, connected_to_server |-> 0,
     windows |-> [v \in {w} |-> None], curr_scr_win |-> w]

Init ==
    /\ \E n \in 1 .. Cardinality(Names) : \E names \in [0 .. n - 1 -> Names] :
         /\ \A i, j \in 0 .. n - 1 : names[i] = names[j] => i = j
         /\ \E w \in Windows :
              client \in GetConnectedResults(
                            Started([i \in 0 .. n - 1 |-> Blank(names[i])], w), 0)
    /\ reading = None /\ timers = 0 /\ in_timed_server = FALSE /\ prompt = None

(* io() is between two handlers.                                           *)
Idle == reading = None

(* check_server_connect(-1): another timed_server in ten seconds.          *)
AddServerTimer == /\ timers < MaxTimers
                  /\ timers' = timers + 1
                  /\ in_timed_server' = TRUE

----------------------------------------------------------------------------
(* Lines from a server.  parse_server ends with from_server = -1, and the  *)
(* loop reads server i again whatever the handler did.                     *)

CanRead(i) == IsOpen(client, i) /\ reading \in {None, i}

Handled(i, C) == /\ client' = [C EXCEPT !.from_server = None]
                 /\ reading' = i

From(i) == [client EXCEPT !.from_server = i]

(* 001: the server has registered us.                                      *)
Welcome(i) ==
    /\ "001" \in Events /\ CanRead(i)
    /\ Handled(i, [client EXCEPT !.server_list[i].connected = TRUE,
                                 !.server_list[i].eof = FALSE])
    /\ UNCHANGED <<timers, in_timed_server, prompt>>

(* 004: reconnect_all_channels sends the JOINs and forgets the channels.   *)
MyInfo(i) ==
    /\ "004" \in Events /\ CanRead(i)
    /\ Handled(i, [client EXCEPT !.server_list[i].channels = FALSE])
    /\ UNCHANGED <<timers, in_timed_server, prompt>>

(* JOIN for our own nickname.                                              *)
Join(i) ==
    /\ "JOIN" \in Events /\ CanRead(i)
    /\ Handled(i, [client EXCEPT !.server_list[i].channels = TRUE])
    /\ UNCHANGED <<timers, in_timed_server, prompt>>

(* The reply to the last outstanding WHOIS, USERHOST or ISON.              *)
WhoisReply(i) ==
    /\ CanRead(i) /\ client.server_list[i].whois
    /\ Handled(i, CleanWhoisQueue(client, i))
    /\ UNCHANGED <<timers, in_timed_server, prompt>>

(* 463: no permission.  from_server is compared with primary_server after  *)
(* the check has chosen the primary server anew.                           *)
NoPermForHost(i) ==
    LET C == WindowCheckServers(CloseServer(From(i), i)) IN
    /\ "463" \in Events /\ CanRead(i)
    /\ \E D \in IF i = C.primary_server THEN GetConnectedResults(C, i + 1) ELSE {C} :
            Handled(i, D)
    /\ UNCHANGED <<timers, in_timed_server, prompt>>

(* 464: wrong password.  The server is closed and the user prompted.       *)
PasswdMismatch(i) ==
    /\ "464" \in Events /\ CanRead(i) /\ client.server_list[i].connected
    /\ prompt = None /\ timers < MaxTimers    \* bounds: one prompt at a time, and
                                              \* room for the timer of the loss
    /\ Handled(i, CloseServer(client, i))
    /\ prompt' = i
    /\ UNCHANGED <<timers, in_timed_server>>

(* 465: banned.  The server leaves the list unless it is the last one.     *)
Banned(i) ==
    LET C == WindowCheckServers(CloseServer(From(i), i))
        D == IF C.number_of_servers > 1 THEN RemoveFromServerList(C, i) ELSE C
    IN /\ "465" \in Events
       /\ CanRead(i) /\ client.server_list[i].connected
       /\ \E E \in IF i = D.primary_server THEN GetConnectedResults(D, i) ELSE {D} :
            Handled(i, E)
       /\ UNCHANGED <<timers, in_timed_server, prompt>>

(* KILL: whatever AUTO_RECONNECT says, the command run is "SERVER" with no *)
(* argument, which only displays the list.                                 *)
Kill(i) ==
    /\ "KILL" \in Events /\ CanRead(i)
    /\ Handled(i, WindowCheckServers(CleanWhoisQueue(CloseServer(From(i), i), i)))
    /\ UNCHANGED <<timers, in_timed_server, prompt>>

(* No whole line yet: read_data returns 0 and the loop ends.               *)
ReadTimeout(i) ==
    /\ CanRead(i)
    /\ client' = From(i)
    /\ reading' = None
    /\ UNCHANGED <<timers, in_timed_server, prompt>>

(* End of file, an error, or a NULL socket after the handler of a line     *)
(* closed the server: the default branch of read_data.                     *)
Lost(i) == /\ i \in Refnums(client)
           /\ IsOpen(client, i) \/ reading = i
           /\ reading \in {None, i}

Closed(i) == CloseServer(From(i), i)

LosePrimary(i) ==
    /\ Lost(i) /\ i = client.primary_server
    /\ client' = WindowCheckServers(Closed(i))
    /\ reading' = None
    /\ AddServerTimer
    /\ UNCHANGED prompt

SetEof(C, i) == [C EXCEPT !.server_list[i].eof = TRUE]

GiveUp(i, C) == SetEof(WindowCheckServers(CleanWhoisQueue(CloseServer(C, i), i)), i)

LoseOther(i) ==
    /\ Lost(i) /\ i # client.primary_server
    /\ IF client.server_list[i].eof THEN client' = GiveUp(i, Closed(i))
       ELSE \E outcome \in Outcomes :
              LET C == ConnectToServer(Closed(i), i, None, outcome)
              IN client' = IF outcome = "fail" THEN GiveUp(i, C) ELSE SetEof(C, i)
    /\ reading' = None
    /\ UNCHANGED <<timers, in_timed_server, prompt>>

(* The loop's index is past the end of the list: read_data dereferences    *)
(* freed memory.  The loop is assumed to end without another effect.       *)
ReadBeyondEnd ==
    /\ reading # None /\ reading \notin Refnums(client)
    /\ client' = From(reading)
    /\ reading' = None
    /\ UNCHANGED <<timers, in_timed_server, prompt>>

(* do_server, socket writable: the login a reset connect left out.         *)
Login(i) ==
    /\ Idle /\ IsOpen(client, i) /\ ~client.server_list[i].logged_in
    /\ client' = LoginToServer(client, i, None)
    /\ UNCHANGED <<reading, timers, in_timed_server, prompt>>

(* do_server, errno ENETUNREACH and no line for ten minutes.               *)
Unreachable(i) ==
    /\ "unreachable" \in Events
    /\ Idle /\ IsOpen(client, i)
    /\ client' \in GetConnectedResults(CloseServer(client, i), i)
    /\ UNCHANGED <<reading, timers, in_timed_server, prompt>>

----------------------------------------------------------------------------
(* Timers.                                                                 *)

(* The end of a minute: check_server_connect(from_server); last_msg of     *)
(* from_server is old, or nothing happens.                                 *)
MinuteTick ==
    /\ Idle
    /\ client.from_server = None \/ ~in_timed_server
    /\ AddServerTimer
    /\ UNCHANGED <<client, reading, prompt>>

(* Mutant: in_timed_server is not reset.                                   *)
TimedServerStays ==
    /\ Idle /\ timers > 0
    /\ timers' = timers - 1
    /\ client' \in IF client.connected_to_server = 0 THEN GetConnectedResults(client, 0)
                   ELSE {client}
    /\ UNCHANGED <<reading, in_timed_server, prompt>>

TimedServer ==
    /\ Idle /\ timers > 0
    /\ timers' = timers - 1
    /\ in_timed_server' = FALSE
    /\ client' \in IF client.connected_to_server = 0 THEN GetConnectedResults(client, 0)
                   ELSE {client}
    /\ UNCHANGED <<reading, prompt>>

----------------------------------------------------------------------------
(* The user.  send_line sets from_server to the current window's server    *)
(* for the command and restores the old value, unadjusted, after it.       *)

Typed == [client EXCEPT !.from_server = client.windows[client.curr_scr_win]]

Command(C) == /\ Idle
              /\ client' = [C EXCEPT !.from_server = client.from_server]
              /\ UNCHANGED reading

Others == UNCHANGED <<timers, in_timed_server, prompt>>

(* Mutant: the primary server moves even when the connect failed.          *)
ServerCmdAnyway(i) ==
    \E outcome \in Outcomes :
      LET C == ConnectToServer(Typed, i, client.primary_server, outcome)
          D == ChangeServerChannels(C, C.primary_server, C.from_server)
      IN /\ Command(SetPrimaryServer(D, D.from_server))
         /\ Others

(* /SERVER name                                                            *)
ServerCmd(i) ==
    \E outcome \in Outcomes :
      LET C == ConnectToServer(Typed, i, client.primary_server, outcome)
          D == ChangeServerChannels(C, C.primary_server, C.from_server)
      IN /\ Command(IF Connects(client, i, outcome)
                    THEN SetPrimaryServer(D, D.from_server) ELSE C)
         /\ Others

(* /SERVER +name and /WINDOW SERVER name                                   *)
WindowServer(w, i) ==
    \E outcome \in Outcomes :
      LET C == ConnectToServer(Typed, i, None, outcome)
      IN /\ Command(IF Connects(client, i, outcome) THEN SetWindowServer(C, w, i) ELSE C)
         /\ Others

(* /SERVER + and /SERVER -                                                 *)
NextServer(step) ==
    /\ \E C \in GetConnectedResults(Typed, client.primary_server + step) : Command(C)
    /\ Others

(* Mutant: no check of the windows after the close.                        *)
CloseCmdUnchecked(i) ==
    /\ i # client.primary_server
    /\ Command(CloseServer(Typed, i))
    /\ Others

(* /SERVER -name                                                           *)
CloseCmd(i) ==
    /\ i # client.primary_server
    /\ Command(WindowCheckServers(CloseServer(Typed, i)))
    /\ Others

(* /SERVER -ADD name, for a name that is not in the list                   *)
AddServer(name) ==
    /\ "add" \in Events
    /\ \A i \in Refnums(client) : client.server_list[i].name # name
    /\ Command(AddToServerList(client, name))
    /\ Others

(* /SERVER -DELETE i; deleting the last server exits the program.          *)
DeleteServer(i) ==
    /\ "delete" \in Events
    /\ client.number_of_servers > 1
    /\ ~client.server_list[i].connected
    /\ Command(RemoveFromServerList(Typed, i))
    /\ Others

(* /DISCONNECT: the queue cleaned is that of the current window's server.  *)
Disconnect(i) ==
    LET here == Typed.from_server
        C == CloseServer([Typed EXCEPT !.server_list[i].channels = FALSE], i)
        D == IF here \in Refnums(client) THEN CleanWhoisQueue(SetEof(C, i), here)
             ELSE SetEof(C, i)
    IN /\ client.server_list[i].sock
       /\ Command(WindowCheckServers(D))
       /\ Others

(* /RECONNECT: close, then /SERVER +refnum.                                *)
Reconnect ==
    LET i == Typed.from_server
        C == WindowCheckServers(CleanWhoisQueue(CloseServer(Typed, i), i))
    IN /\ i \in Refnums(client)
       /\ \E outcome \in Outcomes :
            LET D == ConnectToServer(C, i, None, outcome)
            IN Command(IF outcome = "fail" THEN D
                       ELSE SetWindowServer(D, client.curr_scr_win, i))
       /\ Others

(* A WHOIS, USERHOST or ISON to the current window's server.               *)
AskWhois ==
    LET i == Typed.from_server IN
    /\ "whois" \in Events
    /\ i \in Refnums(client) /\ client.server_list[i].connected
    /\ Command([client EXCEPT !.server_list[i].whois = TRUE])
    /\ Others

(* The answer to the password prompt: password_sendline takes the refnum   *)
(* from the password typed (atoi(line)), not from the prompt (data).       *)
PasswordSendline(i) ==
    /\ prompt # None
    /\ \E outcome \in Outcomes : Command(ConnectToServer(Typed, i, None, outcome))
    /\ prompt' = None
    /\ UNCHANGED <<timers, in_timed_server>>

(* /WINDOW NEW: the new window shows the current window's server and is    *)
(* current.                                                                *)
NewWindow(w) ==
    /\ "windows" \in Events
    /\ w \notin DOMAIN client.windows
    /\ Command([client EXCEPT
            !.windows = [v \in DOMAIN client.windows \cup {w} |->
                IF v = w THEN Typed.from_server ELSE client.windows[v]],
            !.curr_scr_win = w])
    /\ Others

(* /WINDOW KILL, never of the last window.                                 *)
DeleteWindow(w) ==
    /\ w \in DOMAIN client.windows
    /\ \E v \in DOMAIN client.windows \ {w} :
         /\ w # client.curr_scr_win => v = client.curr_scr_win
         /\ Command(WindowCheckServers([client EXCEPT
                !.windows = [u \in DOMAIN client.windows \ {w} |-> client.windows[u]],
                !.curr_scr_win = v]))
    /\ Others

SwitchWindow(w) ==
    /\ w \in DOMAIN client.windows
    /\ Command([client EXCEPT !.curr_scr_win = w])
    /\ Others

----------------------------------------------------------------------------

Lines(i) == \/ Welcome(i) \/ MyInfo(i) \/ Join(i) \/ WhoisReply(i)
            \/ NoPermForHost(i) \/ PasswdMismatch(i) \/ Banned(i) \/ Kill(i)

Network(i) == \/ Lines(i) \/ ReadTimeout(i) \/ LosePrimary(i) \/ LoseOther(i)
              \/ Login(i) \/ Unreachable(i)

User(i) == \/ ServerCmd(i) \/ CloseCmd(i) \/ DeleteServer(i) \/ Disconnect(i)
           \/ PasswordSendline(i)
           \/ \E w \in DOMAIN client.windows : WindowServer(w, i)

Next ==
    \/ \E i \in Refnums(client) : Network(i) \/ User(i)
    \/ ReadBeyondEnd
    \/ MinuteTick
    \/ TimedServer
    \/ \E step \in {1, -1} : NextServer(step)
    \/ \E name \in Names : AddServer(name)
    \/ Reconnect
    \/ AskWhois
    \/ \E w \in Windows : NewWindow(w) \/ DeleteWindow(w) \/ SwitchWindow(w)

Spec == Init /\ [][Next]_vars

(* io() runs the clock and the due timers at the end of each of its passes, *)
(* however many lines and keys it serves: strong fairness for both.  The   *)
(* network is assumed to let a connect of timed_server succeed infinitely  *)
(* often if it is tried infinitely often.  read_data never blocks for more *)
(* than its timeout: the loop of do_server ends.                           *)
TimedServerSucceeds ==
    TimedServer /\ (client.connected_to_server = 0 => client'.from_server # None)

ReadLoopEnds == ReadBeyondEnd \/ \E i \in Refnums(client) :
                                    ReadTimeout(i) \/ LosePrimary(i) \/ LoseOther(i)

FairSpec == /\ Spec
            /\ SF_vars(MinuteTick)
            /\ SF_vars(TimedServerSucceeds)
            /\ SF_vars(ReadLoopEnds)

----------------------------------------------------------------------------
(* Properties that hold.                                                   *)

(* Every variable has its type: the list has number_of_servers records,    *)
(* and each window that exists has a server.                               *)
ClientType(n, W) ==
    [server_list         : [0 .. n - 1 -> Server],
     number_of_servers   : {n},
     primary_server      : Int,
     from_server         : Int,
     connected_to_server : Nat,
     windows             : [W -> Int],
     curr_scr_win        : W]

ClientOK(C) == /\ C.number_of_servers \in Nat \ {0}
               /\ DOMAIN C.windows \subseteq Windows
               /\ C \in ClientType(C.number_of_servers, DOMAIN C.windows)

TypeOK == /\ ClientOK(client)
          /\ reading \in Int /\ prompt \in Int
          /\ timers \in 0 .. MaxTimers
          /\ in_timed_server \in BOOLEAN

(* A server marked connected has a socket: nothing is sent to, and no      *)
(* WHOIS queued for, a server whose socket close_server destroyed          *)
(* (server.c: close_server, read_data, login_to_server).                   *)
ConnectedIsOpen ==
    \A i \in Refnums(client) :
        client.server_list[i].connected => client.server_list[i].sock

Showing(i) == {w \in DOMAIN client.windows : client.windows[w] = i}

(* Between two handlers no window shows a server whose connection is gone, *)
(* whichever handler closed it, and connected_to_server, on which          *)
(* timed_server decides whether to reconnect, counts the open servers that *)
(* a window shows (window.c: window_check_servers).                        *)
WindowsShowOpenServers ==
    Idle => /\ \A w \in DOMAIN client.windows :
                   client.windows[w] # None => IsOpen(client, client.windows[w])
            /\ client.connected_to_server
                  = Cardinality({i \in Refnums(client) : IsOpen(client, i) /\ Showing(i) # {}})

(* At most one closed server has kept its channels: what is rejoined after *)
(* a loss is the channels of one connection (server.c: close_server,       *)
(* names.c: change_server_channels, reconnect_all_channels).               *)
OneServerToRejoin ==
    Idle => \A i, j \in Refnums(client) :
                /\ client.server_list[i].channels /\ ~IsOpen(client, i)
                /\ client.server_list[j].channels /\ ~IsOpen(client, j)
                => i = j

(* /SERVER name, successful or not, never costs a connected user the last  *)
(* connection: the old server is closed only after the new one is open     *)
(* (ncommand.c: cmd_server, server.c: login_to_server).                    *)
SwitchKeepsConnection ==
    [][client.connected_to_server > 0 /\ client'.connected_to_server = 0
         => \A i \in Refnums(client) : ~ServerCmd(i)]_vars

(* Deleting a server from the list leaves every window that showed another *)
(* server, and the primary server, on the server they were on (server.c:   *)
(* remove_from_server_list).                                               *)
NameOf(C, s) == IF s \in Refnums(C) THEN C.server_list[s].name ELSE "none"

DeletionKeepsServers ==
    [][client'.number_of_servers < client.number_of_servers
         => \A i \in Refnums(client) : DeleteServer(i) =>
              /\ \A w \in DOMAIN client.windows : client.windows[w] # i =>
                    NameOf(client', client'.windows[w]) = NameOf(client, client.windows[w])
              /\ client.primary_server # i =>
                    NameOf(client', client'.primary_server)
                        = NameOf(client, client.primary_server)]_vars

(* A user without a connection is connected again, whatever is typed and   *)
(* whatever fails meanwhile (server.c: read_data, timed_server; misc.c:    *)
(* check_server_connect; irc.c: io).                                       *)
Reconnects == client.connected_to_server = 0 ~> client.connected_to_server > 0
=============================================================================
