------------------------------ MODULE Targets ------------------------------
(***************************************************************************)
(* Which window talks to which channel or nick, and which window shows a   *)
(* line: the current, waiting and bound channels, the query and the nicks  *)
(* of the windows (window.c), the window of a channel (names.c), and the   *)
(* choice of add_to_screen (screen.c).                                     *)
(*                                                                         *)
(* A struct channel keeps a pointer to its window.  No window is told when *)
(* another is deleted, so the pointer may be one to a window that is no    *)
(* more; a new window with the refnum of the old is taken for the old.     *)
(***************************************************************************)
EXTENDS Integers, SequencesExt

CONSTANTS
    Refnums,     \* windows: numbers, in the order of traverse_all_windows
    Chans,       \* channels: numbers, in the order of their names
    Nicks,       \* other numbers
    Levels,      \* levels of messages
    Servers,     \* numbers; the smallest is the primary server
    AutoRejoin   \* /SET AUTO_REJOIN

None == 0

NumbersAssumption == Refnums \cup Chans \cup Nicks \cup Servers \subseteq Nat \ {None}
NicksAssumption == Nicks \cap Chans = {}
ServersAssumption == Servers # {} /\ Refnums # {}
AutoRejoinAssumption == AutoRejoin \in BOOLEAN

VARIABLE ui    \* the windows, the current one, the channel lists, join_list

Least(S) == CHOOSE x \in S : \A y \in S : x <= y
Primary == Least(Servers)

Window == [server : Servers, current_channel : Chans \cup {None},
           waiting_channel : Chans \cup {None}, bind_channel : Chans \cup {None},
           query_nick : Nicks \cup {None}, nicks : [Nicks -> 0..2],
           window_level : SUBSET Levels]

NewWindow(s) == [server |-> s, current_channel |-> None, waiting_channel |-> None,
                 bind_channel |-> None, query_nick |-> None,
                 nicks |-> [n \in Nicks |-> 0], window_level |-> {}]

Exists(u, w) == w \in DOMAIN u.win
On(u, s) == DOMAIN u.chan_list[s]
FromServer(u) == u.win[u.cur].server     \* what a command is about

----------------------------------------------------------------------------
(* window.c.                                                               *)

Having(u, s, field, c) == {w \in DOMAIN u.win : u.win[w].server = s /\ u.win[w][field] = c}

IsCurrentChannel(u, s, c) == Having(u, s, "current_channel", c) # {}
IsBound(u, s, c) == Having(u, s, "bind_channel", c) # {}

Changed(u, windows, change(_)) ==
    [u EXCEPT !.win = [w \in DOMAIN @ |-> IF w \in windows THEN change(@[w]) ELSE @[w]]]

(* A mutant: the channel stays current where it was.                       *)
NotUnset(u, s, c) == u

(* is_current_channel with the delete flag.                                *)
Unset(u, s, c) == Changed(u, Having(u, s, "current_channel", c),
                          LAMBDA r : [r EXCEPT !.current_channel = None])

SetChannelWindow(u, w, c, s) ==
    IF c \in On(u, s) THEN [u EXCEPT !.chan_list[s][c] = w] ELSE u

SetCurrentChannel(u, w, c) ==
    SetChannelWindow(Changed(u, {w}, LAMBDA r : [r EXCEPT !.current_channel = c,
                                                          !.waiting_channel = None]),
                     w, c, u.win[w].server)

UnbindChannel(u, s, c) ==
    IF ~IsBound(u, s, c) THEN u
    ELSE Changed(u, {Least(Having(u, s, "bind_channel", c))},
                 LAMBDA r : [r EXCEPT !.bind_channel = None])

(* revamp_window_levels: the level is taken from the other windows of the  *)
(* server, and DCC from all but one.                                       *)
Revamped(u, window) ==
    LET level == u.win[window].window_level
        others == {w \in DOMAIN u.win \ {window} : "DCC" \in u.win[w].window_level}
        keeps == IF "DCC" \in level \/ others = {} THEN {} ELSE {Least(others)}
    IN  [u EXCEPT !.win = [w \in DOMAIN @ |->
            IF w = window THEN @[w]
            ELSE [@[w] EXCEPT !.window_level =
                     (IF w \in keeps THEN @ ELSE @ \ {"DCC"})
                         \ (IF u.win[w].server = u.win[window].server THEN level ELSE {})]]]

----------------------------------------------------------------------------
(* names.c.                                                                *)

(* switch_channels: the current window goes on to another channel of the   *)
(* list of server s.                                                       *)
SwitchChannels(u, s) ==
    LET free == {c \in On(u, s) : ~IsCurrentChannel(u, s, c)}
        now == u.win[u.cur].current_channel
        next == IF now \in On(u, s) THEN {c \in free : c > now} ELSE {}
        here == {c \in free : u.chan_list[s][c] = u.cur}
    IN  IF next # {} THEN SetCurrentChannel(u, u.cur, Least(next))
        ELSE IF here # {} THEN SetCurrentChannel(u, u.cur, Least(here))
        ELSE u

AddChannel(u, s, c) ==
    LET window == IF c \in On(u, s) \/ u.join_list[s][c] = None THEN u.cur
                  ELSE IF Exists(u, u.join_list[s][c]) THEN u.join_list[s][c] ELSE None
        added == [u EXCEPT !.chan_list[s] =
                     [d \in DOMAIN @ \cup {c} |-> IF d = c THEN window ELSE @[d]]]
        wanting == Having(u, s, "bind_channel", c) \cup Having(u, s, "waiting_channel", c)
    IN  IF IsCurrentChannel(u, s, c) THEN added
        ELSE IF wanting # {}
             THEN SetChannelWindow(SetCurrentChannel(added, Least(wanting), c),
                                   Least(wanting), c, s)
        ELSE SetChannelWindow(SetCurrentChannel(added, IF window = None THEN u.cur ELSE window, c),
                              u.cur, c, s)

RemoveChannel(u, s, c) ==
    LET left == [u EXCEPT !.chan_list[s] = [d \in DOMAIN @ \ {c} |-> @[d]]]
    IN  IF IsCurrentChannel(u, s, c) THEN SwitchChannels(Unset(left, s, c), s) ELSE left

----------------------------------------------------------------------------
(* Commands.                                                               *)

Do(u) == ui' = u

(* /WINDOW NEW, which is shown and current.                                *)
WindowNew ==
    \E w \in Refnums :
        /\ ~Exists(ui, w) /\ \A v \in Refnums : v < w => Exists(ui, v)
        /\ Do([ui EXCEPT !.cur = w,
                         !.win = [v \in DOMAIN @ \cup {w} |->
                                     IF v = w THEN NewWindow(FromServer(ui)) ELSE @[v]]])

(* /WINDOW KILL; the last window of a server closes its connection too, as *)
(* Servers.tla has it, and is left out here.                               *)
DeleteWindow(w) ==
    /\ \E v \in DOMAIN ui.win \ {w} : ui.win[v].server = ui.win[w].server
    /\ \E next \in DOMAIN ui.win \ {w} :
           /\ w # ui.cur => next = ui.cur
           /\ Do([ui EXCEPT !.cur = next, !.win = [v \in DOMAIN @ \ {w} |-> @[v]]])

WindowGoto(w) == Do([ui EXCEPT !.cur = w])

WindowServer(w, s) ==
    /\ \E v \in DOMAIN ui.win \ {w} : ui.win[v].server = ui.win[w].server
    /\ Do(Changed(ui, {w}, LAMBDA r : [r EXCEPT !.server = s, !.window_level = Levels,
                                                !.current_channel = None]))

CmdJoin(c) ==
    LET s == FromServer(ui)
        elsewhere == /\ \E w \in DOMAIN ui.win : ui.win[w].bind_channel = c
                     /\ ui.win[ui.cur].bind_channel # c
    IN  IF c \in On(ui, s)
        THEN Do(IF elsewhere THEN ui
                ELSE SetCurrentChannel(Unset(ui, s, c), ui.cur, c))
        ELSE Do(IF IsBound(ui, s, c) THEN ui
                ELSE Changed(ui, {ui.cur}, LAMBDA r : [r EXCEPT !.waiting_channel = c]))

(* /WINDOW REFNUM w CHANNEL c: set_current_channel_by_refnum(0, c) is      *)
(* about the current window, not about w.                                  *)
WindowChannel(w, c) ==
    LET s == FromServer(ui) IN
    /\ c # None => ~IsBound(ui, s, c)
    /\ IF c = None THEN Do(SetCurrentChannel(ui, ui.cur, None))
       ELSE IF IsCurrentChannel(ui, s, c) \/ c \in On(ui, s)
            THEN Do(SetCurrentChannel(Unset(ui, s, c), ui.cur, c))
       ELSE Do(Changed(ui, {w}, LAMBDA r : [r EXCEPT !.waiting_channel = c]))

WindowBind(w, c) ==
    LET s == FromServer(ui)
        freed == IF IsBound(ui, s, c) /\ IsCurrentChannel(ui, s, c)
                 THEN UnbindChannel(Unset(ui, s, c), s, c) ELSE ui
        bound == Changed(freed, {w}, LAMBDA r : [r EXCEPT !.bind_channel = c])
    IN  Do(IF c \in On(ui, s) THEN SetCurrentChannel(bound, ui.cur, c) ELSE bound)

(* /WINDOW UNBIND c is about the server, without c about the window.       *)
WindowUnbind ==
    \/ \E c \in Chans : Do(UnbindChannel(ui, FromServer(ui), c))
    \/ \E w \in DOMAIN ui.win :
           Do(Changed(ui, {w}, LAMBDA r : [r EXCEPT !.bind_channel = None]))

SwitchKey == Do(SwitchChannels(ui, FromServer(ui)))

(* /QUERY nick, and /QUERY to end it.                                      *)
CmdQuery(nick) ==
    LET old == ui.win[ui.cur].query_nick
        list == [n \in Nicks |-> ui.win[ui.cur].nicks[n]
                                   - (IF n = old /\ ui.win[ui.cur].nicks[n] > 0 THEN 1 ELSE 0)
                                   + (IF n = nick THEN 1 ELSE 0)]
    IN  /\ \A n \in Nicks : list[n] <= 2
        /\ Do(Changed(ui, {ui.cur}, LAMBDA r : [r EXCEPT !.query_nick = nick, !.nicks = list]))

WindowAdd(w, nick) ==
    /\ ui.win[w].nicks[nick] = 0
    /\ Do([ui EXCEPT !.win[w].nicks[nick] = 1])

WindowRemove(w, nick) ==
    /\ ui.win[w].nicks[nick] > 0
    /\ Do([ui EXCEPT !.win[w].nicks[nick] = @ - 1])

WindowLevel(w, level) ==
    Do(Revamped([ui EXCEPT !.win[w].window_level = level], w))

----------------------------------------------------------------------------
(* Lines of server s, which may make the user join or leave.               *)

(* JOIN: the window of the join list is made the current one meanwhile.    *)
JoinMe(s, c) ==
    LET listed == [ui EXCEPT !.join_list[s][c] = IF @ = None THEN ui.cur ELSE @]
    IN  \E w \in DOMAIN ui.win :
            /\ Exists(ui, listed.join_list[s][c]) => w = listed.join_list[s][c]
            /\ Do([AddChannel([listed EXCEPT !.cur = w], s, c) EXCEPT !.cur = ui.cur])

GotInfo(s, c) ==
    /\ ui.join_list[s][c] # None
    /\ Do([ui EXCEPT !.join_list[s][c] = None])

PartMe(s, c) == c \in On(ui, s) /\ Do(RemoveChannel(ui, s, c))

KickMe(s, c) ==
    /\ c \in On(ui, s)
    /\ Do(RemoveChannel([ui EXCEPT !.join_list[s][c] =
                            IF AutoRejoin THEN ui.chan_list[s][c] ELSE @], s, c))

(* The connection ends.  The primary server keeps its channels to rejoin   *)
(* them; the windows of another are moved to the primary server.           *)
CloseServer(s) ==
    IF s = Primary
    THEN Do(Changed(ui, {w \in DOMAIN ui.win : ui.win[w].server = s /\ ui.win[w].current_channel # None},
                    LAMBDA r : [r EXCEPT !.current_channel = None,
                                  !.waiting_channel = IF r.bind_channel = None THEN @
                                                      ELSE r.current_channel]))
    ELSE Do([Changed(ui, {w \in DOMAIN ui.win : ui.win[w].server = s},
                     LAMBDA r : [r EXCEPT !.current_channel = None, !.server = Primary])
                EXCEPT !.chan_list[s] = [c \in {} |-> None]])

----------------------------------------------------------------------------
(* add_to_screen, for a line of server s about who, a channel or a nick.   *)

NoWindow == None

Talks(s, who, level) ==
    {w \in DOMAIN ui.win : ui.win[w].server = s /\ who \in Nicks /\
        (ui.win[w].nicks[who] > 0 \/ (level \in {"MSG", "NOTICE"} /\ ui.win[w].query_nick = who))}

(* A mutant: the levels of every server's windows are looked at.           *)
AnyLevel(s, level) == {w \in DOMAIN ui.win : level \in ui.win[w].window_level}

HasLevel(s, level) ==
    {w \in DOMAIN ui.win : ui.win[w].server = s /\ level \in ui.win[w].window_level}

OfServer(s) == {w \in DOMAIN ui.win : ui.win[w].server = s}

(* The window of the channel is looked at, but not used: the line goes to  *)
(* no window at all, NULL, which add_to_window does not survive.  When the *)
(* window of the channel is no more, its server is what its memory holds,  *)
(* and the worst is assumed.                                               *)
GoesNowhere(s, who) ==
    /\ who \in On(ui, s) /\ ui.chan_list[s][who] # None
    /\ Exists(ui, ui.chan_list[s][who]) => ui.win[ui.chan_list[s][who]].server = s

Showing(s, who) == IF who \in Chans THEN Having(ui, s, "current_channel", who) ELSE {}

(* The choices in the order they are tried; the first window of the first  *)
(* that has one is it.                                                     *)
Destination(s, who, level) ==
    LET current == IF FromServer(ui) = s THEN {ui.cur} ELSE {}
        choices == <<IF level = "CURRENT" THEN current ELSE {},
                     Showing(s, who),
                     Talks(s, who, level),
                     HasLevel(s, level),
                     IF GoesNowhere(s, who) THEN {NoWindow} ELSE {},
                     current,
                     OfServer(s),
                     {ui.cur}>>
    IN  Least(choices[SelectInSeq(choices, LAMBDA windows : windows # {})])

Init ==
    ui = [win |-> [w \in {Least(Refnums)} |-> NewWindow(Primary)], cur |-> Least(Refnums),
          chan_list |-> [s \in Servers |-> [c \in {} |-> None]],
          join_list |-> [s \in Servers |-> [c \in Chans |-> None]]]

Next ==
    \/ WindowNew \/ SwitchKey \/ WindowUnbind
    \/ \E w \in DOMAIN ui.win :
           \/ DeleteWindow(w) \/ WindowGoto(w)
           \/ \E s \in Servers : WindowServer(w, s)
           \/ \E c \in Chans : WindowBind(w, c)
           \/ \E c \in Chans \cup {None} : WindowChannel(w, c)
           \/ \E nick \in Nicks : WindowAdd(w, nick) \/ WindowRemove(w, nick)
           \/ \E level \in SUBSET Levels : WindowLevel(w, level)
    \/ \E c \in Chans : CmdJoin(c)
    \/ \E nick \in Nicks \cup {None} : CmdQuery(nick)
    \/ \E s \in Servers :
           \/ \E c \in Chans : JoinMe(s, c) \/ GotInfo(s, c) \/ PartMe(s, c) \/ KickMe(s, c)
           \/ CloseServer(s)

Spec == Init /\ [][Next]_ui

----------------------------------------------------------------------------
(* Properties.                                                             *)

TypeOK ==
    /\ DOMAIN ui.win \subseteq Refnums /\ \A w \in DOMAIN ui.win : ui.win[w] \in Window
    /\ Exists(ui, ui.cur)
    /\ \A s \in Servers : /\ On(ui, s) \subseteq Chans
                          /\ \A c \in On(ui, s) : ui.chan_list[s][c] \in Refnums \cup {None}
                          /\ ui.join_list[s] \in [Chans -> Refnums \cup {None}]

(* With one server: what is typed in a window goes to a channel the user   *)
(* is on, or to none, whatever was joined, left, bound, switched or closed *)
(* in whichever window.                                                    *)
CurrentIsJoined ==
    \A w \in DOMAIN ui.win :
        ui.win[w].current_channel \in On(ui, ui.win[w].server) \cup {None}

(* A channel the user is on, which no window of its server has as its      *)
(* current one, and a level that none of these windows has.                *)
Unseen(s, who, level) ==
    who \in On(ui, s) /\ Showing(s, who) = {} /\ HasLevel(s, level) = {}

(* A line of a server never comes to a window of another server as long as *)
(* one shows this server, although windows change servers, levels,         *)
(* channels and queries: it comes to a window of its server, or, when it   *)
(* is about a channel that is unseen at the level of the line, to no       *)
(* window at all (screen.c:145-152; README, "Disagreements").  "OTHER" is  *)
(* a level that no window is given.                                        *)
LineToItsServer ==
    \A s \in Servers, who \in Chans \cup Nicks, level \in Levels \cup {"CURRENT", "OTHER"} :
        OfServer(s) # {} =>
            \/ Destination(s, who, level) \in OfServer(s)
            \/ Unseen(s, who, level) /\ Destination(s, who, level) = NoWindow

=============================================================================
