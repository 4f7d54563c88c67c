# Verification of xaric

TLA+ models of xaric, a terminal IRC client in C, the TLC configurations that
check them, and proofs for TLAPS.  Names of actions, variables and fields are
those of the source where TLA+ allows it.  `PROJECT.json` says which lines of
the source each definition stands for.

## 1. The system

xaric is one process and one thread.  `io()` (irc.c) is one pass of the main
loop: select, then `dcc_check`, `do_server`, `do_processes`, `do_screens`,
`ExecuteTimers`, and once a minute `check_server_connect` and the clean-ups.
Nothing calls `io()` from inside a handler, so a handler runs to its end before
the next one starts.  What makes the program hard is therefore not parallel
code but the order of the handlers: any line of any server, any key, any timer
and any lost connection may come next, and handlers keep indices, numbers and
pointers over calls that change what these name.

| component | state | operations | interacts with | hard behaviour | correct when |
|---|---|---|---|---|---|
| servers (server.c, newio.c, network.c) | `server_list`, `primary_server`, `from_server`, `connected_to_server`; per server: socket, flags, queue, channels | connect, login, read, lose, close, delete, `get_connected` | windows, timers, whois queue, channels | a blocking connect may fail or be reset; a deletion renumbers; a handler closes the server being read | flags, windows and counts agree; a user who lost the connection gets another one |
| windows (window.c, screen.c) | per window: server, channel, level, place, display list; the current window | /WINDOW and its keys, `set_window_server`, `window_check_servers`, scrolling | servers, channels | the check runs before the primary server is assigned; each operation moves other windows; pointers into one list of lines | no window shows a dead connection; the rows are filled; the last line is seen |
| timers (timer.c) | `PendingTimers`, `parsingtimer`, `current_exec_timer` | /TIMER, `add_timer`, deletions, `ExecuteTimers` | commands, reconnection, nick regaining | a timer's command changes the list while the timer is off it | in order, on time, none lost |
| whois queue (whois.c) | `WQ_head`, `WQ_tail`, `whois_stuff` per server | add, ISON, USERHOST and WHOIS numerics, 401, clean | numerics, DCC, ban and notify functions | answers carry no request number | each request answered once, by its own answer |
| channels (names.c, misc.c, cmd_modes.c) | `chan_list` per server: nicks, modes, bans; `join_list` | JOIN, PART, KICK, QUIT, NICK, MODE, 353, 324, 367 | servers, windows, whois queue | answers arrive out of step with JOIN; a server's list is handed to another server | lists match what the server said |
| server messages (parse.c, numbers.c, notice.c) | - | one handler per message | all | handlers run on a half registered connection | - |
| commands (ncommand.c, tcommand.c, cmd_*.c) | - | one function per command | all | commands from keys, timers and prompts | - |
| input and prompts (input.c, keys.c, history.c) | the line, the `promptlist` of a screen, key maps, history ring, nicks of the tab key | keys, `send_line`, `add_wait_prompt` | commands | prompts queue up over the line being typed; entries are dropped under a pointer | the line comes back; what is offered is there |
| DCC (dcc.c) | `ClientList`, `deadlist` | offer, accept, data, close, `dcc_check` | CTCP, whois queue | clients die while the list is walked; numbers shift | no dead client is used |
| CTCP (ctcp.c) | - | request, reply | flood, DCC | - | no reply to a reply |
| flood (flood.c) | `flood_list`, `no_flood_list`, counters per nick | `check_flooding`, `is_other_flood`, clean | ignore, timers | a table with a limit and two ways to shrink | a flood is found, and only a flood |
| ignore (ignore.c) | `ignored_nicks` | add, remove, check | flood, timers | automatic and manual entries for one mask | an automatic ignore ends |
| notify (notify.c) | `notify_list` per server | /NOTIFY, `notify_mark`, save | messages, servers | requests are compiled out; marks still arrive | all servers have one list, and saving keeps it |
| processes (exec.c, newio.c) | `process_list`, a buffer per descriptor | /EXEC, output, exit, deletion of a server | servers, windows | indices of servers kept in entries; output arrives cut anywhere | output is whole and goes to its server |
| hooks (hook.c) | - | `do_hook` | messages | compiled out | - |
| containers (hash.c, list.c, lister.c) | tables with counts | add, find, remove | channels, flood | find moves its result to the front | - |
| patterns, expressions (reg.c, expr.c, functions.c) | - | pure | ignore, bans, hooks | - | - |
| formats, variables, logs, terminal | tables of settings, bounded buffers | - | - | - | - |

The components with their files and the state of the work are in `PROJECT.json`;
`hazards` there lists, by line, what is hard to test.

## 2. Plan

Done in this order, the reconnection core first, because everything else hangs
on a connection:

1. `Servers` (with windows and reconnection), `ServersProofs`.
2. `Timers`, `TimersProofs`.
3. `WhoisQueue` and the abstract `Requests` it implements.
4. `Channels`, then the rest of what an operator does to a channel: `Bans`,
   `ModeCompression`, and `Whowas` for who has left.
5. What depends on others to answer: `Dcc`, `DccTransfer`, `Messages` with
   `Flood` and `Ignore`, `Newio`, `Nickname`, composed in `Traffic`.
6. What the user sees and types: `Windows`, `Scrollback`, `InputLine`,
   `NickTabs`, `History`, `Lastlog`, `Keys`, `Targets`, composed in `MCScreen`;
   and the rest of a session, `Exec` (with `Dcc` in `Jobs`), `CommandTable`,
   `Script`, `Notify` and `OrigNick`, added in `MCSession`.
7. Proofs, each from an inductive invariant: `ServersProofs`, `TimersProofs`,
   `WhoisQueueProofs`, then `NicknameProofs`, `BytesProofs` (of `DccTransfer`
   and `Newio`) and `MessagesProofs` about the composition `Traffic`, and
   `JobsProofs` (of `Dcc` and `Exec`) about `Jobs`.

Open: two compositions, `Channels` with `Servers` (the server number kept in
each channel over `channel_server_delete` and `change_server_channels`) and
`Timers` with `Servers` (the reconnection timer as an entry of `PendingTimers`,
/TIMER -DELETE included); and proofs about the components whose invariants only
TLC has checked (section 6 says which, and what stands in the way).

## 3. The modules

### Servers

`client` is a record of the globals of server.c and the server of each window,
so that the C functions become operators on it (`CloseServer`,
`WindowCheckServers`, `ConnectToServer`, `GetConnected`,
`RemoveFromServerList`) and a handler is their composition in the order of the
calls.  `reading` is the index that the loop `while (read_data(i))` of
`do_server` holds; the loop is cut into its iterations because the handler of a
line may close or delete that server.  `timers` counts pending `timed_server`
callbacks, `in_timed_server` is the flag, `prompt` the pending password prompt.

An action is one line from a server (001, 004, JOIN, the last whois answer,
463, 464, 465, KILL), the end or loss of a connection (`LosePrimary`,
`LoseOther`, `ReadTimeout`, `Unreachable`), the minute, the timer, or a command
(/SERVER in its five forms, /WINDOW SERVER, NEW, KILL and the change of the
current window, /DISCONNECT, /RECONNECT, a WHOIS, the password prompt).
A connect blocks, so its result is chosen inside the action: it fails, logs in,
or is reset before `getpeername` (the login follows when the socket is found
writable, `Login`).

Left out: SSL, `close_serv` and CLOSE_PENDING (no caller sets it), the counter
`times`, names that match by prefix, the operator password use of 464,
`waiting_out`, LLOOK.  Deleting the last server ends the program.
`ChangeServerChannels` may read the blank record past the end of the list that
`remove_from_server_list` leaves, and `ReadBeyondEnd` assumes that the read of a
deleted server has no other effect: what really happens there is undefined.
The timers of other origin are not in it, so /TIMER -DELETE cannot remove the
reconnection.

### Timers

`PendingTimers` is the list, `running` the timer that `ExecuteTimers` has taken
off it, `now` the time it works with (`parsingtimer` is `now # None`), `clock`
is time(NULL).  `ExecuteTimers` is cut at the calls it makes: `StartPass`,
`Fire`, then while the command runs any caller may add or (try to) delete, then
`Reschedule` or `Free`, `EndPass`.  The loop `while (PendingTimers) delete_timer`
of `delete_all_timers` does not end when a timer runs: `hung`.
`Stuck` is that, or a timer with a negative wait on the list, which is due again
in the same pass for ever.
Left out: the command texts, /TIMER's display, `waiting_in` and `waiting_out`
(never counted), overflow of the time.

### WhoisQueue and Requests

One server's queue as it is in memory: `heap` of entries with `next`, `head`,
`tail`.  `wire` and `inbox` are the connection; the server is external and
answers requests in order, from any set of `Online` nicks.  `told` is a history
of the functions called, with the request that caused the answer.
`Requests` is the promise: asked in order, answered in order, each by its own
answer, or all forgotten with the connection.  Its safety part is
`InTurn`, its `Spec` adds that requests are answered.
Left out: what the called functions do (their own additions to the queue
included), wildcards, nicks that are parts of others (the code uses `strstr`),
AUTO_WHOWAS, malformed answers, and `is_server_connected`, which guards the
addition.

### Channels

`client` is what the program has for the primary server: the nickname,
`chan_list` (nicks with their ops and voices, modes, key, limit, `chop`,
`voice`, bans), `join_list` with the answers that have come, `shown` (whether
the current window shows this server) and `sent`, the commands on their way.
`inbox` is the way back.  Each function of names.c is an operator on `client`,
and each handler (`PChannel`, `PPart`, `PKick`, `PNick`, `FunnyNamreply`,
`FunnyMode`, `CheckSync`, `CannotJoinChannel`, 366, 368, QUIT, MODE) is a
composition of these; `ReadLine` dispatches as `parse_server` does.
`DeciferMode` is a fold over the letters of a line, as the loop of
`decifer_mode` is, with its `add`, `value`, `limit_set` and `limit_reset`.
`irc` is the server (external): who is on which channel, with which modes; it
refuses a JOIN for the key, or when it likes.  `Caught` is what the program will
have when it has read what is under way: `ParseServer` folded over `inbox`.  The
properties compare it with `irc`, so they hold at every moment and not only
when nothing is under way.

Left out: topics, `mode_list` (empty whenever a handler returns), COMPRESS_MODES
(off by default), half-ops and names with several prefixes, WHO and MODE
requests typed by the user, a second server.  A channel is a number, in the
order of the names.
The windows of channels are in `Targets`, those who have left in `Whowas`,
COMPRESS_MODES in `ModeCompression`.

### Dcc and DccTransfer

`ClientList` is the list, a client known by its address `at`, which malloc may
give again to a later one, so that a pointer to a freed client is an address
that is not in the list.  `link` is what the walk of `dcc_check` holds: the
address of the client whose `next` leads on.  The walk is one action
(`DccCheck`) per client, because the handler of one may mark, erase or add
others; `DccReallyErase` is its end.  The commands (`DccChat`, `DccFilesend`,
`DccGetfile`, `DccClose` in its six forms, `DccRename`, `DccReject`, `ChatBack`,
`NoChat`) and the lines of the server (`DoDcc`, `Line`) run between walks.
Whether a socket opens is chosen in the action.

`DccTransfer` is one connection end to end: two programs, of which each may
send.  A byte is its position in the file, so a file is a sequence of numbers.
`Accept`, `SendFrom`, `ReadAck` are the parts of `process_outgoing_file`;
`order` is the REGET request the sender reads when it accepts, and the
connection may be lost at any moment.
Left out: `dcc_active_count`, raw connections and multiget, `dcc_stats`, files
that change while they are sent, two programs that both get again from each
other (both block in recv, see Disagreements).

### Messages, Flood and Ignore

`Flood` has the two ways of counting, `check_flooding` with its hash table and
`is_other_flood` with the counters in the nick list; `Ignore` the ignore list as
a function from masks, with the look-up by the longest match; `Messages` the
order in which `p_privmsg`, `parse_notice`, `p_invite`, `p_wallops` and `do_ctcp`
use them, what `flood_prot` adds, and the timer that takes it away.  `heard`,
`since` and `gap` are histories for the properties: who has sent what within the
rate, and the time since the last reply.
Left out: kicks for floods, notices to a user who is away, /TIGNORE, display.

### Newio and Exec

`Newio` is one descriptor: what is written (`written`), what is in the pipe,
the buffer of `dgets` and what it has returned.  `Exec` is the table of
processes: the end of the output and SIGCHLD come in either order, the index of
a process is what /EXEC takes, and a deleted server renumbers.  A server is its
place in the first list (none is added), so that OwnServer can say where the
output goes when the server itself was deleted: to the nearest before it.
Left out: logical names, and to whom -MSG and -NOTICE send.

### Nickname and OrigNick

`Nickname` is one connection from the login to the end: `LoginToServer`, /NICK,
433, 462, 451, 001 and 004, the changes of `fudge_nickname` up to its limit, and
the prompt.  The server (external) is asked and answers in order, and others
take and leave nicks.  `OrigNick` is /ORIGNICK: its questions go through the
whois queue, of which here only the order matters, and its timer.

### Windows, Scrollback and Targets

`Windows` is the layout: an action for each /WINDOW option and key that changes
it, with the arithmetic of the rows; `RefreshScreen` is the terminal changing
its size.  `screen` is a record, so that the functions are operators on it.  A
command that would divide by zero, walk off a list, or loop, says so in `end`,
and the model stops there (see Disagreements).
`Scrollback` is the display list of one window with its pointers as numbers:
what is added, scrolled, held, released, cleared and resized.  `Targets` is
which window talks to which channel or nick, and the choice of `add_to_screen`;
a struct channel keeps a pointer to its window.  `Destination` has the choices of
`add_to_screen` in their order, no window (NULL) among them.
Left out: the drawing, `to_window`, queries of DCC chats and /QUERY -cmd.

### InputLine, NickTabs, History, Keys, Lastlog, Script, CommandTable

One action per key function of input.c in `InputLine`, with the questions that
take the line away.  `NickTabs` has the static pointers of `getnextnick`
(`sucks`), `History` the pointer of the arrow keys, both as values that can be
compared with what is in the list; /CLEARTAB comes with a line, or without one
(`ClearTab`).  `Keys` saves the bindings in their order and reads the lines back
as `load` does, with its braces.  `Lastlog` walks its list back and forth as
`lastlog` does.  `Script` is the loop of `load` over the characters of a line, for
several files in one /LOAD (`EndOfFile`) and several /LOADs (`EndOfLoad`).
`CommandTable` is the ternary tree of ternary.c; its references are the sets of
names.

### Bans, ModeCompression, Whowas, Notify

`Bans` sends lines of at most `NumModes` changes, with the answers to USERHOST
and the prompt of /TBAN coming when they like.  `ModeCompression` is
`compress_modes` as one operator on a line; what `p_mode` keeps of the channel,
which applies a line only when its compression leaves something, is compared with
what the server has.
`Whowas` is the owner of each nick_list: the channel, the table or nobody.
`Notify` is one list per server, saved from the first and read into all.

### Traffic, Jobs, MCSession, MCChannels

Components that share no state in the code would only multiply the states of
each other, so a behaviour of these compositions chooses one component (`part`)
in Init and runs it, while the others stand still.  A property of the
composition says of every part what that part promises.

`Traffic` composes `Dcc`, `DccTransfer`, `Messages`, `Newio` and `Nickname` over
their constants, and `MCTraffic` gives these values for TLC, so that the
theorems are about the very properties that run traffic checks.  `Jobs` does the
same with `Dcc` and `Exec`; `MCSession`, which extends `MCScreen` and `Jobs`,
adds the other components of run session with values in the `INSTANCE`s.

## 4. The runs

| run | question | bounds |
|---|---|---|
| servers_safety | after any handlers in any order: connected implies open, no window shows a closed server and `connected_to_server` is exact, at most one closed server has channels to rejoin; /SERVER name keeps a connection | 2 servers, 2 windows, 1 timer |
| servers_deletion | the refnums in windows and `primary_server` follow a deletion | 3 servers, 2 windows |
| servers_liveness | no connection leads to a connection | 2 servers, 1 window |
| servers_NeverReconnects | the same with 2 windows: it fails | 2 servers, 2 windows |
| timers | order, schedule, earliest first, under additions and deletions at any point; due timers run, the pass ends | 3 timers, waits -1, 1, 2, time 2 |
| whois_online | with everybody signed on, entries are in step with requests, functions get their own answers, and the queue implements `Requests` | 2 nicks, 4 requests |
| whois_offline | with nicks that come and go and requests beside the queue, the pointers and the order hold | 2 nicks, 3 requests |
| whois_AddsToQueue | an addition can be found from the head: not always | 2 nicks, 3 requests |
| channels | part "nicks": channels, nicks and ops are those of the server, with kicks, renames, losses and refusals, `chop` agrees with the list, the last answer ends a JOIN; part "both": the same of two channels joined again by one command, without AUTO_REJOIN, with another server's window; part "modes": modes, key, limit and bans once a JOIN is answered, if the user is not kicked | 1 channel, 3 nicks, 3 under way; 2 channels, 2 nicks, 1 under way; 1 channel, 2 nicks, 3 under way |
| traffic | files arrive whole and lines unbroken (NoByteLost); marked clients are erased, transfers end, lines are shown, a sign-on ends (WorkEnds); only floods are taken for floods, and replies keep their distance (OnlyFloodersIgnored); an automatic ignore ends (AutoIgnoreEnds); the program knows its nick (KnowsItsNick) | 2 clients; a file of 4 bytes in blocks of 2; 2 senders, a flood list of 1; 3 bytes, a buffer of 2; a nick with two variants |
| session | the user's side, one property per row of section 3: Tiled, ShowsTheLatest, InputComesBack, TalksWhereItShould, WalkIsSafe, OwnServer, ModesAreKept, SearchIsRight, OneOwner, RunWhole, SettingsSurvive, KeepsAsking | see below |
| nickname_NoNickIsHarmless | a refusal after the prompt stops the program | 1 nick with two variants |

Why the bounds are enough to be worth running.  Two servers are the primary and
another one, and a third lets a deletion shift a server that is neither; two
windows are what it takes for one window to be moved and another to be left.
`Events` switches inputs, so that runs stay small: servers_safety has the
changes of servers, messages and windows, servers_deletion the deletions, the
bans and the connections that fail.  Three timers are one running, one before
and one after an added one; a time of 2 lets every wait expire, and the theorems
have no bound on the time.  Two nicks make lists with and without a rest; four
requests let one stay at the head while others are added behind it.  Three lines
or commands under way let a change be made between any two of the answers to a
JOIN; the answers themselves are not bounded.  The user and another one, with a
third name free to change to, are what a rename needs.

In traffic, two clients are the one the walk stands on and the next; four bytes
in blocks of two make a transfer with a first, a last and a part of a block, and
a resumed one that starts inside; a flood list of one is full with the second
sender; three bytes of which two fit the buffer cut every line.  In session:
three windows with terminals of 4 and 6 rows have one that is neither first nor
last, and a terminal too small for all; a display buffer of 4 for windows of 2
and 3 lines is trimmed and scrolled; an input line of 4 characters has a word, a
space and a word; two questions wait; a history of 0, 1 and 2 entries takes the
lines of its special cases; `OneServer` has two channels, `TwoServers` one;
mode lines have three letters, three bans make lines of two full and not; names
of two letters are all the beginnings the tree can have of one another; scripts
are lines of two characters of each special kind, in files of which one may leave
a block open to the next; two of six keys are bound, the double quote and the
braces of two maps among them; two servers share a notify list of three nicks,
and processes outlive the deletion of one of two servers, the first or the
second.

MaxTimers, MaxRef, MaxTime, Earliest, MaxRequests, MaxWire, MaxUnderWay,
MaxClients, MaxCount, MaxBytes, MaxPrompts, MaxLines, MaxBack, MaxWaiting,
MaxBinds, MaxUnsaved, MaxOpen, MaxNodes, MaxSplit, MaxRow, MaxSize, MaxSent, MaxAsked and MaxServers
are bounds of the model, not of the code.  Servers also asks for one password
prompt at a time.  Symmetry is used for names and windows in the two safety runs
of Servers only.  The deadlock check is off where a component may stop: the
program that says `hung`, `end`, or has exited, and in the compositions parts
that have reached their bounds.

Fairness.  Servers: strong fairness of the minute (`io()` looks at the clock in
every pass), of a `timed_server` that finds a server (the network lets a connect
that is tried again and again succeed again and again), and of the end of the
read loop (`read_data` waits for a bounded time).  Nothing is assumed of the
user or of the servers.  Timers: weak fairness of `ExecuteTimers`, called at
the end of each pass, whose commands end, and of the clock.  WhoisQueue: weak
fairness of the server's answers and of reading them.  In Traffic: weak
fairness of the walk of `dcc_check`, of each end of a transfer, of the clock and
of timers that are due, of the main loop that reads a process (`dgets` waits for
at most a second), and of the server's answers and of reading them; never of
users, of the loss of a connection, or of what a process writes.

## 5. Disagreements between the code and its comments

Shown by a run, with the lines in `findings`:

- The user may never be connected again (servers_NeverReconnects).
  `set_window_server(-1, s)` first moves the windows of the old primary server
  and runs `window_check_servers`, and only then assigns `primary_server = s`
  (window.c:1514-1515).  After the wrong failures one window shows no server and
  `primary_server` is another one; from then on every server that
  `get_connected` opens is shown by no window and closed at once.
- An entry added to the whois queue may be linked to the tail only.
- A user with no nick left to try may lose the program (nickname_NoNickIsHarmless):
  a 462 that comes after the prompt calls `change_server_nickname` with NULL
  (numbers.c:771), which the comment of that function allows ("If ``nick'' is
  NULL", server.c:1404) and its `assert(nick)` does not (server.c:1410);
  configure.ac:46-48 keeps asserts on in release builds.

Met while the models were written, and shown by no run of this list.  Servers,
timers, whois queue and channels (the first seven are behaviours of the models):

- /SERVER + closes a good connection when the following servers do not answer
  (server.c:813): `get_connected` stops where the list wraps.
- A server that is not the primary keeps the whois queue of its old connection
  (server.c:119, whois.c:104).
- /TIMER -DELETE ALL from a timer's command never returns (timer.c:269).
- With OtherWindow TRUE, `SyncedLeave` fails: `got_info` passes its server to
  `prepare_command`, which overwrites it with the server of the current window,
  so nothing is removed from `join_list` (names.c:1467).  Every 353 and 324 of
  that channel is then taken for an answer to a JOIN.
- With UserKicked TRUE, `ModesKnown` fails: the answers to the requests of an
  earlier JOIN are counted for the JOIN after a kick, whose own answers then
  find no entry and are only shown.
- Bans: one made between a JOIN and its 367 is listed twice, because
  `check_sync` does not look for it (numbers.c:95), and one of the two stays
  after -b.  `BansKnown` therefore only says that none is missing.
- `reconnect_all_channels` lists the keys of those channels only that have one,
  so "JOIN #a,#b key" gives the key of #b to #a (names.c:1266).
- 353 with "+nick" of the user does not set `chan->voice`, "true if you are
  voice" (struct.h:354): `add_to_channel` looks for the '+' its caller has taken
  off (names.c:238).  `clear_mode_list` empties the list that
  `reconnect_all_channels` has just filled (names.c:1260, 1277), so modes are
  never restored.
- read_data reconnects a server without a window (server.c:288), although
  "Every open server must have at least one window" (window.c:1534).
- password_sendline takes the server from the password (server.c:1563).
- remove_from_server_list leaves the `index` fields stale (server.c:531), and
  send_line restores a stale `from_server` (input.c:977).
- /SERVER -DELETE tests `connected` and removes a server whose login has not
  been sent, without closing its socket (ncommand.c:1105).
- do_server reads a server its last line deleted (server.c:325).
- create_timer_ref gives the greatest refnum plus one, not "the lowest unused"
  (timer.c:195), and one that a running timer holds; /TIMER -DELETE removes
  internal callbacks ("can only delete user created timers", timer.c:249), the
  reconnection among them, which leaves in_timed_server set; a repeating timer
  with a negative wait keeps ExecuteTimers busy for ever.
- An USERHOST whose last nick is not signed on leaves its entry at the head,
  and answers then go to the wrong function (whois.c:175); after a 401 the
  function of a WHOIS gets what an earlier answer left in whois_stuff.

Nicknames and those who have left:

- After a refused /NICK `user_changing_nickname` stays 1, so that the next login
  with a nick in use gives up without asking, which server.c:1451-1455 rules out
  (the property `AsksForANick` of `Nickname` fails).  Five bad answers to the
  prompt end the program with "User abort with 5 Ctrl-C's": `reset_nickname`
  sends SIGINT to itself (server.c:1546).  The case 432 at numbers.c:1120 is
  never reached.
- `gain_nick` acts on an answer about any nick; after the connection is lost
  nobody asks for the wanted nick any more, and /ORIGNICK of it says "Already
  attempting"; each /ORIGNICK of another nick starts one more chain of timers.
- `whowas_reg_count` is not counted down when a user comes back (names.c:252,
  whowas.c:49), so after a number of rejoins every departure empties the table,
  where the help says "10 minutes for others" (ncommand.c:1963).
  `remove_oldest` with a count takes the first in the order of the buckets.
  Servers that have split never leave `split_link`, so a second split of one is
  silent.

Channels and modes:

- `userhost_unban` works on the current channel and returns without restoring
  `from_server` (cmd_modes.c:211); /UNBAN sends "MODE c - (null)" when the last
  bans do not match after a full line (cmd_modes.c:348); a ban marked as taken
  back stays marked when the server refuses (cmd_modes.c:482); /UNBAN with a
  number never works (cmd_modes.c:311-331); numbers given to /TBAN are those of
  a list that may have changed.
- `compress_modes` has no case for m, p and a: a line of those alone is neither
  shown nor applied (parse.c:847-851).  It drops a +v or -v of a nick that has no
  other change before it in the line (the `break` of names.c:474-488 comes before
  `add_to_list`), so a line "+v nick" alone is not applied either, and the user's
  list of voices is wrong from then on; `LosesNoChange` is therefore about ops,
  bans and flags.  What it knows of a stranger's ops is that of the nick before in
  the line, and changes of a nick that cancel each other may be shown.
- With two servers `CurrentIsJoined` of `Targets` fails (names.c:216,
  parse.c:605), and the channel of a window is that of another server;
  `chan->window` outlives its window; /WINDOW BIND of a channel that is current
  in another window leaves it current in both.
- A line about a channel that no window of its server shows, at a level that none
  of them has, gets no window: `add_to_screen` looks at `chan->window`, which may
  be one that was deleted, and goes on with `tmp`, which is NULL after the loop
  (screen.c:145-152), and `add_to_window` uses it.  `LineToItsServer` has this as
  its exception.

Messages:

- "Otherwise clear everything that matches" (ignore.c:290): the loop removes
  nothing.  `ignore_nickname` for ALL returns after the first nick of a list
  (ignore.c:207).  EXCEPT after -ALL uses a freed entry.
- `pos` of `check_flooding` drifts away from the number of entries; its comment
  has the results the wrong way round (flood.c:305-311);
  `get_ignore_types` of CTCP_ACTION_FLOOD reads past its table (flood.c:294).
- The limit of eight delimiters in `do_ctcp` is undone at ctcp.c:486.  A request
  that is refused starts the delay again.  An automatic ignore, whose mask is
  longer, beats "never ignoring"; the timer of an earlier one ends a later one.

DCC and processes:

- `dcc_chat` uses the client that a failed `dcc_open` has erased (near
  dcc.c:603); "/DCC CHAT #-1" dereferences NULL (dcc.c:176); `dcc_open` returns
  without restoring `from_server` when there is no address (dcc.c:466-486);
  closing all clients of a kind stops at the first that is marked already
  (dcc.c:2005, 2045, 2085); /CHAT without a name opens a waiting client again.
- `recv(...) < sizeof` compares unsigned, so an error is not seen (dcc.c:1458); the
  size of an offer is cut to 32 bits; the sender blocks in recv while it reads
  where to resume (dcc.c:1386).  A chat that times out appends the old part
  to the new (dcc.c:1208).
- Signals of children are counted once for several (irc.c:740, signals.c:110);
  "/EXEC -CLOSE %99" uses an index out of range; pipes leak when fork fails.
- A last line without its end is dropped at the end of the output.
- When a server is deleted its processes are handed to the server before it, and
  those of the first server to index -1 (exec.c:929-930): what they write to a
  channel or nick goes to a connection they were not started for, or through
  `SERVER(-1)`, the memory before `server_list` (exec.c:238-241, server.h:25).

Windows and display (the first is where `end` of `Windows` is "crashed", "hung"
or "exited"):

- BALANCE with all windows fixed divides by zero (window.c:742); a smaller
  terminal with all fixed exits (window.c:845); MOVE beyond the list follows NULL
  (window.c:527); /WINDOW BACK may follow NULL (window.c:1946); hiding the last
  window when the others all SKIP never returns (window.c:1131).
- `abort()` in `scroll_window` (screen.c:766) is reached when hold mode is turned
  off while lines are held.  A window made smaller while it is scrolled back does
  not show the latest lines.  With SCROLL off the top of the display is freed
  after `display_buffer_max` lines.  `flush_everything_being_held` links the list
  wrongly unless exactly one line is held.

Input, keys and commands:

- The transposition at the end of the line writes before the array (input.c:683),
  `strmcat` gets a negative length (input.c:585), and a prompt that grows leaves
  the cursor behind the end.
- `sucks` keeps a nick that has been freed and offers it (input.c:836); a nick
  that begins another one makes the tab key stay (input.c:762).
- "reset by add to history" (history.c:52): `last_dir` is set to PREV, and the
  entry of a search is not reset when it is dropped.
- "/LASTLOG count from" shows lines it should skip when there are fewer left.
- Keys bound to NOTHING, the space and a lone double quote are not saved
  (keys.c:647, 667); a META above 9 binds in map 0; /PARSEKEY NOTHING calls a
  NULL function; `bind_it` takes the key as a char (keys.c:212), so that one from
  128 on writes before the map.
- "The format it writes it out is such that it can be parsed back in later using
  LOAD" (keys.c:641-643) does not hold of braces: "BIND } F" is cut at the brace,
  and "BIND { F" opens a block that swallows the lines behind it (ncommand.c:2668,
  2689-2690), further bindings first, then what /SAVE writes after them: hooks,
  the notify list and the settings.  The run has this for the bindings; the text
  of a PARSE_COMMAND binding, which may hold braces too, is not modelled.
- A file of "/LOAD a b" that ends in an open block leaves `paste_level` and
  `no_semicolon` to the next file, since both belong to the /LOAD and not to the
  file (ncommand.c:2500-2502): the commands of b are gathered into a block whose
  beginning was dropped, and run with an unmatched brace.  RunWhole names it.
- /CLEARTAB from a key or a timer leaves the line in the middle of a completion
  whose nick is no longer listed (ncommand.c:324).
- "hmm.. never get here?" (ternary.c:124) is reached; an alias over a built-in
  command loses the command, and /UNALIAS removes built-in commands.
- With DISPLAY off, /LOAD leaves `window_display` at 0 (ncommand.c:2738).
- `notify_mark` with no server indexes `server_list[-1]` (notify.c:207); /NOTIFY
  with no servers is lost; marks stay when the connection is lost.

Hazards that `hazards` has no room for, and no property covers: the whois queue
of a server that is not the primary (server.c:119), the answer to the operator
prompt after a renumbering (numbers.c:809), /TIMER -DELETE of the reconnection
(timer.c:250), /USERHOST cut by counting spaces (ncommand.c:1582), the keys of a
JOIN (names.c:1266), the mode list that is emptied too early (names.c:875), the
servers of channels after a deletion (names.c:1379), `send_line` with a stale
`from_server` (input.c:977).

## 6. Proofs

| module | what is proved, for every value of the constants | under | also checked by the run |
|---|---|---|---|
| `ServersProofs` | TypeOK, ConnectedIsOpen, OneServerToRejoin, DeletionKeepsServers | - | servers_safety, servers_deletion |
| | WindowsShowOpenServers, SwitchKeepsConnection | NoDeletion | servers_safety |
| `TimersProofs` | TypeOK, Sorted, OnTime, EarliestFirst | - | timers |
| `WhoisQueueProofs` | TypeOK, InOrder | - | whois_online, whois_offline |
| | Lockstep, AllReported; the safety part of the refinement, `Promise!InTurn` | Quiet | whois_online |
| `NicknameProofs` | `SignOn!TypeOK`, KnowsItsNick | SignOnAssumption | traffic |
| `BytesProofs` | `Output!TypeOK`, NoByteLost | TransferAssumption, OutputAssumption | traffic |
| `MessagesProofs` | TypeOK (of `Traffic`), OnlyFloodersIgnored | TalkAssumption, and those of the two before | traffic |
| `JobsProofs` | JobsTypeOK, WalkIsSafe, OwnServer | ClientsAssumption, ProcessesAssumption | session |

The assumptions of the third column are those the modules state of their
constants, which the runs evaluate; `Servers`, `Timers` and `WhoisQueue` assume
theirs themselves.  `Recursion` holds the lemmas about recursive functions and
sequences that several modules need: a recursive function has the values its
definition says once some function satisfies the definition, and `Iteration`
gives that function; `NoneBad` is the induction along it.

### Servers

`IInv` is `Good(client)` with the types of the other variables: `Good` says that
the client record has its type (the list has exactly the records of its length,
each window a server, the current window exists) and that every record marked
connected has a socket.  The socket is a part of it record by record, because a
deletion moves the records and a loop of window_check_servers shuts them: the
property has to follow the record, not the refnum.  The lemmas say of each C
function that it keeps `Good`; an action is a composition of these.

What the windows show needs `WInv`, which adds one of two things.  The client is
`Settled`: every window shows an open server or none, the count is that of the
open servers shown, and at most one closed server has kept its channels.  Or it
is `Halfway`: a 464 has closed the server that the loop of do_server is reading
without a look at the windows, and the client is settled but for that socket.
`Fit` is what window_check_servers needs to make a client settled.

`NoDeletion` (no /SERVER -DELETE) is needed and not an easing of the proof:
/SERVER -DELETE of a server that is open and not yet connected leaves a window on
a refnum that names another server or none (section 5).  Deletion has its own
theorem, without the assumption: the windows that showed other servers, and the
primary server, stay where they were.

### Timers

One invariant: the list is a sequence of timers that are punctual, in order, and
`now` is not ahead of the clock.  The order is not inductive alone where a
running timer is put back, so the lemma on `Scheduled` states what the insertion
returns for any ordered list.

### WhoisQueue

`QInv` is of the heap, not of the list: every pointer is to a live entry or NULL,
an entry points only to one that was added later, no two point to the same one
and none to the head, and a tail has nothing behind it (`Listed`); entries have
nicks (`Filled`); what is under way and what was told is about requests that were
added (`Mailed`, `Recorded`).  That later entries have greater numbers is why the
list ends and has its order.  Entries that are live and lost, which
whois_AddsToQueue shows to exist, are allowed for.

With everybody signed on and no question beside the queue (`Quiet`), `LInv` adds
that none is lost (`Compact`), that what is under way asks and answers what the
entries ask (`Matched`), in their order, each 311 right before its 318
(`Ordered`), that each entry waits for something (`Expected`), and that all calls
so far got their own answer (`Honest`).  Without `Quiet` lockstep is false in the
code (section 5: the USERHOST whose last nick is not signed on), and what is left
is `QInv`.  `AnswersInTurn` is the refinement: initial states are those of
`Requests`, and every step is an Ask, an Answer of the first, a Forget, or not
seen.  The whole of `Requests!Spec` has weak fairness and stays with TLC.

### Nickname

Changes of the nick are under way while others are asked for, so that the nick
the program has and the one the server knows differ most of the time.  `KInv`
relates them by what is between: once the connection is registered, the lines
under way lead from one to the other (`Leads`), each NICK from where the line
before it ended, which is how `p_nick` finds it to be about the user.  Before
that, none of them tells a nick.  With it go the counts of the prompts and of the
interrupts (the fifth ends the program), and that no NICK is sent without a nick.
FullAssumption, WantedAssumption: a nick is a sequence of one to `Full`
characters, and the attempts outlast its length.

### DccTransfer and Newio

`TInv`: what the getter has and what is under way are one piece of the file
(`Contiguous`), both sides started from where the getter's file ended
(`Agreed`), and the sender's counts are the getter's and what is under way
(`Counts`), so that a block is sent only when the one before has come.

`NInv`: what was returned, the line, the buffer and the pipe are what was written
(`Whole`), the line that is being put together holds no end of line, and dgets
was called because there was something to read (`Shown`).

### Messages

The property of a flood looks back: a mask is ignored now because of lines that
came before, and what the program knows of them is a count and an age, in a
table from which entries are dropped, cut off and aged.  `MInv` says that every
count is backed by what was sent.  Its parts:

- `Room`: the table is well formed (`Tables`: each entry in the bucket of its
  nick, no nick twice), has no more than FLOOD_USERS entries, and `pos`, by which
  the code knows how many there are, is not below their number.  That is what
  makes the limit inductive: `pos` runs ahead with every clean_flood_list, so
  that room is made too early and never too late.
- `Backed`: for a count of n with an age, the last n lines of that sender are
  not older (`Recent`), for the entries of the table and for the counters of
  is_other_flood.
- `last_reply` is not ahead of the time since the last reply, and two replies are
  CTCP_DELAY apart.

A line is handled in several calls that each count: the requests in it by
do_ctcp, and what is left of the line by the handler.  `Stage` is the invariant
within a line, when k parts of it have been counted that the history does not
have yet; each call moves it from k to at most k + 1, and a line has no fewer
`Parts` than it is counted for.  Whoever comes to the ignore list on the way is
`Proven`: a count above the setting, backed by the history.  With the steps that
age both sides alike (`TickKeeps`) and those that only drop entries,
`FloodersAreIgnored` follows, an action property and an invariant in one.
`TrafficTypes` takes its other conjuncts from `NicknameProofs` and `BytesProofs`.

TalkAssumption says of a line that its requests are a sequence and that an
INVITE or WALLOPS says something.  A request for UTC counts for two parts of its
line where nothing else is in it, since do_ctcp leaves a text in its place, which
the handler counts again.  `MaxCount` and `Aged` are bounds on counts and ages; at
the age `Aged` no rate is too high (FloodAssumption), so that nothing is lost.

### Dcc and Exec

`CInv`: `ClientList` has clients of distinct addresses, whose numbers are their
positions; the link of a walk is the head or the address of a client that is
listed; and what waits in `deadlist` is listed, with nothing waiting while no
walk is under way.  A client that is erased by one of the many callers is
therefore not the one the walk stands on, or the link is moved by the same step.

`EInv`: the servers listed are in the order they were in at first (`InOrder`); an
entry of the table is empty or a process that is not finished, and the index it
keeps divides the servers listed into those up to its own and those behind it
(`Stands`), which is what a deletion preserves wherever it is.
The two loops of do_processes over the table are recursive functions, proved by
`Iteration`.

### What stays with TLC

- Liveness under fairness, and with it the fair part of `Requests!Spec`,
  `FairSpec` of all modules, and WorkEnds, AutoIgnoreEnds, KeepsAsking,
  Reconnects, DueTimersRun, PassEnds: out of the prover's reach, like ENABLED.
- What a recursive definition computes for every input, in general: only what
  follows from one step at a time (`Iteration`) is proved.
- TypeOK, ListsAgree and ModesAgree of `MCChannels`: the lists are compared with
  the server's through folds over the lines under way (`Caught`, `DeciferMode`),
  whose operator argument the provers cannot instantiate.
- TypeOK, TalksWhereItShould, OneOwner, Tiled, ShowsTheLatest, InputComesBack,
  ModesAreKept, SearchIsRight, RunWhole and SettingsSurvive of the run session,
  but for the parts of `Jobs`: their components use folds, `SelectSeq` with an
  operator that depends on the state, or RECURSIVE operators (`CommandTable`,
  `Script`), and the composition reaches the last two.

## 7. Not modelled

Hooks are compiled out and `do_hook` answers 1.  Settings, formats and the status
line are constants or display.  Expansion of text (expr.c, functions.c) and
patterns (reg.c) are data that the properties do not tell apart.  The terminal,
the log file, allocation and string helpers are I/O.  The socket library is
third-party code.  The raw connections and the multiget of DCC have no caller.
`PROJECT.json` says the same by component.

## 8. Running

    tlc -workers 2 -config Servers_safety.cfg MCServers.tla
    tlapm ServersProofs.tla

The longest run, `Session.cfg`, takes about three minutes with two workers.
