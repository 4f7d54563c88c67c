------------------------------- MODULE Messages -------------------------------
(***************************************************************************)
(* What a message meets on its way to the screen: the ignore list, the     *)
(* CTCP parser and the flood counters, and what these do to each other.    *)
(* p_privmsg, p_invite, p_wallops and parse_notice call them in different  *)
(* orders; a flood adds to the ignore list and starts a timer that removes *)
(* the entry again; a CTCP reply is sent at most once in CTCP_DELAY        *)
(* seconds.  One server, one channel on which everybody is.                *)
(***************************************************************************)
EXTENDS Flood, Ignore

CONSTANTS
    Nick,          \* the user's nickname
    Channel,       \* the channel the user is on
    AutoMask,      \* per sender, "*!*" and its user@host, as flood_prot makes it
    Traffics,      \* records: the lines that come, the pairs of a sender and a type of
                   \* OtherLine, the ignores and the nofloods that the user types
    CtcpDelay,     \* /SET CTCP_DELAY; NO_CTCP_FLOOD is on
    IgnoreTime,    \* /SET IGNORE_TIME
    PubfloodTime,  \* /SET PUBFLOOD_TIME, which serves as the ignore time as well
    Protection     \* /SET FLOOD_PROTECTION and CTCP_FLOOD_PROTECTION

VARIABLES
    client,    \* the program: see Init
    traffic,   \* element of Traffics
    heard,     \* history: per sender, the ages of what it sent last
    since,     \* history: seconds since the last CTCP reply, up to CtcpDelay
    gap        \* history: the same between the last two

vars == <<client, traffic, heard, since, gap>>

MaskAssumption == \A n \in Senders : <<AutoMask[n], n>> \in Matching
TimeAssumption == {CtcpDelay, IgnoreTime, PubfloodTime} \subseteq Nat
Commands == {"PRIVMSG", "NOTICE", "INVITE", "WALLOPS"}
(* An invitation, and a wallop, is one thing that is said.                 *)
TrafficsAssumption ==
    \A t \in Traffics :
        /\ \A line \in t.lines : /\ line.command \in Commands /\ line.from \in Senders
                                 /\ line.ctcps \in Seq(STRING) /\ line.text \in BOOLEAN
                                 /\ line.command \in {"INVITE", "WALLOPS"} => line.text
        /\ \A other \in t.others : other[1] \in Senders

----------------------------------------------------------------------------
(* Floods.                                                                 *)

IgnoreTypeOf(type) ==
    CASE type = "MSG"    -> "MSGS"
      [] type = "NOTICE" -> "NOTICES"
      [] type = "PUBLIC" -> "PUBLIC"
      [] OTHER           -> "CTCPS"

(* Mutant: the timer ends the ignoring of the nickname.                    *)
TimerForNick(c, nick, time) == [c EXCEPT !.timers = @ \cup {[mask |-> nick, left |-> time]}]

(* TIMER time ^IGNORE mask NONE.  Two timers for the same time are one.    *)
UnignoreTimer(c, nick, time) ==
    [c EXCEPT !.timers = @ \cup {[mask |-> AutoMask[nick], left |-> time]}]

(* flood_prot, without the kicks that it may send.                         *)
FloodProt(c, nick, type, time) ==
    LET ignored == IgnoreNickname(c.ignored_nicks, AutoMask[nick], {IgnoreTypeOf(type)}, "IGNORE")
    IN IF ~Protection \/ nick = Nick \/ time = 0 THEN c
       ELSE UnignoreTimer([c EXCEPT !.ignored_nicks = ignored], nick, time)

(* What follows a flood.  Invitations and wallops are counted only.        *)
Warned(c, nick, type, answer) ==
    LET counted == [c EXCEPT !.flood_list = answer.list, !.pos = answer.pos]
    IN IF answer.flooded /\ type \in {"MSG", "NOTICE", "CTCP", "ACTION"}
       THEN FloodProt(counted, nick, type, IgnoreTime)
       ELSE counted

(* The call of check_flooding, with what follows.                          *)
Checked(c, nick, type) ==
    IF nick \in c.no_flood_list THEN c
    ELSE Warned(c, nick, type, CheckFlooding(c.flood_list, c.pos, nick, type))

(* is_other_flood; the user's own counters stay as they are.               *)
OtherChecked(c, nick, type) ==
    LET a == IsOtherFlood(c.counter[nick][type], type)
    IN IF nick = Nick \/ nick \in c.no_flood_list \/ type \notin OtherTypes
       THEN [client |-> c, flooded |-> FALSE]
       ELSE [client |-> [c EXCEPT !.counter[nick][type] = a.counter], flooded |-> a.flooded]

----------------------------------------------------------------------------
(* CTCP.                                                                   *)

Replying == {"VERSION", "ECHO"}   \* and CLIENTINFO, USERINFO, FINGER, TIME, PING, ERRMSG
NoLimit == {"ACTION", "UTC"}
Known == Replying \cup NoLimit \cup {"DCC", "SOUND"}

IsChannel(to) == to = Channel

(* do_echo does not answer a channel.                                      *)
Replies(command, to) == command \in Replying /\ ~(command = "ECHO" /\ IsChannel(to))

FloodType(command) == IF command = "ACTION" THEN "ACTION" ELSE "CTCP"

(* Mutant: the delay is not looked at.                                     *)
NeverTooSoon(c, command) == FALSE

TooSoon(c, command) == command \notin {"ACTION", "DCC"} /\ c.last_reply < CtcpDelay

(* One turn of the loop of do_ctcp.  A request that comes too soon starts  *)
(* the delay again.                                                        *)
OneCtcp(c, line, command) ==
    LET checked == Checked(c, line.from, FloodType(command))
        Done(d) == [d EXCEPT !.allow = FALSE]
    IN CASE ~c.allow -> c
         [] c.allow /\ TooSoon(c, command) -> Done([checked EXCEPT !.last_reply = 0])
         [] c.allow /\ ~TooSoon(c, command) /\ command \notin Known -> Done(checked)
         [] c.allow /\ ~TooSoon(c, command) /\ command \in NoLimit ->
                [checked EXCEPT !.text = @ \/ command = "UTC"]
         [] OTHER -> Done([checked EXCEPT !.last_reply = 0,
                                          !.replies = @ + IF Replies(command, line.to) THEN 1 ELSE 0])

(* do_ctcp, after so many turns.  text says whether something is left of   *)
(* the line.                                                               *)
Turns(c, line) ==
    LET flag == CheckIgnore(c.ignored_nicks, line.from, line.to, "CTCPS", FALSE)
        start == [c EXCEPT !.allow = flag # "IGNORED" /\ line.to # "$", !.text = line.text, !.replies = 0]
        done[i \in 0..Len(line.ctcps)] ==
            IF i = 0 THEN start ELSE OneCtcp(done[i - 1], line, line.ctcps[i])
    IN done

DoCtcp(c, line) == Turns(c, line)[Len(line.ctcps)]

----------------------------------------------------------------------------
(* The handlers.                                                           *)

IgnoreTypeFor(to) ==
    CASE IsChannel(to) -> "PUBLIC"
      [] to = Nick     -> "MSGS"
      [] OTHER         -> "WALLS"

Ignores(c, line, type) ==
    CheckIgnore(c.ignored_nicks, line.from, line.to, type, line.found) = "IGNORED"

(* p_privmsg.                                                              *)
PPrivmsg(c, line) ==
    LET c1 == DoCtcp(c, line)
        public == OtherChecked(c1, line.from, "PUBLIC")
    IN IF Ignores(c, line, IgnoreTypeFor(line.to)) THEN c
       ELSE IF ~c1.text THEN c1
       ELSE IF ~IsChannel(line.to) THEN Checked(c1, line.from, "MSG")
       ELSE IF public.flooded THEN FloodProt(public.client, line.from, "PUBLIC", PubfloodTime)
       ELSE public.client

(* parse_notice; do_notice_ctcp changes nothing here and leaves text where *)
(* there was some.                                                         *)
ParseNotice(c, line) ==
    IF Ignores(c, line, "NOTICES") \/ ~line.text THEN c
    ELSE Checked(c, line.from, "NOTICE")

PInvite(c, line) ==
    IF Ignores(c, line, "INVITES") THEN c ELSE Checked(c, line.from, "INVITE")

(* p_wallops counts before it looks at the ignore list.                    *)
PWallops(c, line) == Checked(c, line.from, "WALLOP")

Handled(c, line) ==
    CASE line.command = "PRIVMSG" -> PPrivmsg(c, line)
      [] line.command = "NOTICE"  -> ParseNotice(c, line)
      [] line.command = "INVITE"  -> PInvite(c, line)
      [] line.command = "WALLOPS" -> PWallops(c, line)

(* Nothing is left of what a handler has on its stack.                     *)
Returned(c) == [c EXCEPT !.allow = FALSE, !.text = FALSE, !.replies = 0]

(* What the counters may count of a line: its CTCP requests, and what is   *)
(* left of it, which a request for UTC leaves something of.                *)
Parts(line) == Len(line.ctcps) + IF line.text \/ "UTC" \in ToSet(line.ctcps) THEN 1 ELSE 0

Latest(ages) == SubSeq(ages, 1, Min({Len(ages), MaxCount}))

Heard(nick, parts) == [heard EXCEPT ![nick] = Latest([i \in 1..parts |-> 0] \o @)]

CountsBounded(c) == \A e \in Entries(c.flood_list) : e.cnt <= MaxCount

Bounded(c, line) ==
    /\ CountsBounded(c) /\ c.pos <= FloodUsers + 3
    /\ line.command = "PRIVMSG" => \A i \in DOMAIN line.ctcps : CountsBounded(Turns(client, line)[i])

(* What is left when the handler has made c of the program.                *)
LineDone(c, line) ==
    /\ Bounded(c, line)
    /\ client' = Returned(c)
    /\ heard' = Heard(line.from, Parts(line))
    /\ gap' = CASE c.replies = 0 -> gap
                [] c.replies = 1 -> since
                [] OTHER         -> 0
    /\ since' = IF c.replies = 0 THEN since ELSE 0
    /\ UNCHANGED traffic

ReadLine(line) == LineDone(Handled(client, line), line)

(* rename_nick and p_kick count only while the user is an operator; the    *)
(* kicks and modes they send are left out.                                 *)
OtherLine(nick, type) ==
    /\ client' = OtherChecked(client, nick, type).client
    /\ heard' = Heard(nick, 1)
    /\ UNCHANGED <<traffic, since, gap>>

(* /IGNORE mask way types, or NONE.                                        *)
CmdIgnore(cmd) ==
    LET list == client.ignored_nicks
        new == CASE cmd.way = "NONE"  -> RemoveIgnore(list, cmd.mask)
                 [] cmd.way = "CGREP" -> AddChannelGrep(list, cmd.mask, cmd.types)
                 [] OTHER             -> IgnoreNickname(list, cmd.mask, cmd.types, cmd.way)
        excepted == {n \in cmd.except : cmd.mask \in DOMAIN new}
    IN /\ client' = [client EXCEPT !.ignored_nicks =
                        FoldSet(LAMBDA n, l : IgnoreException(l, cmd.mask, n), new, excepted)]
       /\ UNCHANGED <<traffic, heard, since, gap>>

(* /NOFLOOD nick, /NOFLOOD -nick.                                          *)
CmdNoFlood(nick) ==
    /\ client' = [client EXCEPT !.no_flood_list = IF nick \in @ THEN @ \ {nick} ELSE @ \cup {nick}]
    /\ UNCHANGED <<traffic, heard, since, gap>>

CleanFlood ==
    /\ client' = [client EXCEPT !.flood_list = CleanFloodList(@)]
    /\ UNCHANGED <<traffic, heard, since, gap>>

(* ExecuteTimers, for a timer of flood_prot.                               *)
TimerFires(timer) ==
    /\ timer \in client.timers /\ timer.left = 0
    /\ client' = [client EXCEPT !.timers = @ \ {timer}, !.ignored_nicks = RemoveIgnore(@, timer.mask)]
    /\ UNCHANGED <<traffic, heard, since, gap>>

(* A second passes.                                                        *)
Tick ==
    LET Waited(time) == IF time < CtcpDelay THEN time + 1 ELSE CtcpDelay
        Sooner(timer) == [timer EXCEPT !.left = IF @ = 0 THEN 0 ELSE @ - 1]
        Grown(counted) == [counted EXCEPT !.age = Older(@)]
    IN /\ client' = [client EXCEPT
              !.flood_list = [b \in Buckets |-> [i \in DOMAIN @[b] |-> Grown(@[b][i])]],
              !.counter = [n \in Senders |-> [t \in OtherTypes |-> Grown(@[n][t])]],
              !.timers = {Sooner(timer) : timer \in @},
              !.last_reply = Waited(@)]
       /\ heard' = [n \in Senders |-> [i \in DOMAIN heard[n] |-> Older(heard[n][i])]]
       /\ since' = Waited(since)
       /\ UNCHANGED <<traffic, gap>>

----------------------------------------------------------------------------
Init ==
    /\ traffic \in Traffics
    /\ client = [flood_list |-> [b \in Buckets |-> <<>>],
                 pos |-> 0,
                 no_flood_list |-> {},
                 counter |-> [n \in Senders |-> [t \in OtherTypes |-> [count |-> 0, age |-> Aged]]],
                 ignored_nicks |-> [m \in {} |-> NewIgnore],
                 timers |-> {},
                 last_reply |-> CtcpDelay,
                 allow |-> FALSE, text |-> FALSE, replies |-> 0]
    /\ heard = [n \in Senders |-> <<>>]
    /\ since = CtcpDelay
    /\ gap = CtcpDelay

Next ==
    \/ \E line \in traffic.lines : ReadLine(line)
    \/ \E other \in traffic.others : OtherLine(other[1], other[2])
    \/ \E cmd \in traffic.ignores : CmdIgnore(cmd)
    \/ \E nick \in traffic.nofloods : CmdNoFlood(nick)
    \/ CleanFlood
    \/ \E timer \in client.timers : TimerFires(timer)
    \/ Tick

Spec == Init /\ [][Next]_vars

(* Time passes, and io() calls ExecuteTimers in every pass.                *)
FairSpec ==
    /\ Spec
    /\ WF_vars(Tick)
    /\ \A n \in Senders : WF_vars(TimerFires([mask |-> AutoMask[n], left |-> 0]))

----------------------------------------------------------------------------
(* Properties.                                                             *)

(* The table never has more entries than FLOOD_USERS, although pos, by     *)
(* which the code knows how many there are, runs ahead of the truth with   *)
(* every cleaning.                                                         *)
FloodListBounded == Size(client.flood_list) <= FloodUsers

(* So many in so short a time.                                             *)
Flooded(ages) ==
    \E age \in 0..Aged :
        LET count == Cardinality({i \in DOMAIN ages : ages[i] <= age})
        IN \/ \E type \in DOMAIN FloodAfter :
                  /\ count > FloodAfter[type]
                  /\ age = 0 \/ count * FloodRate[type] > FloodAfter[type] * age
           \/ /\ "PUBLIC" \in OtherTypes
              /\ count >= OtherCount["PUBLIC"]
              /\ age = 0 \/ age < OtherRate["PUBLIC"]

(* Nobody whom the user does not ignore is ignored, who has not sent more  *)
(* than the settings allow in the time they give, whatever is removed from *)
(* the table, aged, counted again or renamed in between.                   *)
Typed == \E cmd \in traffic.ignores : CmdIgnore(cmd)

OnlyFloodersIgnored ==
    [][\A n \in Senders :
          AutoMask[n] \in DOMAIN client'.ignored_nicks \ DOMAIN client.ignored_nicks =>
              Typed \/ \E m \in Senders : AutoMask[m] = AutoMask[n] /\ Flooded(heard'[m])]_vars

(* An automatic ignore ends.                                               *)
AutoIgnoreEnds ==
    \A n \in Senders :
        (AutoMask[n] \in DOMAIN client.ignored_nicks) ~> (AutoMask[n] \notin DOMAIN client.ignored_nicks)

(* Between two CTCP replies at least CTCP_DELAY seconds pass, whoever asks *)
(* for them, in however many lines, and however many in one line.          *)
RepliesSpaced == gap >= CtcpDelay
=============================================================================
