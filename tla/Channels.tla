------------------------------ MODULE Channels ------------------------------
(***************************************************************************)
(* The channels of the primary server: names.c and the handlers that feed  *)
(* it from the lines of the server (parse.c, numbers.c, funny.c).  The     *)
(* program keeps for each channel it is on the nicks, their modes, the     *)
(* modes, key, limit and bans of the channel, and in join_list which of    *)
(* the answers to a JOIN have not come yet.                                *)
(*                                                                         *)
(* client is what the program has in memory; each function of names.c is   *)
(* an operator on it.  irc is what the server (external) knows.  Both      *)
(* directions of the connection are queues: client.sent and inbox.         *)
(***************************************************************************)
EXTENDS Integers, SequencesExt

CONSTANTS
    Chans,       \* channels: numbers, in the order of their names
    Names,       \* nicknames
    Nick,        \* the nickname the user starts with
    Changes,     \* the changes of modes that somebody may make
    Keys,        \* the keys the user may type with /JOIN
    AutoRejoin,  \* /SET AUTO_REJOIN
    OtherWindow, \* whether there is a window of another server to change to
    UserKicked,  \* whether the user may be kicked
    MaxUnderWay  \* bound on the lines and commands under way when one is added

None == "none"   \* no key
Signs == {"+", "-"}
Flags == {"a", "i", "m", "n", "p", "s", "t"}
Answers == {"names", "modes", "bans"}

ChansAssumption == Chans \subseteq Nat /\ IsFiniteSet(Chans)
NamesAssumption == Nick \in Names /\ IsFiniteSet(Names)
SettingsAssumption == {AutoRejoin, OtherWindow, UserKicked} \subseteq BOOLEAN
KeysAssumption == None \notin Keys
BoundsAssumption == MaxUnderWay \in Nat

(* A change is a sequence of letters with their arguments, "+o-i" being    *)
(* four of them.                                                           *)
ChangesAssumption ==
    \A change \in Changes : \A i \in DOMAIN change :
        change[i].letter \in Signs \cup Flags \cup {"b", "k", "l", "o", "v"}

VARIABLES
    client,  \* nickname, chan_list, join_list (the answers that have come),
             \* shown: the current window shows this server, sent
    up,      \* connected and registered
    irc,     \* what the server knows: me, and per channel on, mode, key, limit, bans
    inbox    \* lines the server has sent and the program has not read

vars == <<client, up, irc, inbox>>

----------------------------------------------------------------------------
(* names.c.                                                                *)

OnChannel(c, chan) == chan \in DOMAIN c.chan_list

Send(c, cmd) == [c EXCEPT !.sent = Append(@, cmd)]

Join(chans, keys) == [cmd |-> "JOIN", chans |-> chans, keys |-> keys]
Ask(cmd, chan) == [cmd |-> cmd, chan |-> chan]

(* Mutant: an empty key is sent as well.                                   *)
KeyAlways(key) == <<key>>

KeyArg(key) == IF key = None THEN <<>> ELSE <<key>>

Without(f, x) == [y \in DOMAIN f \ {x} |-> f[y]]

Blank == [nicks |-> <<>>, mode |-> {}, key |-> None, limit |-> 0,
          chop |-> FALSE, voice |-> FALSE, bans |-> <<>>]

(* A channel that is in the list already is cleared, but for its key.      *)
AddChannel(c, chan) ==
    LET key == IF OnChannel(c, chan) THEN c.chan_list[chan].key ELSE None
    IN [c EXCEPT !.chan_list = (chan :> [Blank EXCEPT !.key = key]) @@ @]

(* Mutant: a nick that is known keeps what it had.                         *)
AddNewToChannel(c, chan, nick, oper, voice) ==
    IF OnChannel(c, chan)
    THEN [c EXCEPT !.chan_list[chan].chop = @ \/ (oper /\ nick = c.nickname),
                   !.chan_list[chan].nicks = @ @@ (nick :> [chanop |-> FALSE, voice |-> FALSE])]
    ELSE c

AddToChannel(c, chan, nick, oper, voice) ==
    IF OnChannel(c, chan)
    THEN [c EXCEPT !.chan_list[chan].chop = @ \/ (oper /\ nick = c.nickname),
                   !.chan_list[chan].nicks = (nick :> [chanop |-> oper, voice |-> voice]) @@ @]
    ELSE c

RemoveChannel(c, chan) == [c EXCEPT !.chan_list = Without(@, chan)]

RemoveFromChannel(c, chan, nick) ==
    IF OnChannel(c, chan)
    THEN [c EXCEPT !.chan_list[chan].nicks = Without(@, nick)] ELSE c

RemoveFromAll(c, nick) ==
    [c EXCEPT !.chan_list =
        [chan \in DOMAIN @ |-> [@[chan] EXCEPT !.nicks = Without(@, nick)]]]

Renamed(nicks, old, new) ==
    IF old \in DOMAIN nicks THEN (new :> nicks[old]) @@ Without(nicks, old) ELSE nicks

RenameNick(c, old, new) ==
    [c EXCEPT !.chan_list =
        [chan \in DOMAIN @ |-> [@[chan] EXCEPT !.nicks = Renamed(@, old, new)]]]

(* Another JOIN under way keeps the answers it has.                        *)
AddToJoinList(c, chan) == [c EXCEPT !.join_list = @ @@ (chan :> {})]

RemoveFromJoinList(c, chan) == [c EXCEPT !.join_list = Without(@, chan)]

(* Mutant: the last answer does not end the JOIN.                          *)
GotInfoKept(c, chan, type) ==
    IF chan \in DOMAIN c.join_list THEN [c EXCEPT !.join_list[chan] = @ \cup {type}] ELSE c

(* The entry to remove is looked up under the server of the current        *)
(* window, which prepare_command has put in the place of the argument.     *)
GotInfo(c, chan, type) ==
    IF chan \notin DOMAIN c.join_list THEN c
    ELSE IF c.join_list[chan] \cup {type} = Answers /\ c.shown
         THEN RemoveFromJoinList(c, chan)
         ELSE [c EXCEPT !.join_list[chan] = @ \cup {type}]

----------------------------------------------------------------------------
(* decifer_mode: one letter at a time, with the sign in force and the bits *)
(* of the last flag, which a letter that is no flag applies once more.     *)

Lists(ch, mask) == \E i \in DOMAIN ch.bans : ch.bans[i] = mask

(* Mutant: the flag of the user is left alone.                             *)
NickModeOnly(c, ch, letter, nick, add) ==
    [ch EXCEPT !.nicks = IF nick \notin DOMAIN @ THEN @
                         ELSE IF letter = "o" THEN [@ EXCEPT ![nick].chanop = add]
                         ELSE [@ EXCEPT ![nick].voice = add]]

NickMode(c, ch, letter, nick, add) ==
    LET marked == IF nick \notin DOMAIN ch.nicks THEN ch
                  ELSE IF letter = "o" THEN [ch EXCEPT !.nicks[nick].chanop = add]
                  ELSE [ch EXCEPT !.nicks[nick].voice = add]
    IN IF nick # c.nickname THEN marked
       ELSE IF letter = "o" THEN [marked EXCEPT !.chop = add]
       ELSE [marked EXCEPT !.voice = add]

(* Mutant: -b clears the list.                                             *)
BanModeAll(ch, mask, add) ==
    IF ~add THEN [ch EXCEPT !.bans = <<>>]
    ELSE IF Lists(ch, mask) THEN ch ELSE [ch EXCEPT !.bans = Append(@, mask)]

BanMode(ch, mask, add) ==
    IF ~add THEN [ch EXCEPT !.bans = RemoveFirst(@, mask)]
    ELSE IF Lists(ch, mask) THEN ch ELSE [ch EXCEPT !.bans = Append(@, mask)]

KeyMode(ch, key, add) == [ch EXCEPT !.key = IF add THEN key ELSE None]

(* Mutant: the bits of a flag stay in force over a change of the sign.     *)
ValueKept(value, letter) ==
    IF letter \in Flags \cup {"k", "l"} THEN {letter} ELSE value

Value(value, letter) ==
    IF letter \in Signs THEN {}
    ELSE IF letter \in Flags \cup {"k", "l"} THEN {letter} ELSE value

DeciferLetter(c, acc, t) ==
    LET zero == t.letter = "l" /\ acc.add /\ t.arg = 0
        add == (acc.add \/ t.letter = "+") /\ t.letter # "-" /\ ~zero
        value == Value(acc.value, t.letter)
        ch == CASE t.letter \in {"o", "v"} -> NickMode(c, acc.ch, t.letter, t.arg, add)
                [] t.letter = "b" -> BanMode(acc.ch, t.arg, add)
                [] t.letter = "k" -> KeyMode(acc.ch, t.arg, add)
                [] OTHER -> acc.ch
    IN [add |-> add, value |-> value,
        set |-> IF t.letter = "l" /\ add THEN t.arg ELSE IF zero THEN 0 ELSE acc.set,
        reset |-> acc.reset \/ (t.letter = "l" /\ ~add),
        ch |-> [ch EXCEPT !.mode = IF add THEN @ \cup value ELSE @ \ value]]

(* A limit that is set anywhere in the line wins over one that is reset.   *)
DeciferMode(c, ch, change) ==
    LET end == FoldLeft(LAMBDA acc, t : DeciferLetter(c, acc, t),
                        [add |-> FALSE, value |-> {}, set |-> 0, reset |-> FALSE, ch |-> ch],
                        change)
    IN IF end.set # 0 THEN [end.ch EXCEPT !.limit = end.set]
       ELSE IF end.reset THEN [end.ch EXCEPT !.limit = 0]
       ELSE end.ch

UpdateChannelMode(c, chan, change) ==
    IF OnChannel(c, chan)
    THEN [c EXCEPT !.chan_list[chan] = DeciferMode(c, @, change)] ELSE c

----------------------------------------------------------------------------
(* The handlers of the lines of the server.                                *)

PChannel(c, m) ==
    IF m.nick = c.nickname
    THEN AddChannel(Send(Send(AddToJoinList(c, m.chan), Ask("MODE", m.chan)),
                         Ask("BANS", m.chan)), m.chan)
    ELSE AddToChannel(c, m.chan, m.nick, FALSE, FALSE)

FunnyNamreply(c, m) ==
    IF m.chan \notin DOMAIN c.join_list THEN c
    ELSE FoldLeft(LAMBDA d, n : AddToChannel(d, m.chan, n.nick, n.prefix = "@", n.prefix = "+"),
                  c, m.names)

(* 324: shown to the user only if no channel at all is being joined.       *)
FunnyMode(c, m) ==
    IF DOMAIN c.join_list = {} THEN c
    ELSE GotInfo(UpdateChannelMode(c, m.chan, m.change), m.chan, "modes")

(* 367.                                                                    *)
CheckSync(c, m) ==
    IF OnChannel(c, m.chan) /\ m.chan \in DOMAIN c.join_list
    THEN [c EXCEPT !.chan_list[m.chan].bans = Append(@, m.mask)] ELSE c

(* 471 to 475: nothing more is done for a channel that is joined, and      *)
(* there is nothing to remove for another one.                             *)
CannotJoinChannel(c, m) == RemoveFromJoinList(c, m.chan)

PPart(c, m) ==
    IF m.nick = c.nickname
    THEN RemoveFromJoinList(RemoveChannel(c, m.chan), m.chan)
    ELSE RemoveFromChannel(c, m.chan, m.nick)

PKick(c, m) ==
    IF ~OnChannel(c, m.chan) THEN c
    ELSE IF m.nick # c.nickname THEN RemoveFromChannel(c, m.chan, m.nick)
    ELSE IF ~AutoRejoin THEN RemoveChannel(c, m.chan)
    ELSE RemoveChannel(AddToJoinList(
             Send(c, Join(<<m.chan>>, KeyArg(c.chan_list[m.chan].key))), m.chan), m.chan)

(* Mutant: the nickname of the user changes after the lists.               *)
PNickLists(c, m) == RenameNick(c, m.nick, m.new)

PNick(c, m) ==
    RenameNick(IF m.nick = c.nickname THEN [c EXCEPT !.nickname = m.new] ELSE c, m.nick, m.new)

ParseServer(c, m) ==
    CASE m.line = "JOIN" -> PChannel(c, m)
      [] m.line = "353"  -> FunnyNamreply(c, m)
      [] m.line = "366"  -> GotInfo(c, m.chan, "names")
      [] m.line = "324"  -> FunnyMode(c, m)
      [] m.line = "367"  -> CheckSync(c, m)
      [] m.line = "368"  -> GotInfo(c, m.chan, "bans")
      [] m.line = "475"  -> CannotJoinChannel(c, m)
      [] m.line = "PART" -> PPart(c, m)
      [] m.line = "KICK" -> PKick(c, m)
      [] m.line = "QUIT" -> RemoveFromAll(c, m.nick)
      [] m.line = "NICK" -> PNick(c, m)
      [] m.line = "MODE" -> UpdateChannelMode(c, m.chan, m.change)

ReadLine ==
    /\ up /\ inbox # <<>>
    /\ client' = ParseServer(client, Head(inbox))
    /\ inbox' = Tail(inbox)
    /\ UNCHANGED <<up, irc>>

----------------------------------------------------------------------------
(* The server (external).  It sends a line to the program when the user is *)
(* on the channel, or shares a channel with the other user.                *)

Empty == [on |-> <<>>, mode |-> {}, key |-> None, limit |-> 0, bans |-> {}]

Member(ch, nick) == nick \in DOMAIN ch.on

Used == {irc.me} \cup UNION {DOMAIN irc.chans[chan].on : chan \in Chans}

Leaves(ch, nick) ==
    IF DOMAIN ch.on \ {nick} = {} THEN Empty ELSE [ch EXCEPT !.on = Without(@, nick)]

Enters(ch, nick) ==
    [ch EXCEPT !.on = (nick :> [op |-> ch.on = <<>>, voice |-> FALSE]) @@ @]

Applied(ch, change) ==
    LET Plus(i) == LET signs == {j \in 1 .. i : change[j].letter \in Signs}
                   IN signs # {} /\ change[Max(signs)].letter = "+"
        Letter(acc, i) ==
            LET t == change[i] IN
            CASE t.letter = "o" -> [acc EXCEPT !.on[t.arg].op = Plus(i)]
              [] t.letter = "v" -> [acc EXCEPT !.on[t.arg].voice = Plus(i)]
              [] t.letter = "b" -> [acc EXCEPT !.bans = IF Plus(i) THEN @ \cup {t.arg} ELSE @ \ {t.arg}]
              [] t.letter = "k" -> [acc EXCEPT !.key = IF Plus(i) THEN t.arg ELSE None]
              [] t.letter = "l" -> [acc EXCEPT !.limit = IF Plus(i) THEN t.arg ELSE 0]
              [] t.letter \in Flags -> [acc EXCEPT !.mode = IF Plus(i) THEN @ \cup {t.letter}
                                                           ELSE @ \ {t.letter}]
              [] OTHER -> acc
    IN FoldLeft(Letter, ch, [i \in DOMAIN change |-> i])

OneLetter(letter, arg) == [letter |-> letter, arg |-> arg]

(* The modes of a channel, as 324 gives them.                              *)
Modes(ch) ==
    <<OneLetter("+", None)>> \o SetToSeq({OneLetter(f, None) : f \in ch.mode})
    \o (IF ch.limit = 0 THEN <<>> ELSE <<OneLetter("l", ch.limit)>>)
    \o (IF ch.key = None THEN <<>> ELSE <<OneLetter("k", ch.key)>>)

Prefix(m) == IF m.op THEN "@" ELSE IF m.voice THEN "+" ELSE ""

Joined(ch, chan, nick) ==
    LET on == Enters(ch, nick).on
    IN << [line |-> "JOIN", chan |-> chan, nick |-> nick],
          [line |-> "353", chan |-> chan,
           names |-> SetToSeq({[nick |-> n, prefix |-> Prefix(on[n])] : n \in DOMAIN on})],
          [line |-> "366", chan |-> chan] >>

(* A JOIN may be refused for the key or for a reason of the server's own;  *)
(* one for a channel the user is on is passed over.                        *)
AnswerJoin(cmd, refused) ==
    LET Ch(i) == irc.chans[cmd.chans[i]]
        Key(i) == IF i \in DOMAIN cmd.keys THEN cmd.keys[i] ELSE None
        New == {i \in DOMAIN cmd.chans : ~Member(Ch(i), irc.me)}
        Let == {i \in New : cmd.chans[i] \notin refused /\ Ch(i).key \in {None, Key(i)}}
        Answer(i) == IF i \in Let THEN Joined(Ch(i), cmd.chans[i], irc.me)
                     ELSE IF i \in New THEN <<[line |-> "475", chan |-> cmd.chans[i]]>>
                     ELSE <<>>
    IN /\ irc' = [irc EXCEPT !.chans = [chan \in Chans |->
                     IF \E i \in Let : cmd.chans[i] = chan THEN Enters(@[chan], irc.me) ELSE @[chan]]]
       /\ inbox' = inbox \o FlattenSeq([i \in DOMAIN cmd.chans |-> Answer(i)])

AnswerPart(chan) ==
    IF Member(irc.chans[chan], irc.me)
    THEN /\ irc' = [irc EXCEPT !.chans[chan] = Leaves(@, irc.me)]
         /\ inbox' = Append(inbox, [line |-> "PART", chan |-> chan, nick |-> irc.me])
    ELSE UNCHANGED <<irc, inbox>>

Bans(chan) == SetToSeq({[line |-> "367", chan |-> chan, mask |-> b] : b \in irc.chans[chan].bans})

Reply ==
    /\ up /\ client.sent # <<>>
    /\ client' = [client EXCEPT !.sent = Tail(@)]
    /\ UNCHANGED up
    /\ LET cmd == Head(client.sent) IN
       \/ cmd.cmd = "JOIN" /\ \E refused \in SUBSET Range(cmd.chans) : AnswerJoin(cmd, refused)
       \/ cmd.cmd = "PART" /\ AnswerPart(cmd.chan)
       \/ /\ cmd.cmd = "MODE" /\ UNCHANGED irc
          /\ inbox' = Append(inbox, [line |-> "324", chan |-> cmd.chan,
                                     change |-> Modes(irc.chans[cmd.chan])])
       \/ /\ cmd.cmd = "BANS" /\ UNCHANGED irc
          /\ inbox' = inbox \o Bans(cmd.chan) \o <<[line |-> "368", chan |-> cmd.chan]>>

(* The line goes to the program if the user sees one of these channels.    *)
Tell(chans, m) ==
    inbox' = IF up /\ \E chan \in chans : Member(irc.chans[chan], irc.me)
             THEN Append(inbox, m) ELSE inbox

OtherJoins(nick, chan) ==
    /\ ~Member(irc.chans[chan], nick) /\ nick # irc.me
    /\ irc' = [irc EXCEPT !.chans[chan] = Enters(@, nick)]
    /\ Tell({chan}, [line |-> "JOIN", chan |-> chan, nick |-> nick])

OtherParts(nick, chan) ==
    /\ Member(irc.chans[chan], nick) /\ nick # irc.me
    /\ irc' = [irc EXCEPT !.chans[chan] = Leaves(@, nick)]
    /\ Tell({chan}, [line |-> "PART", chan |-> chan, nick |-> nick])

(* Anybody on the channel, the user included, is kicked by somebody else.  *)
Kick(nick, chan) ==
    /\ Member(irc.chans[chan], nick) /\ (nick = irc.me => UserKicked)
    /\ irc' = [irc EXCEPT !.chans[chan] = Leaves(@, nick)]
    /\ Tell({chan}, [line |-> "KICK", chan |-> chan, nick |-> nick])

OtherQuits(nick) ==
    /\ nick \in Used \ {irc.me}
    /\ irc' = [irc EXCEPT !.chans = [chan \in Chans |-> Leaves(@[chan], nick)]]
    /\ Tell({chan \in Chans : Member(irc.chans[chan], nick)}, [line |-> "QUIT", nick |-> nick])

(* The user's own NICK is always told, that of others on a common channel. *)
NickChanges(nick, new) ==
    /\ nick \in Used /\ new \notin Used /\ (nick = irc.me => up)
    /\ irc' = [me |-> IF nick = irc.me THEN new ELSE irc.me,
               chans |-> [chan \in Chans |-> [irc.chans[chan] EXCEPT !.on = Renamed(@, nick, new)]]]
    /\ LET m == [line |-> "NICK", nick |-> nick, new |-> new]
       IN IF nick = irc.me THEN inbox' = Append(inbox, m)
          ELSE Tell({chan \in Chans : Member(irc.chans[chan], nick)}, m)

ModeChanges(chan, change) ==
    /\ irc.chans[chan].on # <<>>
    /\ \A i \in DOMAIN change :
          change[i].letter \in {"o", "v"} => Member(irc.chans[chan], change[i].arg)
    /\ Applied(irc.chans[chan], change) # irc.chans[chan]
    /\ irc' = [irc EXCEPT !.chans[chan] = Applied(@, change)]
    /\ Tell({chan}, [line |-> "MODE", chan |-> chan, change |-> change])

Others ==
    /\ Len(inbox) + Len(client.sent) < MaxUnderWay
    /\ UNCHANGED <<client, up>>
    /\ \/ \E nick \in Names, chan \in Chans :
             OtherJoins(nick, chan) \/ OtherParts(nick, chan) \/ Kick(nick, chan)
       \/ \E nick, new \in Names : OtherQuits(nick) \/ NickChanges(nick, new)
       \/ \E chan \in Chans, change \in Changes : ModeChanges(chan, change)

----------------------------------------------------------------------------
(* The connection, and the commands of the user.                           *)

(* close_server keeps the channels of the primary server, and join_list.   *)
LoseConnection ==
    /\ up
    /\ up' = FALSE /\ inbox' = <<>>
    /\ client' = [client EXCEPT !.sent = <<>>]
    /\ irc' = [irc EXCEPT !.chans = [chan \in Chans |-> Leaves(@[chan], irc.me)]]

(* Mutant: the channels stay in the list until they are joined again.      *)
ReconnectKeepingList(c) ==
    LET chans == SetToSortSeq(DOMAIN c.chan_list, <)
    IN [c EXCEPT !.join_list = @ @@ [chan \in DOMAIN c.chan_list |-> {}],
                 !.sent = IF chans = <<>> THEN @ ELSE Append(@, Join(chans, <<>>))]

(* reconnect_all_channels: one JOIN for all, with the keys there are.      *)
ReconnectAllChannels(c) ==
    LET chans == SetToSortSeq(DOMAIN c.chan_list, <)
        keys == FlattenSeq([i \in DOMAIN chans |-> KeyArg(c.chan_list[chans[i]].key)])
    IN [c EXCEPT !.join_list = @ @@ [chan \in DOMAIN c.chan_list |-> {}],
                 !.chan_list = <<>>,
                 !.sent = IF chans = <<>> THEN @ ELSE Append(@, Join(chans, keys))]

(* Registered again, under the old nickname if it is free.                 *)
Reconnect ==
    /\ ~up
    /\ \E nick \in Names \ (Used \ {irc.me}) :
          /\ client.nickname \notin Used \ {irc.me} => nick = client.nickname
          /\ client' = ReconnectAllChannels([client EXCEPT !.nickname = nick])
          /\ irc' = [irc EXCEPT !.me = nick]
    /\ up' = TRUE
    /\ UNCHANGED inbox

MaySend == up /\ client.shown /\ Len(inbox) + Len(client.sent) < MaxUnderWay

(* A command goes to the server of the current window.                     *)
CmdJoin(chan, key) ==
    /\ MaySend /\ ~OnChannel(client, chan)
    /\ client' = Send(client, Join(<<chan>>, KeyArg(key)))
    /\ UNCHANGED <<up, irc, inbox>>

(* /PART of one channel, or /PARTALL.                                      *)
CmdPart(chans) ==
    /\ MaySend /\ chans # {} /\ chans \subseteq DOMAIN client.chan_list
    /\ client' = FoldLeft(LAMBDA c, chan : Send(c, Ask("PART", chan)),
                          client, SetToSortSeq(chans, <))
    /\ UNCHANGED <<up, irc, inbox>>

CmdCycle(chan) ==
    /\ MaySend /\ OnChannel(client, chan)
    /\ client' = Send(Send(client, Ask("PART", chan)),
                      Join(<<chan>>, KeyArg(client.chan_list[chan].key)))
    /\ UNCHANGED <<up, irc, inbox>>

(* The current window becomes one of another server, or of this one.       *)
SetCurrentWindow ==
    /\ OtherWindow
    /\ client' = [client EXCEPT !.shown = ~@]
    /\ UNCHANGED <<up, irc, inbox>>

----------------------------------------------------------------------------
Init ==
    /\ client = [nickname |-> Nick, chan_list |-> <<>>, join_list |-> <<>>,
                 shown |-> TRUE, sent |-> <<>>]
    /\ up = TRUE
    /\ irc = [me |-> Nick, chans |-> [chan \in Chans |-> Empty]]
    /\ inbox = <<>>

User == \/ \E chan \in Chans : \/ \E key \in Keys \cup {None} : CmdJoin(chan, key)
                               \/ CmdPart({chan}) \/ CmdCycle(chan)
        \/ CmdPart(DOMAIN client.chan_list)
Next == \/ ReadLine \/ Reply \/ LoseConnection \/ Reconnect
        \/ User \/ SetCurrentWindow \/ Others

Spec == Init /\ [][Next]_vars

----------------------------------------------------------------------------
(* The variables have their types; in particular a JOIN carries keys only  *)
(* where there are some.                                                   *)
TypeOK ==
    /\ client.nickname \in Names
    /\ DOMAIN client.chan_list \cup DOMAIN client.join_list \subseteq Chans
    /\ \A chan \in DOMAIN client.chan_list :
          LET ch == client.chan_list[chan] IN
          /\ DOMAIN ch.nicks \subseteq Names
          /\ ch.mode \subseteq Flags \cup {"k", "l"}
          /\ ch.limit \in Nat /\ {ch.chop, ch.voice} \subseteq BOOLEAN
    /\ \A chan \in DOMAIN client.join_list : client.join_list[chan] \subseteq Answers
    /\ \A i \in DOMAIN client.sent :
          LET cmd == client.sent[i]
          IN cmd.cmd = "JOIN" => Range(cmd.chans) \subseteq Chans /\ None \notin Range(cmd.keys)
    /\ client.shown \in BOOLEAN /\ up \in BOOLEAN /\ irc.me \in Names

(* What the program will have when it has read all that was sent.          *)
Caught == FoldLeft(ParseServer, client, inbox)

(* The program knows which channels it is on, who is there, and who has    *)
(* ops: once the lines under way are read, its lists are those of the      *)
(* server, whatever JOINs, KICKs, refusals, changes of nicknames and lost  *)
(* connections came before (names.c, struct.h:348-368).                    *)
Mirrors ==
    up => /\ Caught.nickname = irc.me
          /\ DOMAIN Caught.chan_list = {chan \in Chans : Member(irc.chans[chan], irc.me)}
          /\ \A chan \in DOMAIN Caught.chan_list :
                LET nicks == Caught.chan_list[chan].nicks
                    on == irc.chans[chan].on
                IN /\ DOMAIN nicks = DOMAIN on
                   /\ \A nick \in DOMAIN on : nicks[nick].chanop = on[nick].op

(* chan->chop, by which the program decides whether the user has ops,      *)
(* agrees with the user's own entry in the list of nicks, over changes of  *)
(* the nickname and of the modes (add_to_channel, decifer_mode).           *)
OpKnown ==
    \A chan \in DOMAIN Caught.chan_list :
        LET ch == Caught.chan_list[chan]
        IN Caught.nickname \in DOMAIN ch.nicks => ch.chop = ch.nicks[Caught.nickname].chanop

Settled(chan) == chan \in DOMAIN Caught.chan_list \ DOMAIN Caught.join_list

(* When the answers to a JOIN have come, the modes, the key and the limit  *)
(* of the channel are those of the server, and stay so (decifer_mode).     *)
ModesKnown ==
    up => \A chan \in Chans : Settled(chan) =>
        LET ch == Caught.chan_list[chan] IN
        /\ ch.mode \ {"k", "l"} = irc.chans[chan].mode
        /\ ch.key = irc.chans[chan].key /\ ch.limit = irc.chans[chan].limit

(* And no ban of the channel is missing in the list (check_sync,           *)
(* decifer_mode).                                                          *)
BansKnown ==
    up => \A chan \in Chans : Settled(chan) => irc.chans[chan].bans \subseteq Range(Caught.chan_list[chan].bans)

(* A channel leaves join_list with the last of the answers (got_info).     *)
SyncedLeave == \A chan \in DOMAIN client.join_list : client.join_list[chan] # Answers
=============================================================================
