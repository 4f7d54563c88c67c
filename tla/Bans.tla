------------------------------- MODULE Bans -------------------------------
(***************************************************************************)
(* The commands of an operator (cmd_modes.c): bans and their removal, in   *)
(* lines of as many modes as a server takes, with the questions about      *)
(* hosts (userhost_ban, userhost_unban) and the prompt of /TBAN in         *)
(* between.  The list of bans a channel has here follows the MODE lines of *)
(* the server (names.c decifer_mode).                                      *)
(*                                                                         *)
(* A mask is a number, the order of the numbers the one of the list; what  *)
(* a mask matches is given by constants, and ban_it makes a mask of a      *)
(* nick, for each BANTYPE.                                                 *)
(***************************************************************************)
EXTENDS Integers, Sequences, FiniteSets, SequencesExt, FiniteSetsExt, Functions

CONSTANTS
    Chans, Nicks,
    Masks,          \* a set of numbers
    Specs,          \* [names of patterns -> the masks they match]
    BanTypes,       \* [types -> [Nicks -> the mask ban_it makes]]
    Hosts,          \* [Nicks -> the masks that match the user]
    NumModes,       \* NUM_BANMODES and NUM_OPMODES
    MaxSent         \* bound: lines on the way when a command is given

BansAssumption ==
    /\ Masks \subseteq Nat /\ NumModes \in Nat \ {0} /\ MaxSent \in Nat \ {0}
    /\ \A type \in DOMAIN BanTypes : BanTypes[type] \in [Nicks -> Masks]
    /\ Hosts \in [Nicks -> SUBSET Masks]

VARIABLES
    real,           \* [Chans -> [bans, op]]: the channels of the server
    bans,           \* [Chans -> the list of bans, a sequence of [ban, sent_unban]]
    chop,           \* [Chans -> BOOLEAN]: the program takes the user for an operator
    current,        \* the current channel
    bantype,        \* the BANTYPE variable
    prompts,        \* the channels of the prompts of /TBAN
    queue,          \* the questions under way: [fun, nick, chan]
    sent, inbox     \* the lines on the way

vars == <<real, bans, chop, current, bantype, prompts, queue, sent, inbox>>

Me == "me"

Mode(chan, changes) == [cmd |-> "MODE", chan |-> chan, changes |-> changes]
Change(add, letter, arg) == [add |-> add, letter |-> letter, arg |-> arg]
Minus(set) == {Change(FALSE, "b", m) : m \in set}

Listed(list) == {b.ban : b \in Range(list)}
Marked(list) == {b.ban : b \in {e \in Range(list) : e.sent_unban}}

Entry(mask, marked) == [ban |-> mask, sent_unban |-> marked]

(* The entries of these masks are marked.                                  *)
MarkAll(list, masks) ==
    [i \in DOMAIN list |-> IF list[i].ban \in masks THEN Entry(list[i].ban, TRUE) ELSE list[i]]

\* A mutant: what does not fill a line is not sent.
FullLines(chan, changes) ==
    [i \in 1 .. Len(changes) \div NumModes |->
        Mode(chan, SubSeq(changes, (i - 1) * NumModes + 1, i * NumModes))]

(* The lines for a sequence of changes: full ones, and one of what is left *)
(* (add_mode, flush_mode_all).                                             *)
Flushed(chan, changes) ==
    LET lines == (Len(changes) + NumModes - 1) \div NumModes
        To(i) == IF i * NumModes < Len(changes) THEN i * NumModes ELSE Len(changes)
    IN [i \in 1 .. lines |-> Mode(chan, SubSeq(changes, (i - 1) * NumModes + 1, To(i)))]

(* The loop of cmd_unban sends when the count is at a multiple, so also    *)
(* for the bans after a full line that do not match: a MODE of nothing.    *)
Unbanned(chan, masks) ==
    LET One(acc, e) ==
            LET hit == e.ban \in masks /\ ~e.sent_unban
                now == IF hit THEN Append(acc.now, Change(FALSE, "b", e.ban)) ELSE acc.now
                count == IF hit THEN acc.count + 1 ELSE acc.count
            IN IF count > 0 /\ count % NumModes = 0
               THEN [now |-> <<>>, count |-> count, lines |-> Append(acc.lines, Mode(chan, now))]
               ELSE [acc EXCEPT !.now = now, !.count = count]
        all == FoldLeft(One, [now |-> <<>>, count |-> 0, lines |-> <<>>], bans[chan])
    IN IF all.now = <<>> THEN all.lines ELSE Append(all.lines, Mode(chan, all.now))

----------------------------------------------------------------------------
(* The commands.  prepare_command wants the user to be an operator.        *)

Ready(chan) == chop[chan] /\ Len(sent) + Len(inbox) < MaxSent

(* /UNBAN pattern and /DBAN.                                               *)
CmdUnban(chan) ==
    \E spec \in DOMAIN Specs :
        /\ Ready(chan)
        /\ sent' = sent \o Unbanned(chan, Specs[spec])
        /\ bans' = [bans EXCEPT ![chan] = MarkAll(@, Specs[spec])]
        /\ UNCHANGED <<real, chop, current, bantype, prompts, queue, inbox>>

Ask(fun, nick, chan) ==
    /\ queue' = Append(queue, [fun |-> fun, nick |-> nick, chan |-> chan])
    /\ sent' = Append(sent, [cmd |-> "USERHOST", nick |-> nick])

(* /UNBAN nick.                                                            *)
CmdUnbanNick(chan) ==
    \E nick \in Nicks :
        /\ Ready(chan) /\ Ask("userhost_unban", nick, chan)
        /\ UNCHANGED <<real, bans, chop, current, bantype, prompts, inbox>>

DeopAndBan(chan, nick) ==
    Mode(chan, <<Change(FALSE, "o", nick), Change(TRUE, "b", BanTypes[bantype][nick])>>)

Kick(chan, nick) == [cmd |-> "KICK", chan |-> chan, nick |-> nick]

(* /BAN and /KICKBAN of a nick, whose host is known or has to be asked.    *)
CmdBan(chan) ==
    \E nick \in Nicks, kick, known \in BOOLEAN :
        /\ Ready(chan)
        /\ IF known
           THEN /\ sent' = sent \o <<DeopAndBan(chan, nick)>>
                                \o (IF kick THEN <<Kick(chan, nick)>> ELSE <<>>)
                /\ UNCHANGED queue
           ELSE Ask("userhost_ban", nick, chan)
        /\ UNCHANGED <<real, bans, chop, current, bantype, prompts, inbox>>

(* /BAN of a mask.                                                         *)
CmdBanMask(chan) ==
    \E mask \in Masks :
        /\ Ready(chan)
        /\ sent' = Append(sent, Mode(chan, <<Change(TRUE, "b", mask)>>))
        /\ UNCHANGED <<real, bans, chop, current, bantype, prompts, queue, inbox>>

(* /TBAN asks which bans of the current channel are to go.                 *)
CmdTban ==
    /\ Ready(current) /\ bans[current] # <<>> /\ prompts = <<>>
    /\ prompts' = <<current>>
    /\ UNCHANGED <<real, bans, chop, current, bantype, queue, sent, inbox>>

(* Its answer: numbers of the list as it is now; every marked ban leaves   *)
(* the list at once, those that /UNBAN marked among them.                  *)
RemoveBans ==
    /\ prompts # <<>> /\ Len(sent) + Len(inbox) < MaxSent
    /\ LET chan == Head(prompts) IN
       \E numbers \in SUBSET (1 .. 2) :
           LET picked == {bans[chan][i].ban : i \in numbers \cap DOMAIN bans[chan]} \ Marked(bans[chan])
               list == MarkAll(bans[chan], picked)
               asked == SelectSeq(bans[chan], LAMBDA e : e.ban \in picked)
           IN IF ~chop[chan] THEN UNCHANGED <<bans, sent>>
              ELSE /\ bans' = [bans EXCEPT ![chan] = SelectSeq(list, LAMBDA e : ~e.sent_unban)]
                   /\ sent' = sent \o Flushed(chan, [i \in DOMAIN asked |-> Change(FALSE, "b", asked[i].ban)])
    /\ prompts' = Tail(prompts)
    /\ UNCHANGED <<real, chop, current, bantype, queue, inbox>>

(* /OP and /DEOP of some nicks; /OP takes the current channel.             *)
CmdOp(chan) ==
    \E nicks \in SUBSET Nicks, add \in BOOLEAN :
        LET order == SetToSeq(nicks) IN
        /\ Ready(chan) /\ nicks # {} /\ (add => chan = current)
        /\ sent' = sent \o Flushed(chan, [i \in DOMAIN order |-> Change(add, "o", order[i])])
        /\ UNCHANGED <<real, bans, chop, current, bantype, prompts, queue, inbox>>

CmdBantype ==
    /\ bantype' \in DOMAIN BanTypes \ {bantype}
    /\ UNCHANGED <<real, bans, chop, current, prompts, queue, sent, inbox>>

OtherChannel ==
    /\ current' \in Chans \ {current}
    /\ UNCHANGED <<real, bans, chop, bantype, prompts, queue, sent, inbox>>

----------------------------------------------------------------------------
(* The answer about a host.  The bans removed are those of the channel     *)
(* that is the current one when it comes, whichever was named.             *)

UserhostUnban(req) ==
    LET masks == {m \in Hosts[req.nick] : Entry(m, FALSE) \in Range(bans[current])}
        asked == SelectSeq(bans[current], LAMBDA e : e.ban \in masks)
    IN IF ~chop[current] THEN UNCHANGED <<bans, sent>>
       ELSE /\ bans' = [bans EXCEPT ![current] = MarkAll(@, masks)]
            /\ sent' = sent \o Flushed(current, [i \in DOMAIN asked |-> Change(FALSE, "b", asked[i].ban)])

UserhostBan(req) ==
    /\ sent' = sent \o <<Mode(req.chan, <<Change(TRUE, "b", BanTypes[bantype][req.nick])>>),
                         Kick(req.chan, req.nick)>>
    /\ UNCHANGED bans

UserhostReturned(found) ==
    LET req == Head(queue) IN
    /\ queue' = Tail(queue)
    /\ IF ~found THEN UNCHANGED <<bans, sent>>
       ELSE IF req.fun = "userhost_unban" THEN UserhostUnban(req) ELSE UserhostBan(req)
    /\ UNCHANGED chop

(* A MODE line: +b enters the mask in its place, or clears the mark of the *)
(* one that is listed; -b removes it (decifer_mode, list.c add_to_list).   *)
Deciphered(list, c) ==
    IF c.letter # "b" THEN list
    ELSE LET others == SelectSeq(list, LAMBDA e : e.ban # c.arg)
             Before(e) == e.ban < c.arg
             After(e) == e.ban > c.arg
         IN IF c.add THEN SelectSeq(others, Before) \o <<Entry(c.arg, FALSE)>> \o SelectSeq(others, After)
            ELSE others

PMode(line) ==
    LET own == SelectSeq(line.changes, LAMBDA c : c.letter = "o" /\ c.arg = Me)
    IN /\ bans' = [bans EXCEPT ![line.chan] = FoldLeft(Deciphered, @, line.changes)]
       /\ chop' = [chop EXCEPT ![line.chan] = IF own = <<>> THEN @ ELSE Last(own).add]
       /\ UNCHANGED <<queue, sent>>

ReadLine ==
    /\ inbox # <<>>
    /\ inbox' = Tail(inbox)
    /\ LET line == Head(inbox) IN
       CASE line.cmd = "MODE" -> PMode(line)
         [] line.cmd = "302"  -> UserhostReturned(line.found)
         [] line.cmd = "482"  -> UNCHANGED <<bans, chop, queue, sent>>
    /\ UNCHANGED <<real, current, bantype, prompts>>

----------------------------------------------------------------------------
(* The server (external).  It takes NumModes changes of a line, does those *)
(* that change something, and refuses who is not an operator.              *)

Changes(chan, c) ==
    CASE c.letter = "b" -> (c.arg \in real[chan].bans) # c.add
      [] c.letter = "o" -> (c.arg \in real[chan].op) # c.add

Applied(ch, c) ==
    LET key == IF c.letter = "b" THEN "bans" ELSE "op"
    IN [ch EXCEPT ![key] = IF c.add THEN @ \cup {c.arg} ELSE @ \ {c.arg}]

Takes(chan, changes) ==
    LET done == SelectSeq(SubSeq(changes, 1, IF Len(changes) > NumModes THEN NumModes ELSE Len(changes)),
                          LAMBDA c : Changes(chan, c))
    IN /\ real' = [real EXCEPT ![chan] = FoldLeft(Applied, @, done)]
       /\ inbox' = IF done = <<>> THEN inbox ELSE Append(inbox, Mode(chan, done))

Serve ==
    /\ sent # <<>>
    /\ sent' = Tail(sent)
    /\ LET line == Head(sent) IN
       CASE line.cmd = "USERHOST" -> /\ \E found \in BOOLEAN : inbox' = Append(inbox, [cmd |-> "302", found |-> found])
                                     /\ UNCHANGED real
         [] line.cmd = "KICK" -> UNCHANGED <<real, inbox>>
         [] line.cmd = "MODE" -> IF Me \in real[line.chan].op THEN Takes(line.chan, line.changes)
                                 ELSE inbox' = Append(inbox, [cmd |-> "482"]) /\ UNCHANGED real
    /\ UNCHANGED <<bans, chop, current, bantype, prompts, queue>>

(* Another operator bans, or makes the user an operator or none.           *)
Other ==
    /\ Len(sent) + Len(inbox) < MaxSent
    /\ \E chan \in Chans, add \in BOOLEAN, l \in {<<"o", Me>>} \cup {<<"b", m>> : m \in Masks} :
           /\ Changes(chan, Change(add, l[1], l[2]))
           /\ Takes(chan, <<Change(add, l[1], l[2])>>)
    /\ UNCHANGED <<bans, chop, current, bantype, prompts, queue, sent>>

----------------------------------------------------------------------------
Init ==
    /\ real = [chan \in Chans |-> [bans |-> Masks, op |-> {Me}]]
    /\ bans = [chan \in Chans |-> LET order == SetToSortSeq(Masks, <)
                                  IN [i \in DOMAIN order |-> Entry(order[i], FALSE)]]
    /\ chop = [chan \in Chans |-> TRUE]
    /\ current \in Chans /\ bantype \in DOMAIN BanTypes
    /\ prompts = <<>> /\ queue = <<>> /\ sent = <<>> /\ inbox = <<>>

Next ==
    \/ \E chan \in Chans : CmdUnban(chan) \/ CmdUnbanNick(chan) \/ CmdBan(chan)
                           \/ CmdBanMask(chan) \/ CmdOp(chan)
    \/ CmdTban \/ RemoveBans \/ CmdBantype \/ OtherChannel
    \/ ReadLine \/ Serve \/ Other

Spec == Init /\ [][Next]_vars

----------------------------------------------------------------------------
TypeOK ==
    /\ \A chan \in Chans : Listed(bans[chan]) \subseteq Masks
    /\ \A chan \in Chans : \A i, j \in DOMAIN bans[chan] : i < j => bans[chan][i].ban < bans[chan][j].ban
    /\ Len(prompts) <= 1 /\ current \in Chans

(* A ban that is marked as removed has its -b on a line, in a part of it   *)
(* the server takes: otherwise no /UNBAN would ask for it again (add_mode, *)
(* cmd_unban, userhost_unban, remove_bans).                                *)
MarksWhatIsSent ==
    \A chan \in Chans :
       LET new == Marked(bans'[chan]) \ Marked(bans[chan])
           gone == IF prompts' = prompts THEN {} ELSE Listed(bans[chan]) \ (Marked(bans[chan]) \cup Listed(bans'[chan]))
       IN \A c \in Minus(new \cup gone) :
             \E i \in DOMAIN sent' : \E j \in 1 .. NumModes :
                 /\ sent'[i].cmd = "MODE" /\ sent'[i].chan = chan
                 /\ j \in DOMAIN sent'[i].changes /\ sent'[i].changes[j] = c
=============================================================================
