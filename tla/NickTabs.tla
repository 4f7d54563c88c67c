----------------------------- MODULE NickTabs -----------------------------
(***************************************************************************)
(* The nicks the tab key offers on the input line: first those that sent   *)
(* or got a message (addtabkey, gettabkey), then those of the channel      *)
(* (input.c getnextnick), and the completion of a word to a nick of the    *)
(* channel (getchannick).                                                  *)
(*                                                                         *)
(* A nick is a sequence of letters; so is what the user types of it.  Of   *)
(* the line only the command and the word behind it matter, or the last    *)
(* word of a text.  A nick freed with the entry of the channel that held   *)
(* it is still offered (README, "Disagreements"): sucks keeps it here.     *)
(***************************************************************************)
EXTENDS Integers, Sequences, FiniteSets, SequencesExt

CONSTANTS
    Nicks, Words,   \* sets of sequences of letters: the nicks, what is typed
    MaxTabs         \* bound: the nicks in the list of the tab key

NickTabsAssumption == <<>> \notin Nicks \cup Words /\ MaxTabs \in Nat

VARIABLES
    tabkey_array,   \* the nicks of messages, the latest first
    channel,        \* the nicks of the current channel; empty without one
    line,           \* [cmd, word]: a command is on the line; its nick or the last word
    in_completion,
    new_nick,       \* what was typed before the tab key was used
    input_lastmsg,  \* the nick offered last, None without
    sucks,          \* the static entry that getnextnick returns
    cleared         \* history: the list was cleared while the line stayed

vars == <<tabkey_array, channel, line, in_completion, new_nick, input_lastmsg, sucks, cleared>>

None == <<>>            \* NULL, or an empty string
States == {"NORMAL", "COMPLETE", "TABKEY", "CNICK"}
Blank == [cmd |-> FALSE, word |-> None]

Has(s) == s # None

(* The first entry from i on that begins with s, 0 if there is none.       *)
Find(list, s, i) ==
    LET found == {j \in i .. Len(list) : IsPrefix(s, list[j])}
    IN IF i = 0 \/ found = {} THEN 0 ELSE CHOOSE j \in found : \A k \in found : j <= k

Following(list, i) == IF i = 0 \/ i = Len(list) THEN 0 ELSE i + 1
First(list) == IF list = <<>> THEN 0 ELSE 1

(* The place in the list of messages, 0 for none.  A word is looked for    *)
(* only when there is an entry behind the place.                           *)
TabPlace(old, word) ==
    LET at == Find(tabkey_array, old, 1)
        next == IF ~Has(old) THEN 1
                ELSE IF at = 0 THEN IF in_completion = "TABKEY" THEN 1 ELSE 0
                ELSE Following(tabkey_array, at)
    IN IF ~Has(old) /\ ~Has(word) THEN 1
       ELSE IF Has(word) /\ in_completion # "TABKEY" /\ Following(tabkey_array, next) # 0
            THEN Find(tabkey_array, word, next)
            ELSE next

(* The place in the list of the channel.                                   *)
ChannelPlace(typed, old, word) ==
    LET next == IF Has(old) THEN Following(channel, Find(channel, old, 1)) ELSE First(channel)
    IN IF ~Has(old) /\ ~Has(word) THEN First(channel)
       ELSE IF next = 0 /\ Has(old) THEN First(channel)
       ELSE Find(channel, typed, next)

UsesTabs == tabkey_array # <<>> /\ in_completion \in {"NORMAL", "TABKEY"}

(* getnextnick and what input_msgreply does with the nick.                 *)
Offer(nick, state) ==
    /\ in_completion' = state
    /\ IF Has(nick) THEN /\ line' = [cmd |-> TRUE, word |-> nick]
                         /\ input_lastmsg' = nick /\ cleared' = FALSE
       ELSE UNCHANGED <<line, input_lastmsg, cleared>>

InputMsgreply ==
    /\ line.cmd \/ line = Blank
    /\ new_nick' = IF in_completion = "NORMAL" /\ Has(line.word) THEN line.word ELSE new_nick
    /\ LET tab == IF UsesTabs THEN TabPlace(input_lastmsg, line.word) ELSE 0
           chan == ChannelPlace(new_nick', input_lastmsg, line.word)
       IN IF tab # 0 THEN Offer(tabkey_array[tab], "TABKEY") /\ UNCHANGED sucks
          ELSE /\ sucks' = IF chan # 0 THEN channel[chan] ELSE sucks
               /\ Offer(sucks', IF chan = 0 THEN "NORMAL" ELSE "CNICK")
    /\ UNCHANGED <<tabkey_array, channel>>

----------------------------------------------------------------------------
(* getchannick.  The word counts before the first completion only; the     *)
(* last nick of the channel is taken whatever was typed.                   *)
Completed(old, word) ==
    LET at == Find(channel, old, 1)
        next == IF Has(old) THEN Following(channel, at) ELSE 1
        sofar == IF next # 0 /\ Has(old) THEN next ELSE IF Has(old) THEN at ELSE 0
        found == Find(channel, word, next)
    IN IF channel = <<>> THEN 0
       ELSE IF ~Has(old) /\ ~Has(word) THEN 1
       ELSE IF Has(word) /\ in_completion = "NORMAL"
            THEN IF next = 0 THEN 1
                 ELSE IF Following(channel, next) = 0 THEN next
                 ELSE IF found # 0 THEN found ELSE sofar
       ELSE IF in_completion = "CNICK" THEN IF next = 0 THEN 1 ELSE next
       ELSE sofar

(* Alone on the line, the command is the word.                             *)
Command == <<0>>
LastWord == IF line.cmd /\ ~Has(line.word) THEN Command ELSE line.word

(* The rest of the line goes when the completion is used again.            *)
NickCompletion ==
    LET word == IF in_completion = "NORMAL" THEN LastWord ELSE None
        i == Completed(input_lastmsg, word)
    IN /\ IF i = 0 THEN /\ UNCHANGED <<line, input_lastmsg>>
                        /\ in_completion' = IF channel = <<>> THEN "NORMAL" ELSE in_completion
          ELSE /\ line' = [cmd |-> line.cmd /\ Has(word) /\ Has(line.word), word |-> channel[i]]
               /\ input_lastmsg' = channel[i]
               /\ in_completion' = "COMPLETE"
       /\ UNCHANGED <<tabkey_array, channel, new_nick, sucks, cleared>>

----------------------------------------------------------------------------
(* What the user types: a word, with or without a command before it, a     *)
(* blank that accepts what was completed, a backspace.                     *)
Type ==
    /\ line = Blank
    /\ \E cmd \in BOOLEAN, word \in Words : line' = [cmd |-> cmd, word |-> word]
    /\ UNCHANGED <<tabkey_array, channel, in_completion, new_nick, input_lastmsg, sucks, cleared>>

InputAddCharacter ==
    /\ in_completion = "COMPLETE" /\ Has(input_lastmsg)
    /\ line' = [line EXCEPT !.word = None]
    /\ input_lastmsg' = None /\ new_nick' = None /\ in_completion' = "NORMAL"
    /\ UNCHANGED <<tabkey_array, channel, sucks, cleared>>

InputBackspace ==
    /\ Has(line.word)
    /\ line' = [line EXCEPT !.word = Front(@)]
    /\ in_completion' = "NORMAL" /\ new_nick' = None
    /\ UNCHANGED <<tabkey_array, channel, input_lastmsg, sucks, cleared>>

\* A mutant: the state of the completion outlives the line.
SentAs(tabs) ==
    /\ tabkey_array' = tabs
    /\ line' = Blank
    /\ input_lastmsg' = None /\ new_nick' = None /\ cleared' = FALSE
    /\ UNCHANGED <<in_completion, channel, sucks>>

(* send_line, with a line that leaves this list of nicks.                  *)
Sent(tabs) ==
    /\ tabkey_array' = tabs
    /\ line' = Blank
    /\ input_lastmsg' = None /\ new_nick' = None /\ in_completion' = "NORMAL"
    /\ cleared' = FALSE
    /\ UNCHANGED <<channel, sucks>>

\* A mutant: a nick that is listed is entered again.
AddedAgain(nick) == IF Len(tabkey_array) > MaxTabs THEN tabkey_array ELSE <<nick>> \o tabkey_array

(* The latest nick comes first, and once (addtabkey).                      *)
AddTabKey(nick) == <<nick>> \o SelectSeq(tabkey_array, LAMBDA n : n # nick)

Room(nick) == nick \in ToSet(tabkey_array) \/ Len(tabkey_array) < MaxTabs

(* /MSG enters its nick, /CLEARTAB drops all.                              *)
SendLine ==
    \/ Sent(tabkey_array)
    \/ \E nick \in Nicks : line.cmd /\ line.word = nick /\ Room(nick) /\ Sent(AddTabKey(nick))
    \/ Sent(<<>>)

(* A message arrives, whatever is on the line.                             *)
Message ==
    /\ \E nick \in Nicks : Room(nick) /\ tabkey_array' = AddTabKey(nick)
    /\ UNCHANGED <<channel, line, in_completion, new_nick, input_lastmsg, sucks, cleared>>

(* /CLEARTAB from a key or a timer: the line and what was offered stay.    *)
ClearTab ==
    /\ tabkey_array' = <<>>
    /\ cleared' = TRUE
    /\ UNCHANGED <<channel, line, in_completion, new_nick, input_lastmsg, sucks>>

(* gettabkey turns the list: the first nick is given and goes to the end.  *)
GetTabKey == Append(Tail(tabkey_array), Head(tabkey_array))

IgnoreLastNick ==
    /\ tabkey_array # <<>>
    /\ tabkey_array' = GetTabKey
    /\ line' = [cmd |-> TRUE, word |-> Head(tabkey_array)]
    /\ UNCHANGED <<channel, in_completion, new_nick, input_lastmsg, sucks, cleared>>

(* Someone joins or leaves the channel, or the window shows another one.   *)
ChannelChanges ==
    /\ \E set \in SUBSET Nicks : channel' = SetToSeq(set)
    /\ UNCHANGED <<tabkey_array, line, in_completion, new_nick, input_lastmsg, sucks, cleared>>

Init ==
    /\ tabkey_array = <<>> /\ channel = <<>> /\ line = Blank
    /\ in_completion = "NORMAL" /\ new_nick = None /\ input_lastmsg = None /\ sucks = None
    /\ cleared = FALSE

Next ==
    \/ InputMsgreply \/ NickCompletion \/ Type \/ InputAddCharacter \/ InputBackspace
    \/ SendLine \/ Message \/ ClearTab \/ IgnoreLastNick \/ ChannelChanges

Spec == Init /\ [][Next]_vars

----------------------------------------------------------------------------
TypeOK ==
    /\ ToSet(tabkey_array) \cup ToSet(channel) \subseteq Nicks
    /\ in_completion \in States

(* While the tab key goes through the nicks of messages, the one it        *)
(* offered last is one of them, once: from there it goes on, though nicks  *)
(* are entered and lines sent in between (addtabkey, getnextnick,          *)
(* send_line).  The exception is a list cleared without sending the line.  *)
OfferedIsListed ==
    /\ \A i, j \in DOMAIN tabkey_array : tabkey_array[i] = tabkey_array[j] => i = j
    /\ in_completion = "TABKEY" /\ ~cleared => input_lastmsg \in ToSet(tabkey_array)
=============================================================================
