------------------------------ MODULE OrigNick -----------------------------
(***************************************************************************)
(* Getting a nickname back that somebody else has (cmd_orignick.c): the    *)
(* server is asked who has it, a timer asks again, and the nick is taken   *)
(* as soon as nobody has it, or when its owner is seen to leave.           *)
(***************************************************************************)
EXTENDS Integers, SequencesExt

CONSTANTS
    Nicks,       \* the nicks the user may want back
    Repeats,     \* TRUE if ORIGNICK_TIME > 0
    MaxAsked     \* bound on the questions and timers of a behaviour

RepeatsAssumption == Repeats \in BOOLEAN
MaxAskedAssumption == MaxAsked \in Nat \ {0}

NoNick == "none"
NicksAssumption == NoNick \notin Nicks

VARIABLES
    org_nick,     \* the nick wanted, or NoNick
    queue,        \* the userhost queue: the nicks that were asked about
    answers,      \* the answers on their way, the first queue entries'
    timers,       \* the number of delay_gain_nick timers
    connected,
    owned,        \* the nicks that others have
    kept,         \* history: the connection lasts since the nick is wanted
    sent          \* the NICK that was sent by the last step

vars == <<org_nick, queue, answers, timers, connected, owned, kept, sent>>

----------------------------------------------------------------------------

Ask(nick) == queue' = Append(queue, nick)

ChangeOrigNick == sent' = org_nick /\ org_nick' = NoNick

(* /ORIGNICK nick.                                                         *)
CmdOrigNick(nick) ==
    /\ connected /\ Len(queue) + timers < MaxAsked
    /\ IF nick = org_nick THEN UNCHANGED <<org_nick, queue, kept>>
       ELSE org_nick' = nick /\ Ask(nick) /\ kept' = TRUE
    /\ sent' = NoNick
    /\ UNCHANGED <<answers, timers, connected, owned>>

(* /ORIGNICK -: the timer and the questions go on.                         *)
CmdOrigNickNot ==
    /\ org_nick' = NoNick /\ sent' = NoNick
    /\ UNCHANGED <<queue, answers, timers, connected, owned, kept>>

(* A mutant: the nick is asked about once.                                 *)
AsksOnce == FALSE

AddsTimer == Repeats

(* The answer, whichever nick it is about.                                 *)
GainNick ==
    /\ answers # <<>>
    /\ queue' = Tail(queue) /\ answers' = Tail(answers)
    /\ IF org_nick = NoNick THEN sent' = NoNick /\ UNCHANGED <<org_nick, timers>>
       ELSE IF Head(answers) = "unknown" THEN ChangeOrigNick /\ UNCHANGED timers
       ELSE /\ timers' = IF AddsTimer THEN timers + 1 ELSE timers
            /\ sent' = NoNick /\ UNCHANGED org_nick
    /\ UNCHANGED <<connected, owned, kept>>

(* The timer asks about the nick that is wanted now.                       *)
DelayGainNick ==
    /\ timers > 0 /\ timers' = timers - 1
    /\ IF org_nick # NoNick /\ connected THEN Ask(org_nick) ELSE UNCHANGED queue
    /\ sent' = NoNick
    /\ UNCHANGED <<org_nick, answers, connected, owned, kept>>

(* A mutant: the nick of whoever leaves is taken.                          *)
AnyNick(nick) == org_nick # NoNick

IsWanted(nick) == nick = org_nick

(* Somebody is seen to leave: check_orig_nick.                             *)
PQuit(nick) ==
    /\ connected /\ nick \in owned
    /\ owned' = owned \ {nick}
    /\ IF IsWanted(nick) THEN ChangeOrigNick ELSE sent' = NoNick /\ UNCHANGED org_nick
    /\ UNCHANGED <<queue, answers, timers, connected, kept>>

(* The server answers, and the nicks come and go unseen.                   *)
Answer ==
    /\ connected /\ Len(answers) < Len(queue)
    /\ answers' = Append(answers,
                    IF queue[Len(answers) + 1] \in owned THEN "owned" ELSE "unknown")
    /\ sent' = NoNick
    /\ UNCHANGED <<org_nick, queue, timers, connected, owned, kept>>

Unseen(nick) ==
    /\ owned' = IF nick \in owned THEN owned \ {nick} ELSE owned \cup {nick}
    /\ sent' = NoNick
    /\ UNCHANGED <<org_nick, queue, answers, timers, connected, kept>>

(* The connection ends, and with it the queue; it is made again.           *)
CloseServer ==
    /\ connected
    /\ connected' = FALSE /\ queue' = <<>> /\ answers' = <<>>
    /\ kept' = FALSE /\ sent' = NoNick
    /\ UNCHANGED <<org_nick, timers, owned>>

Reconnect ==
    /\ ~connected /\ connected' = TRUE /\ sent' = NoNick
    /\ UNCHANGED <<org_nick, queue, answers, timers, owned, kept>>

Init ==
    /\ org_nick = NoNick /\ queue = <<>> /\ answers = <<>> /\ timers = 0
    /\ connected = TRUE /\ owned \in SUBSET Nicks /\ kept = TRUE /\ sent = NoNick

Program == GainNick \/ DelayGainNick

Next ==
    \/ \E nick \in Nicks : CmdOrigNick(nick) \/ PQuit(nick) \/ Unseen(nick)
    \/ CmdOrigNickNot \/ Program \/ Answer \/ CloseServer \/ Reconnect

Spec == Init /\ [][Next]_vars

(* The server answers, the timers expire and the lines are read.           *)
FairSpec == Spec /\ WF_vars(Program) /\ WF_vars(Answer)

----------------------------------------------------------------------------
(* Properties.                                                             *)

TypeOK ==
    /\ org_nick \in Nicks \cup {NoNick} /\ sent \in Nicks \cup {NoNick}
    /\ queue \in Seq(Nicks) /\ answers \in Seq({"owned", "unknown"})
    /\ Len(answers) <= Len(queue) /\ timers \in 0..MaxAsked
    /\ {connected, kept} \subseteq BOOLEAN /\ owned \subseteq Nicks

(* As long as the connection lasts, a nick that is wanted is asked about   *)
(* again, although every answer and every timer may be one of another nick *)
(* that was wanted before.                                                 *)
KeepsAsking == (org_nick # NoNick /\ kept /\ Repeats) => (queue # <<>> \/ timers > 0)

(* The nick of a user who leaves is taken back, or was not wanted: a nick  *)
(* is asked for only when it is the one wanted.                            *)
TakesWanted ==
    sent' # NoNick => /\ sent' = org_nick
                      /\ (UNCHANGED queue => sent' \in owned \ owned')
=============================================================================
