------------------------------- MODULE Notify ------------------------------
(***************************************************************************)
(* The notify lists (notify.c) on the lists of list.c: every server has a  *)
(* list of its own of the same nicks, and a nick is marked when a message  *)
(* of the primary server shows it on irc.  Refnum i of the code is i + 1.  *)
(***************************************************************************)
EXTENDS Integers, SequencesExt

CONSTANTS
    Nicks,         \* numbers, in the order of strcasecmp
    MaxServers     \* bound on the server list

NicksAssumption == Nicks \subseteq Nat
MaxServersAssumption == MaxServers \in Nat \ {0}

VARIABLES
    lists,      \* server_list[].notify_list
    primary,    \* primary_server
    saved       \* the NOTIFY lines of the file that /SAVE wrote

vars == <<lists, primary, saved>>

Entry == [nick : Nicks, flag : BOOLEAN]
NicksOf(list) == [i \in DOMAIN list |-> list[i].nick]

----------------------------------------------------------------------------
(* list.c.                                                                 *)

AddToList(list, e) ==
    LET before == {i \in DOMAIN list : \A j \in 1..i : list[j].nick <= e.nick}
    IN  InsertAt(list, Cardinality(before) + 1, e)

RemoveFromList(list, nick) ==
    LET found == {i \in DOMAIN list : list[i].nick = nick}
    IN  IF found = {} THEN list
        ELSE RemoveAt(list, CHOOSE i \in found : \A j \in found : i <= j)

FindInList(list, nick) == {i \in DOMAIN list : list[i].nick = nick}

----------------------------------------------------------------------------
(* /NOTIFY nick, /NOTIFY -nick and /NOTIFY -.  A nick that is on the list  *)
(* is replaced, and is not marked until it is seen again.                  *)

New(nick) == [nick |-> nick, flag |-> FALSE]

(* A mutant: only the list of the server in use is changed.                *)
AddHere(all, nick) ==
    [all EXCEPT ![1] = AddToList(RemoveFromList(@, nick), New(nick))]

AddEverywhere(all, nick) ==
    [s \in DOMAIN all |-> AddToList(RemoveFromList(all[s], nick), New(nick))]

CmdNotify(nick) ==
    /\ lists' = AddEverywhere(lists, nick)
    /\ UNCHANGED <<primary, saved>>

CmdNotifyRemove(nick) ==
    /\ lists' = [s \in DOMAIN lists |-> RemoveFromList(lists[s], nick)]
    /\ UNCHANGED <<primary, saved>>

CmdNotifyClear ==
    /\ lists' = [s \in DOMAIN lists |-> <<>>]
    /\ UNCHANGED <<primary, saved>>

(* A JOIN (flag), a QUIT, or a NICK of server s, which marks its old nick  *)
(* off and its new one on.                                                 *)
NotifyMark(list, nick, flag) ==
    [i \in DOMAIN list |-> IF i \in FindInList(list, nick)
                           THEN [list[i] EXCEPT !.flag = flag] ELSE list[i]]

Message(s, nick, flag) ==
    /\ s = primary
    /\ lists' = [lists EXCEPT ![s] = NotifyMark(@, nick, flag)]
    /\ UNCHANGED <<primary, saved>>

RenameNick(s, old, new) ==
    /\ s = primary
    /\ lists' = [lists EXCEPT ![s] = NotifyMark(NotifyMark(@, old, FALSE), new, TRUE)]
    /\ UNCHANGED <<primary, saved>>

----------------------------------------------------------------------------
(* The server list: a server that is added copies the list of the first,   *)
(* one that is deleted takes its list away.                                *)

Copy(list) == [i \in DOMAIN list |-> New(list[i].nick)]

(* A mutant: a server that is added starts with no nicks.                  *)
MadeEmpty(first) == <<>>

MakeNotifyList(first) == Copy(first)

AddServer ==
    /\ Len(lists) < MaxServers
    /\ lists' = Append(lists, IF lists = <<>> THEN <<>> ELSE MakeNotifyList(lists[1]))
    /\ UNCHANGED <<primary, saved>>

Connect(s) ==
    /\ primary' = s
    /\ UNCHANGED <<lists, saved>>

DeleteServer(s) ==
    /\ Len(lists) > 1 /\ s # primary
    /\ lists' = RemoveAt(lists, s)
    /\ primary' = IF s < primary THEN primary - 1 ELSE primary
    /\ UNCHANGED saved

----------------------------------------------------------------------------
(* /SAVE writes the list of the first server, ten nicks to a line, and the *)
(* next start reads it, once the servers of the list are known.            *)

SaveNotify ==
    /\ lists # <<>>
    /\ saved' = NicksOf(lists[1])
    /\ UNCHANGED <<lists, primary>>

(* A mutant: what is read replaces what was read before.                   *)
ReadTheLast(n) ==
    [s \in 1..n |-> IF saved = <<>> THEN <<>> ELSE <<New(saved[Len(saved)])>>]

ReadAll(n) == FoldLeft(AddEverywhere, [s \in 1..n |-> <<>>], saved)

Restart(n) ==
    /\ lists' = ReadAll(n) /\ primary' = 0
    /\ UNCHANGED saved

Init == lists = <<>> /\ primary = 0 /\ saved = <<>>

Next ==
    \/ \E nick \in Nicks : CmdNotify(nick) \/ CmdNotifyRemove(nick)
    \/ CmdNotifyClear
    \/ \E s \in DOMAIN lists :
           \/ \E nick \in Nicks, flag \in BOOLEAN : Message(s, nick, flag)
           \/ \E old, new \in Nicks : RenameNick(s, old, new)
           \/ Connect(s) \/ DeleteServer(s)
    \/ AddServer \/ SaveNotify
    \/ \E n \in 1..MaxServers : Restart(n)

Spec == Init /\ [][Next]_vars

----------------------------------------------------------------------------
(* Properties.                                                             *)

TypeOK ==
    /\ lists \in Seq(Seq(Entry)) /\ Len(lists) <= MaxServers
    /\ primary \in 0..Len(lists)
    /\ saved \in Seq(Nicks)

(* Whatever is added, removed, cleared, read from a file, connected or     *)
(* deleted, every server is watched for the same nicks, each listed once,  *)
(* in order: adding, removing and copying look at the lists one by one.    *)
SameEverywhere ==
    \A s \in DOMAIN lists :
        /\ NicksOf(lists[s]) = NicksOf(lists[1])
        /\ \A i, j \in DOMAIN lists[s] : i < j => lists[s][i].nick < lists[s][j].nick

(* The nicks that /SAVE wrote are watched after the next start.            *)
ReadsBack ==
    \A n \in 1..MaxServers : Restart(n) =>
        \A s \in 1..n : NicksOf(lists'[s]) = saved
=============================================================================
