------------------------------- MODULE Whowas -------------------------------
(***************************************************************************)
(* Who has left: the table of users that have left the channels (whowas.c  *)
(* and the second half of hash.c), the copies kept of those that left in a *)
(* split, the servers that are split (misc.c), the channels the user has   *)
(* left, and the clean up of every minute.                                 *)
(*                                                                         *)
(* A nick_list is allocated when a user is first seen on a channel, moves  *)
(* to the table when the user leaves and back to the channel when one with *)
(* the same user@host comes back: it always has one owner, which frees it. *)
(* The lists are one chain per bucket of the hash.                         *)
(***************************************************************************)
EXTENDS Integers, SequencesExt

CONSTANTS
    Nicks,      \* the other users
    Host,       \* per nickname, its user@host
    Channels,
    Servers,    \* the servers that split
    Bucket,     \* per user@host (or Unknown) and channel: hash_userhost_channel
    RegMax,     \* whowas_reg_max
    ChanMax,    \* whowas_chan_max
    RegAge,     \* minutes after which clean_whowas_list forgets: of those that left,
    SplitAge,   \* of those that split,
    ChanAge,    \* and of channels
    MaxNodes,   \* bound on the nick_lists allocated
    MaxCount,   \* bound on whowas_reg_count
    MaxSplit    \* bound on the copies in one bucket

Unknown == "<UNKNOWN>"
None == "none"    \* no server
Hosts == {Host[n] : n \in Nicks} \cup {Unknown}
Buckets == {Bucket[h, c] : h \in Hosts, c \in Channels}

HostsAssumption == Unknown \notin {Host[n] : n \in Nicks} /\ None \notin Servers
BucketAssumption == Bucket \in [Hosts \X Channels -> Nat]
LimitsAssumption == {RegMax, ChanMax, RegAge, SplitAge, ChanAge} \subseteq Nat \ {0}

VARIABLES
    node,               \* the nick_lists allocated: nick, host
    chan_list,          \* per channel the user is on, its nick_lists
    reg,                \* whowas_reg_list: per bucket, node, channel, age
    whowas_reg_count,
    splitin,            \* whowas_splitin_list: per bucket, host, channel, server, age
    split_link,         \* servers that are split
    whowas_chan         \* whowas_chan_list: channel, age

vars == <<node, chan_list, reg, whowas_reg_count, splitin, split_link, whowas_chan>>

Nodes == 1..MaxNodes
Unused == Nodes \ DOMAIN node

----------------------------------------------------------------------------
(* The table.  s is a record of the variables above.                       *)

State == [node |-> node, chan_list |-> chan_list, reg |-> reg, count |-> whowas_reg_count,
          splitin |-> splitin, split_link |-> split_link, whowas_chan |-> whowas_chan]

Becomes(s) ==
    /\ node' = s.node /\ chan_list' = s.chan_list /\ reg' = s.reg /\ whowas_reg_count' = s.count
    /\ splitin' = s.splitin /\ split_link' = s.split_link /\ whowas_chan' = s.whowas_chan

Freed(nodes, ids) == [i \in DOMAIN nodes \ ids |-> nodes[i]]
HostOf(s, entry) == s.node[entry.node].host
Found(hosts, h, chain, c) == {i \in DOMAIN chain : hosts[i] = h /\ chain[i].channel = c}

(* find_userhost_channel: the first of the chain with that user@host and   *)
(* channel, or 0.                                                          *)
FindUserhostChannel(s, h, c) ==
    LET chain == s.reg[Bucket[h, c]]
        found == Found([i \in DOMAIN chain |-> HostOf(s, chain[i])], h, chain, c)
    IN  IF found = {} THEN 0 ELSE CHOOSE i \in found : \A j \in found : i <= j

Unlinked(s, h, c) ==
    [s EXCEPT !.reg[Bucket[h, c]] = RemoveAt(@, FindUserhostChannel(s, h, c))]

(* An entry is freed with its nick_list.  Entries with the user@host and   *)
(* channel of an old one that are before it in the chain go with it: the   *)
(* one removed is the first that is found.                                 *)
Dies(s, b, limit, i) ==
    \E j \in i..Len(s.reg[b]) :
        /\ s.reg[b][j].age >= limit
        /\ HostOf(s, s.reg[b][j]) = HostOf(s, s.reg[b][i])
        /\ s.reg[b][j].channel = s.reg[b][i].channel

Erased(s, erased) ==
    LET gone == UNION {{s.reg[b][i].node : i \in erased[b]} : b \in Buckets}
        total == Cardinality(gone)
        Kept(b, i) == i \notin erased[b]
        chain(b) == [i \in DOMAIN s.reg[b] |-> [s.reg[b][i] EXCEPT !.age = IF Kept(b, i) THEN @ ELSE -1]]
    IN  [s EXCEPT !.node = Freed(@, gone), !.count = @ - total,
                  !.reg = [b \in Buckets |-> SelectSeq(chain(b), LAMBDA e : e.age >= 0)]]

RemoveOlder(s, limit) ==
    Erased(s, [b \in Buckets |-> {i \in DOMAIN s.reg[b] : Dies(s, b, limit, i)}])

(* The first ones, in the order of the buckets: not the oldest ones.       *)
RemoveCount(s, count) ==
    LET Before(b, i) == {<<d, j>> \in Buckets \X (1..MaxNodes) :
                             j \in DOMAIN s.reg[d] /\ (d < b \/ (d = b /\ j < i))}
    IN  Erased(s, [b \in Buckets |-> {i \in DOMAIN s.reg[b] :
                                          count < 0 \/ Cardinality(Before(b, i)) < count}])

(* remove_oldest_whowas_hashlist: a count of 0 asks for those older than   *)
(* the time given, and a negative one never reaches 0.                     *)
RemoveOldest(s, limit, count) ==
    IF count = 0 THEN RemoveOlder(s, limit) ELSE RemoveCount(s, count)

AddToWhowasBuffer(s, id, c) ==
    LET t == IF s.count >= RegMax THEN RemoveOldest(s, 0, RegMax + 1 - s.count) ELSE s
        entry == [node |-> id, channel |-> c, age |-> 0]
    IN  [t EXCEPT !.reg[Bucket[t.node[id].host, c]] = <<entry>> \o @, !.count = @ + 1]


(* A mutant: the entry stays in the table.                                 *)
LeftInTable(s, h, c) == s

(* check_whowas_buffer with unlnk: whowas_reg_count is not told.           *)
CheckWhowasBuffer(s, h, c) == Unlinked(s, h, c)

(* remove_from_channel for one channel: the user goes to the table and, in *)
(* a split, a copy to the other one, with the server that split.           *)
AddToWhosplitinBuffer(s, id, c, server) ==
    LET h == s.node[id].host
    IN  [s EXCEPT !.splitin[Bucket[h, c]] =
            <<[host |-> h, channel |-> c, server |-> server, age |-> 0]>> \o @]

RemoveFromChannel(s, id, c, server) ==
    LET t == [AddToWhowasBuffer(s, id, c) EXCEPT !.chan_list[c] = @ \ {id}]
    IN  IF server = None THEN t ELSE AddToWhosplitinBuffer(t, id, c, server)

(* clear_channel, one user after the other, and the channel goes to the    *)
(* list of channels, which makes room first.                               *)
ClearChannel(s, c) ==
    FoldSet(LAMBDA id, t : RemoveFromChannel(t, id, c, None), s, s.chan_list[c])

AddToWhowasChanBuffer(s, c) ==
    LET chans == s.whowas_chan
        room == IF Len(chans) >= ChanMax THEN SubSeq(chans, Len(chans) - ChanMax + 2, Len(chans)) ELSE chans
    IN  [s EXCEPT !.whowas_chan = Append(room, [channel |-> c, age |-> 0])]

RemoveChannel(s, c) ==
    LET t == ClearChannel(s, c)
    IN  AddToWhowasChanBuffer([t EXCEPT !.chan_list = [d \in DOMAIN @ \ {c} |-> @[d]]], c)

----------------------------------------------------------------------------
(* What comes from the server.                                             *)

On(n, c) == {i \in chan_list[c] : node[i].nick = n}

(* p_channel for the user: add_channel takes the channel from the list of  *)
(* those left.                                                             *)
JoinMe(c) ==
    /\ c \notin DOMAIN chan_list
    /\ chan_list' = [d \in DOMAIN chan_list \cup {c} |-> IF d = c THEN {} ELSE chan_list[d]]
    /\ LET left == SelectInSeq(whowas_chan, LAMBDA w : w.channel = c)
       IN  whowas_chan' = IF left = 0 THEN whowas_chan ELSE RemoveAt(whowas_chan, left)
    /\ UNCHANGED <<node, reg, whowas_reg_count, splitin, split_link>>

(* add_to_channel: a new nick_list, or that of one that left the channel   *)
(* with the user@host; a name in the list of names has none.               *)
AddToChannel(s, n, h, c) ==
    LET i == FindUserhostChannel(s, h, c)
        id == IF i = 0 THEN CHOOSE x \in Unused : TRUE ELSE s.reg[Bucket[h, c]][i].node
        t == IF i = 0 THEN [s EXCEPT !.node = [x \in DOMAIN @ \cup {id} |->
                                                   IF x = id THEN [nick |-> n, host |-> h] ELSE @[x]]]
                      ELSE [CheckWhowasBuffer(s, h, c) EXCEPT !.node[id].nick = n]
    IN  [t EXCEPT !.chan_list[c] = @ \cup {id}]

Name(n, c) ==
    /\ c \in DOMAIN chan_list /\ On(n, c) = {} /\ Unused # {}
    /\ Becomes(AddToChannel(State, n, Unknown, c))

(* The answer to WHO tells the user@host of a user on the channel.         *)
Who(n, c) ==
    /\ c \in DOMAIN chan_list
    /\ \E id \in On(n, c) : /\ node[id].host = Unknown
                            /\ node' = [node EXCEPT ![id].host = Host[n]]
    /\ UNCHANGED <<chan_list, reg, whowas_reg_count, splitin, split_link, whowas_chan>>

MovedToTop(chain, i) == <<chain[i]>> \o RemoveAt(chain, i)
AddSplitServer(s, server) == [s EXCEPT !.split_link = @ \cup {server}]
RemoveSplitServer(s, server) == [s EXCEPT !.split_link = @ \ {server}]

(* p_channel for another: one that left in a split and comes back, or any  *)
(* with the same user@host, ends the split of the server.                  *)
Join(n, c) ==
    /\ c \in DOMAIN chan_list /\ On(n, c) = {} /\ Unused # {}
    /\ LET s == AddToChannel(State, n, Host[n], c)
           b == Bucket[Host[n], c]
           i == SelectInSeq(splitin[b], LAMBDA e : e.host = Host[n] /\ e.channel = c)
       IN  Becomes(IF i = 0 THEN s
                   ELSE RemoveSplitServer([s EXCEPT !.splitin[b] = MovedToTop(@, i)], splitin[b][i].server))

(* p_part, p_kick: of another.                                             *)
Leave(n, c) ==
    /\ c \in DOMAIN chan_list /\ whowas_reg_count < MaxCount
    /\ \E id \in On(n, c) : Becomes(RemoveFromChannel(State, id, c, None))

(* p_quit: from every channel, in a split or not.                          *)
Quit(n, server) ==
    /\ whowas_reg_count < MaxCount
    /\ \E c \in DOMAIN chan_list : On(n, c) # {}
    /\ server # None => \A b \in Buckets : Len(splitin[b]) < MaxSplit
    /\ LET s == IF server = None THEN State ELSE AddSplitServer(State, server)
           Step(c, t) == FoldSet(LAMBDA id, u : RemoveFromChannel(u, id, c, server), t, On(n, c))
       IN  Becomes(FoldSet(Step, s, DOMAIN chan_list))

(* p_nick: rename_nick keeps the nick_list.  The new one has another host, *)
(* so only a user whose clone is away takes its name.                      *)
Rename(n, m) ==
    /\ Host[n] = Host[m] /\ n # m
    /\ \E c \in DOMAIN chan_list : On(n, c) # {}
    /\ \A c \in DOMAIN chan_list : On(m, c) = {}
    /\ node' = [i \in DOMAIN node |-> IF \E c \in DOMAIN chan_list : i \in On(n, c)
                                      THEN [node[i] EXCEPT !.nick = m] ELSE node[i]]
    /\ UNCHANGED <<chan_list, reg, whowas_reg_count, splitin, split_link, whowas_chan>>

(* p_part, p_kick: the user leaves; close_server: clear_channel_list.      *)
PartMe(c) ==
    /\ c \in DOMAIN chan_list /\ whowas_reg_count < MaxCount
    /\ Becomes(RemoveChannel(State, c))

ConnectionLost ==
    /\ DOMAIN chan_list # {} /\ whowas_reg_count < MaxCount
    /\ Becomes(FoldSet(LAMBDA c, t : RemoveChannel(t, c), State, DOMAIN chan_list))

(* A minute passes: clean_whowas_chan_list and clean_whowas_list.          *)
Older(chain) == [i \in DOMAIN chain |-> [chain[i] EXCEPT !.age = @ + 1]]
Younger(chain, limit) == SelectSeq(chain, LAMBDA e : e.age < limit)

Clean(s) ==
    [(IF s.count # 0 THEN RemoveOldest(s, RegAge, 0) ELSE s)
        EXCEPT !.splitin = [b \in Buckets |-> Younger(s.splitin[b], SplitAge)],
               !.whowas_chan = Younger(s.whowas_chan, ChanAge)]

Minute ==
    Becomes(Clean([State EXCEPT !.reg = [b \in Buckets |-> Older(reg[b])],
                                !.splitin = [b \in Buckets |-> Older(splitin[b])],
                                !.whowas_chan = Older(whowas_chan)]))

Init ==
    /\ node = [i \in {} |-> {}] /\ chan_list = [c \in {} |-> {}]
    /\ reg = [b \in Buckets |-> <<>>] /\ whowas_reg_count = 0
    /\ splitin = [b \in Buckets |-> <<>>] /\ split_link = {}
    /\ whowas_chan = <<>>

Next ==
    \/ Minute \/ ConnectionLost
    \/ \E c \in Channels : JoinMe(c) \/ PartMe(c)
    \/ \E n \in Nicks, c \in Channels : Name(n, c) \/ Who(n, c) \/ Join(n, c) \/ Leave(n, c)
    \/ \E n, m \in Nicks : Rename(n, m)
    \/ \E n \in Nicks, server \in Servers \cup {None} : Quit(n, server)

Spec == Init /\ [][Next]_vars

----------------------------------------------------------------------------
(* Properties.                                                             *)

Entries == {<<b, i>> \in Buckets \X Nodes : i \in DOMAIN reg[b]}

TypeOK ==
    /\ DOMAIN node \subseteq Nodes /\ \A i \in DOMAIN node : node[i] \in [nick : Nicks, host : Hosts]
    /\ DOMAIN chan_list \subseteq Channels
    /\ reg \in [Buckets -> Seq([node : Nodes, channel : Channels, age : 0..RegAge])]
    /\ whowas_reg_count \in Nat
    /\ splitin \in [Buckets -> Seq([host : Hosts, channel : Channels, server : Servers, age : 0..SplitAge])]
    /\ split_link \subseteq Servers
    /\ whowas_chan \in Seq([channel : Channels, age : 0..ChanAge]) /\ Len(whowas_chan) <= ChanMax

(* A nick_list is on one channel or in the table once, the lists point to  *)
(* none that is freed, and none is lost: whoever leaves, comes back under  *)
(* the same user@host, is renamed or forgotten.                            *)
OneOwner ==
    /\ \A i \in DOMAIN node :
           Cardinality({c \in DOMAIN chan_list : i \in chan_list[c]})
               + Cardinality({e \in Entries : reg[e[1]][e[2]].node = i}) = 1
    /\ UNION {chan_list[c] : c \in DOMAIN chan_list} \subseteq DOMAIN node
    /\ \A e \in Entries : reg[e[1]][e[2]].node \in DOMAIN node

(* The table stays within whowas_reg_max although whowas_reg_count, which  *)
(* is what is compared with it, does not know of those that came back; it  *)
(* is never below the number of entries, so the clean up, which a count of *)
(* 0 stops, forgets everybody in time.                                     *)
TableBounded ==
    /\ Cardinality(Entries) <= RegMax
    /\ Cardinality(Entries) <= whowas_reg_count
    /\ \A e \in Entries : reg[e[1]][e[2]].age < RegAge

=============================================================================
