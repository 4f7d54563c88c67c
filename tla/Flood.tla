-------------------------------- MODULE Flood --------------------------------
(***************************************************************************)
(* The two ways flood.c has of counting.  check_flooding keeps a hash      *)
(* table of those who sent something, which has a limit and is cleaned     *)
(* every minute; is_other_flood keeps counters in the nick list of a       *)
(* channel.  Times are kept as ages, up to Aged, an age at which no rate   *)
(* is too high any more.                                                   *)
(***************************************************************************)
EXTENDS Integers, SequencesExt

CONSTANTS
    Senders,       \* nicknames
    Bucket,        \* per nickname, its place in the table (hash_nickname)
    FloodUsers,    \* /SET FLOOD_USERS
    FloodAfter,    \* per type, FLOOD_AFTER or DCC_FLOOD_AFTER
    FloodRate,     \* per type, FLOOD_RATE or DCC_FLOOD_RATE
    OtherCount,    \* per type, KICK_ON_PUBFLOOD, KICK_ON_NICKFLOOD, KICK_ON_KICKFLOOD
    OtherRate,     \* per type, PUBFLOOD_TIME, NICKFLOOD_TIME, KICKFLOOD_TIME
    Aged,          \* bound on the ages
    MaxCount       \* bound on the counts

Buckets == {Bucket[n] : n \in Senders}
OtherTypes == DOMAIN OtherCount

FloodTypes == {"MSG", "NOTICE", "CTCP", "ACTION", "INVITE", "WALLOP"}

BucketAssumption == Bucket \in [Senders -> Nat]
FloodAssumption ==
    /\ FloodUsers \in Nat \ {0} /\ Aged \in Nat /\ MaxCount \in Nat \ {0}
    /\ FloodAfter \in [FloodTypes -> Nat] /\ FloodRate \in [FloodTypes -> Nat]
    /\ FloodRate["MSG"] < Aged
    /\ \A type \in FloodTypes : MaxCount * FloodRate[type] <= FloodAfter[type] * Aged
    /\ \A type \in OtherTypes : /\ OtherCount[type] \in 0..MaxCount
                                 /\ OtherRate[type] \in 0..Aged

----------------------------------------------------------------------------
(* The table: per bucket a sequence of entries.                            *)

Entries(table) == UNION {ToSet(table[b]) : b \in Buckets}

Listed(table, nick) == \E e \in Entries(table) : e.name = nick

Unlinked(chain, nick) == RemoveFirstMatch(chain, LAMBDA e : e.name = nick)

(* An entry that is found, and one that is added, comes first.             *)
Put(table, entry) == [table EXCEPT ![Bucket[entry.name]] = <<entry>> \o Unlinked(@, entry.name)]

EntryOf(table, nick) == CHOOSE e \in Entries(table) : e.name = nick

(* remove_oldest_flood_hashlist with a time: those as old as it.           *)
Younger(chain, age) ==
    LET kept[i \in 0..Len(chain)] ==
            IF i = 0 THEN <<>>
            ELSE IF chain[i].age < age THEN Append(kept[i - 1], chain[i]) ELSE kept[i - 1]
    IN kept[Len(chain)]

RemoveAged(table, age) == [b \in Buckets |-> Younger(table[b], age)]

(* With a count that is not 0: the first entry of a bucket, which cuts the *)
(* link to the next one, for as many buckets as the count says, or for all *)
(* when it is negative.                                                    *)
RemoveSome(table, count) ==
    LET filled == {b \in Buckets : table[b] # <<>>}
        Hit(b) == b \in filled /\ (count < 0 \/ Cardinality({c \in filled : c < b}) < count)
    IN [b \in Buckets |-> IF Hit(b) THEN Tail(table[b]) ELSE table[b]]

(* Mutant: the place that is freed is not asked for.                       *)
RemoveNone(table, count) == table

RemoveOldest(table, count) == IF count = 0 THEN RemoveAged(table, 0) ELSE RemoveSome(table, count)

Size(table) == Cardinality(Entries(table))

(* check_flooding.  answer is its result; flooded says that flood_prot is  *)
(* called, whose result decides the answer.                                *)
Answer(table, pos, flooded) == [list |-> table, pos |-> pos, flooded |-> flooded]

NewEntry(nick, type) == [name |-> nick, type |-> {type}, cnt |-> 1, age |-> 0, flood |-> FALSE]

NewSender(table, pos, nick, type) ==
    LET room == IF pos >= FloodUsers THEN RemoveOldest(table, FloodUsers + 1 - pos) ELSE table
    IN Answer(Put(room, NewEntry(nick, type)), pos - (Size(table) - Size(room)) + 1, FALSE)

Restarted(entry) == [entry EXCEPT !.flood = FALSE, !.cnt = 1, !.age = 0]

(* Mutant: the rate that is allowed is too fast.                            *)
AtTheRate(entry, type) ==
    entry.age = 0 \/ entry.cnt * FloodRate[type] >= FloodAfter[type] * entry.age

TooFast(entry, type) ==
    entry.age = 0 \/ entry.cnt * FloodRate[type] > FloodAfter[type] * entry.age

Counted(table, pos, nick, type) ==
    LET e == [EntryOf(table, nick) EXCEPT !.cnt = @ + 1]
    IN IF e.cnt <= FloodAfter[type] THEN Answer(Put(table, e), pos, FALSE)
       ELSE IF TooFast(e, type)
            THEN Answer(Put(table, [e EXCEPT !.flood = TRUE]), pos, ~e.flood)
            ELSE Answer(Put(table, Restarted(e)), pos, FALSE)

(* A type with a count or a rate of 0 is not looked at.                    *)
CheckFlooding(table, pos, nick, type) ==
    LET e == EntryOf(table, nick)
    IN IF ~Listed(table, nick) THEN NewSender(table, pos, nick, type)
       ELSE IF type \notin e.type
            THEN Answer(Put(table, [e EXCEPT !.type = @ \cup {type}]), pos, FALSE)
       ELSE IF FloodAfter[type] = 0 \/ FloodRate[type] = 0
            THEN Answer(Put(table, e), pos, FALSE)
       ELSE Counted(table, pos, nick, type)

(* clean_flood_list does not tell pos.                                     *)
CleanFloodList(table) == RemoveAged(table, FloodRate["MSG"] + 1)

----------------------------------------------------------------------------
(* is_other_flood and set_flood, for the counters of one nick: count and   *)
(* age.  After a flood the time is 0, long ago.                            *)
IsOtherFlood(counter, type) ==
    LET count == counter.count + 1
        flooded == counter.age = 0 \/ (OtherRate[type] # 0 /\ counter.age < OtherRate[type])
    IN IF count < OtherCount[type]
       THEN [counter |-> [counter EXCEPT !.count = count], flooded |-> FALSE]
       ELSE [counter |-> [count |-> 1, age |-> IF flooded THEN Aged ELSE 0], flooded |-> flooded]

Older(age) == IF age < Aged THEN age + 1 ELSE Aged
=============================================================================
