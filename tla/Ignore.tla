-------------------------------- MODULE Ignore --------------------------------
(***************************************************************************)
(* The ignore list: ignore.c, with the look-ups of list.c.  An entry is    *)
(* known by its mask.  wild_match counts the characters that a mask gives  *)
(* itself, and find_in_list takes the entry with the greatest count, so a  *)
(* list is a function from masks, and the constant Masks gives their order.*)
(***************************************************************************)
EXTENDS Integers, SequencesExt

CONSTANTS
    Masks,        \* a sequence: the masks, those that match the longest first
    Matching,     \* pairs of a mask and a name (of a user or a channel) it matches
    IgnoreTypes   \* IGNORE_ALL, as a set

(* What /IGNORE and its prefixes - ^ + % ask for.                          *)
Ways == {"REMOVE", "DONT", "HIGH", "CGREP", "IGNORE"}

NewIgnore == [type |-> {}, dont |-> {}, high |-> {}, cgrep |-> {}, except |-> {}]

(* One of the four sets gets the types and the others lose them.           *)
Switched(entry, types, way) ==
    [entry EXCEPT !.dont  = IF way = "DONT"   THEN @ \cup types ELSE @ \ types,
                  !.high  = IF way = "HIGH"   THEN @ \cup types ELSE @ \ types,
                  !.cgrep = IF way = "CGREP"  THEN @ \cup types ELSE @ \ types,
                  !.type  = IF way = "IGNORE" THEN @ \cup types ELSE @ \ types]

With(list, mask, entry) ==
    [m \in DOMAIN list \cup {mask} |-> IF m = mask THEN entry ELSE list[m]]

Without(list, mask) == [m \in DOMAIN list \ {mask} |-> list[m]]

(* remove_ignore.  The second look-up, by wildcards, removes by name too   *)
(* and so finds nothing that the first has not found.                      *)
RemoveIgnore(list, mask) == Without(list, mask)

IgnoreNickname(list, mask, types, way) ==
    LET entry == IF mask \in DOMAIN list THEN list[mask] ELSE NewIgnore
    IN CASE way = "REMOVE" /\ mask \notin DOMAIN list -> list
         [] way = "REMOVE" /\ types = IgnoreTypes     -> RemoveIgnore(list, mask)
         [] OTHER -> With(list, mask, Switched(entry, types, way))

(* ignore_exception, for the entry that the same command has changed.      *)
IgnoreException(list, mask, name) ==
    [list EXCEPT ![mask].except = @ \cup {name}]

(* add_channel_grep: an entry that is there already stays as it is.        *)
AddChannelGrep(list, channel, types) ==
    IF channel \in DOMAIN list THEN list
    ELSE With(list, channel, Switched(NewIgnore, types, "CGREP"))

(* find_in_list with wildcards: the masks that match, the best one first.  *)
BestMatch(list, name) ==
    SelectSeq(Masks, LAMBDA m : m \in DOMAIN list /\ <<m, name>> \in Matching)

(* The sets of an entry are disjoint.                                      *)
Verdict(entry, type) ==
    CASE type \in entry.dont -> "DONT_IGNORE"
      [] type \in entry.type -> "IGNORED"
      [] type \in entry.high -> "HIGHLIGHTED"
      [] OTHER -> "undecided"

(* check_ignore.  found: the text has one of the words looked for.         *)
CheckIgnore(list, sender, channel, type, found) ==
    LET user == BestMatch(list, sender)
        chan == BestMatch(list, channel)
        personal == IF user = <<>> THEN "undecided"
                    ELSE IF sender \in list[user[1]].except THEN "DONT_IGNORE"
                    ELSE Verdict(list[user[1]], type)
        public == IF chan = <<>> THEN "undecided" ELSE Verdict(list[chan[1]], type)
    IN IF personal # "undecided" THEN personal
       ELSE IF public # "undecided" THEN public
       ELSE IF chan # <<>> /\ type \in list[chan[1]].cgrep /\ ~found
            THEN "IGNORED" ELSE "DONT_IGNORE"
===============================================================================
