------------------------------ MODULE History ------------------------------
(***************************************************************************)
(* The history of the lines the user has entered (history.c): a list with  *)
(* the latest first, no longer than HISTORY, a place in it for the arrow   *)
(* keys and another for the searches of !text.                             *)
(*                                                                         *)
(* A line is one of a few texts; a pointer to an entry is the number of    *)
(* the entry, Freed when the entry is no more.                             *)
(***************************************************************************)
EXTENDS Integers, Sequences, FiniteSets, SequencesExt

CONSTANTS
    Texts,      \* what the user enters
    Sizes,      \* the values of HISTORY
    MaxCount    \* bound: lines entered

HistoryAssumption == Sizes \subseteq Nat /\ MaxCount \in Nat

VARIABLES
    history,    \* the entries [number, stuff], the latest first
    HISTORY,    \* the variable
    hist_count, \* the number of the next entry
    pos,        \* command_history_pos
    found,      \* tmp of history_match
    last_dir,   \* whether the next search goes on from there
    input       \* the text on the input line, Blank if none

vars == <<history, HISTORY, hist_count, pos, found, last_dir, input>>

Blank == "blank"
Null == -1

Numbers(list) == {list[i].number : i \in DOMAIN list}

(* A pointer outlives the entry it points to.                              *)
Dangling(pointer) == pointer # Null /\ pointer \notin Numbers(history)

Place(list, pointer) == CHOOSE i \in DOMAIN list : list[i].number = pointer

Shortened(list, size) == SubSeq(list, 1, IF Len(list) < size THEN Len(list) ELSE size)

Entered(text) ==
    <<[number |-> hist_count, stuff |-> text]>> \o Shortened(history, HISTORY - 1)

\* A mutant: the arrow keys go on from where they were.
Retained == pos

(* The arrow keys start anew with every entry.                             *)
NoPlace == Null

OnlyOne == HISTORY = 1 /\ history # <<>>

(* add_to_history_list; of the only entry the text is replaced.  An entry  *)
(* does not reset last_dir to none, as history.c:52 has it.                *)
Added(text) ==
    [list |-> IF OnlyOne THEN [history EXCEPT ![1].stuff = text]
              ELSE IF HISTORY = 0 THEN history ELSE Entered(text),
     pos |-> IF HISTORY = 0 \/ OnlyOne THEN pos ELSE NoPlace,
     last_dir |-> "PREV",
     count |-> hist_count + 1]

AddToHistory(text) ==
    IF text = Blank THEN [list |-> history, pos |-> pos, last_dir |-> last_dir, count |-> hist_count]
    ELSE Added(text)

Keep(new) ==
    history' = new.list /\ pos' = new.pos /\ last_dir' = new.last_dir /\ hist_count' = new.count

(* A line is entered, or put away with shove_to_history.                   *)
Enter ==
    /\ hist_count < MaxCount
    /\ Keep(AddToHistory(input))
    /\ input' = Blank
    /\ UNCHANGED <<HISTORY, found>>

Type ==
    /\ input' \in Texts \cup {Blank}
    /\ UNCHANGED <<history, HISTORY, hist_count, pos, found, last_dir>>

(* The arrow keys go round the list; from outside of it, what is on the    *)
(* input line is entered first (get_from_history_buffer).                  *)
Around(list, i, which) ==
    LET n == Len(list)
    IN IF which = "NEXT" THEN IF i = 1 THEN n ELSE i - 1 ELSE IF i = n THEN 1 ELSE i + 1

GetHistory(which) ==
    LET new == AddToHistory(input)
        list == IF pos = Null THEN new.list ELSE history
        i == IF pos # Null THEN Around(list, Place(list, pos), which)
             ELSE IF which = "NEXT" THEN Len(list) ELSE 1
    IN /\ HISTORY # 0 /\ history # <<>> /\ ~Dangling(pos) /\ hist_count < MaxCount
       /\ IF pos = Null THEN Keep([new EXCEPT !.pos = list[i].number])
          ELSE pos' = list[i].number /\ UNCHANGED <<history, last_dir, hist_count>>
       /\ input' = list[i].stuff
       /\ UNCHANGED <<HISTORY, found>>

(* history_match: !text looks for an older entry than the one found last.  *)
HistoryMatch ==
    \E text \in Texts :
        LET from == IF last_dir = "none" \/ found = Null THEN 1 ELSE Place(history, found) + 1
            hits == {i \in from .. Len(history) : history[i].stuff = text}
            hit == CHOOSE i \in hits : \A j \in hits : i <= j
        IN /\ HISTORY # 0 => last_dir = "none" \/ ~Dangling(found)
           /\ IF HISTORY = 0 \/ hits = {}
              THEN /\ last_dir' = "none" /\ UNCHANGED input
                   /\ found' = IF HISTORY = 0 THEN found ELSE Null
              ELSE /\ last_dir' = "PREV" /\ input' = history[hit].stuff
                   /\ found' = history[hit].number
           /\ UNCHANGED <<history, HISTORY, hist_count, pos>>

(* !number: the loop leaves the pointer of the searches alone, for it has  *)
(* one of its own (do_history).                                            *)
DoHistory ==
    /\ \E number \in 0 .. MaxCount :
           input' = IF number \in Numbers(history) THEN history[Place(history, number)].stuff ELSE input
    /\ UNCHANGED <<history, HISTORY, hist_count, pos, found, last_dir>>

(* /SET HISTORY; the pointers are not looked at.                           *)
SetHistorySize ==
    /\ HISTORY' \in Sizes \ {HISTORY}
    /\ history' = Shortened(history, HISTORY')
    /\ UNCHANGED <<hist_count, pos, found, last_dir, input>>

Init ==
    /\ history = <<>> /\ HISTORY \in Sizes /\ hist_count = 0
    /\ pos = Null /\ found = Null /\ last_dir = "none" /\ input = Blank

Next ==
    \/ Enter \/ Type \/ GetHistory("PREV") \/ GetHistory("NEXT")
    \/ HistoryMatch \/ DoHistory \/ SetHistorySize

Spec == Init /\ [][Next]_vars

----------------------------------------------------------------------------
TypeOK ==
    /\ Len(history) <= HISTORY
    /\ \A i \in DOMAIN history : history[i].stuff \in Texts /\ history[i].number < hist_count
    /\ \A i, j \in DOMAIN history : i < j => history[i].number > history[j].number

(* Whatever is entered, and whatever falls off the end of the list for it, *)
(* the arrow keys never stand on an entry that is gone, unless HISTORY was *)
(* made smaller (add_to_history_list, get_from_history_buffer).            *)
NeverDangles ==
    Dangling(pos)' => Dangling(pos) \/ HISTORY' < HISTORY
=============================================================================
