------------------------------ MODULE Lastlog ------------------------------
(***************************************************************************)
(* The last log of the windows (lastlog.c).  Every line shown goes to the  *)
(* log of its window if the level of the message is one the window keeps;  *)
(* /LASTLOG shows a part of it.                                            *)
(***************************************************************************)
EXTENDS Integers, Sequences, FiniteSets, SequencesExt

CONSTANTS
    Windows,
    Levels,         \* the levels of messages (LOG_CRAP, ...)
    Sizes,          \* the values of LASTLOG
    Counts,         \* the numbers /LASTLOG is given
    MaxLines        \* bound: lines added

LastlogAssumption == Sizes \subseteq Nat /\ Counts \subseteq Nat /\ MaxLines \in Nat

VARIABLES
    log,            \* [Windows -> the entries [level, msg], the latest first]
    size,           \* [Windows -> lastlog_size]
    lastlog_max,    \* the same for all windows
    lastlog_level,  \* [Windows -> the levels kept]
    lines,          \* the lines so far
    displayed,      \* what the last /LASTLOG showed, <<>> when there was none
    wanted          \* its arguments: [window, mask, cnt, from]

vars == <<log, size, lastlog_max, lastlog_level, lines, displayed, wanted>>

Nothing == [cnt |-> 0]
Forget == displayed' = <<>> /\ wanted' = Nothing

\* A mutant: the size is compared after it has been counted up.
FullAfter(n) == n + 1 > lastlog_max + 1

(* lastlog_size++ >= lastlog_max.                                          *)
Full(n) == n >= lastlog_max

(* A line of a level, add_to_lastlog.                                      *)
AddToLastlog(window, level) ==
    /\ lines < MaxLines
    /\ lines' = lines + 1
    /\ IF level \notin lastlog_level[window] THEN UNCHANGED <<log, size>>
       ELSE LET new == <<[level |-> level, msg |-> lines]>> \o log[window]
            IN IF Full(size[window])
               THEN log' = [log EXCEPT ![window] = Front(new)] /\ UNCHANGED size
               ELSE log' = [log EXCEPT ![window] = new] /\ size' = [size EXCEPT ![window] = @ + 1]
    /\ Forget
    /\ UNCHANGED <<lastlog_max, lastlog_level>>

(* /SET LASTLOG: the oldest entries of every window go.                    *)
SetLastlogSize ==
    /\ lastlog_max' \in Sizes \ {lastlog_max}
    /\ LET Kept(w) == IF size[w] > lastlog_max' THEN lastlog_max' ELSE size[w]
       IN /\ log' = [w \in Windows |-> SubSeq(log[w], 1, Kept(w))]
          /\ size' = [w \in Windows |-> Kept(w)]
    /\ Forget
    /\ UNCHANGED <<lastlog_level, lines>>

(* parse_lastlog_level: the words from left to right; one with a minus     *)
(* takes its level away.                                                   *)
Words == {[minus |-> FALSE, word |-> w] : w \in {"ALL", "NONE"} \cup Levels}
         \cup {[minus |-> TRUE, word |-> l] : l \in Levels}

ParseLastlogLevel(words) ==
    LET One(level, w) ==
            CASE w.word = "ALL" -> Levels
              [] w.word = "NONE" -> {}
              [] w.minus -> level \ {w.word}
              [] OTHER -> level \cup {w.word}
    IN FoldLeft(One, {}, words)

(* /SET LASTLOG_LEVEL, of the current window.                              *)
SetLastlogLevel(window) ==
    /\ \E first, second \in Words :
           lastlog_level' = [lastlog_level EXCEPT ![window] = ParseLastlogLevel(<<first, second>>)]
    /\ Forget
    /\ UNCHANGED <<log, size, lastlog_max, lines>>

----------------------------------------------------------------------------
(* /LASTLOG -level cnt from.  The loops walk from the head over the from   *)
(* and the cnt entries of the level; a place behind the tail is NULL, for  *)
(* which the tail is taken.  Then cnt entries are shown towards the head.  *)

Hits(list, mask) == {i \in DOMAIN list : mask = {} \/ list[i].level \in mask}

(* The place behind n entries of the level, beginning at i.                *)
Past(list, mask, i, n) ==
    IF n = 0 THEN i
    ELSE LET hits == Hits(list, mask) \cap (i .. Len(list))
             enough == {j \in hits : Cardinality(hits \cap (i .. j)) = n}
         IN IF enough = {} THEN Len(list) + 1 ELSE 1 + CHOOSE j \in enough : TRUE

\* A mutant: the walk back begins where the walk ended.
StartBehind(list, mask, cnt, from) ==
    LET end == Past(list, mask, Past(list, mask, 1, from), cnt)
    IN IF end > Len(list) THEN Len(list) ELSE end

Start(list, mask, cnt, from) ==
    LET end == Past(list, mask, Past(list, mask, 1, from), cnt)
    IN IF end > Len(list) THEN Len(list) ELSE end - 1

Shown(list, mask, cnt, from) ==
    LET start == Start(list, mask, cnt, from)
        hits == Hits(list, mask) \cap (1 .. start)
        part == {i \in hits : Cardinality(hits \cap (i .. start)) <= cnt}
    IN SelectSeq([i \in 1 .. start |-> list[start + 1 - i]],
                 LAMBDA e : \E i \in part : list[i] = e)

CmdLastlog(window) ==
    \E mask \in {{}} \cup {{l} : l \in Levels}, cnt \in Counts, from \in Counts :
        /\ displayed' = Shown(log[window], mask, cnt, from)
        /\ wanted' = [window |-> window, mask |-> mask, cnt |-> cnt, from |-> from]
        /\ UNCHANGED <<log, size, lastlog_max, lastlog_level, lines>>

Init ==
    /\ log = [w \in Windows |-> <<>>] /\ size = [w \in Windows |-> 0]
    /\ lastlog_max \in Sizes
    /\ lastlog_level = [w \in Windows |-> Levels]
    /\ lines = 0 /\ displayed = <<>> /\ wanted = Nothing

Next ==
    \/ \E window \in Windows :
          \/ \E level \in Levels : AddToLastlog(window, level)
          \/ SetLastlogLevel(window) \/ CmdLastlog(window)
    \/ SetLastlogSize

Spec == Init /\ [][Next]_vars

----------------------------------------------------------------------------
TypeOK ==
    /\ \A w \in Windows : size[w] = Len(log[w]) /\ size[w] <= lastlog_max
    /\ \A w \in Windows : \A i, j \in DOMAIN log[w] : i < j => log[w][i].msg > log[w][j].msg

(* /LASTLOG of a number shows that many of the latest lines of the level,  *)
(* the oldest of them first, however many there are (cmd_lastlog).         *)
ShowsTheLatest ==
    wanted # Nothing /\ wanted.from = 0 =>
        LET list == SelectSeq(log[wanted.window], LAMBDA e : wanted.mask = {} \/ e.level \in wanted.mask)
            n == IF Len(list) < wanted.cnt THEN Len(list) ELSE wanted.cnt
        IN displayed = Reverse(SubSeq(list, 1, n))
=============================================================================
