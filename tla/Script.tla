------------------------------- MODULE Script -------------------------------
(***************************************************************************)
(* /LOAD: the reader of script files (load in ncommand.c).  A command may  *)
(* go over several lines when it has blocks in braces; comments may stand  *)
(* between lines.  A command is handed to parse_line when the line after   *)
(* it begins, for only that line tells whether the command goes on.        *)
(* /LOAD takes several files, and paste_level and no_semicolon are not     *)
(* reset from one to the next.                                             *)
(*                                                                         *)
(* A line is a sequence of characters; "a" stands for all that are not     *)
(* special.  A line that ends in a backslash is continued by the next: the *)
(* two are one line here.                                                  *)
(***************************************************************************)
EXTENDS Integers, SequencesExt

CONSTANTS
    Lines,     \* lines of the file, without blank ones and those that begin with #
    MaxRow,    \* bound on the length of current_row
    MaxOpen    \* bound on the blocks open when a further file is read

Special == {"{", "}", ";", "/"}
Characters == Special \cup {"a", "*", "\\"}
Written == Characters \cup {" "}

LinesAssumption ==
    Lines \subseteq Seq(Characters) \ {<<>>} /\ \A l \in Lines : l[Len(l)] # "\\"

VARIABLES
    current_row,     \* what is read of the command, <<>> when NULL or empty
    pending,         \* TRUE: current_row is not NULL
    paste_level,     \* braces open
    in_comment,
    no_semicolon,    \* TRUE: what comes next goes on with the row
    ran,             \* the commands run by the last step
    line,            \* the line read by the last step
    carried          \* history: blocks that files before have left open, until they are closed

vars == <<current_row, pending, paste_level, in_comment, no_semicolon, ran, line, carried>>

----------------------------------------------------------------------------
(* One line.  s is a record of the state, start the place reached in the   *)
(* line l, and ptr the next special character that is not escaped, or 0.   *)

State == [row |-> current_row, pending |-> pending, level |-> paste_level, comment |-> in_comment,
          whole |-> no_semicolon, ran |-> <<>>]

Pointer(l, start) ==
    LET found == {j \in start..Len(l) : l[j] \in Special /\ ~(j > start /\ l[j - 1] = "\\")}
    IN  IF found = {} THEN 0 ELSE CHOOSE j \in found : \A k \in found : j <= k

ParseLine(s) == [s EXCEPT !.ran = Append(@, s.row), !.row = <<>>, !.pending = FALSE]

Added(s, text) == [s EXCEPT !.row = @ \o text, !.pending = TRUE]

(* A mutant: every line that begins ends the command before it.            *)
DividedAlways(s, l, start, ptr) ==
    IF s.whole THEN [s EXCEPT !.whole = FALSE]
    ELSE IF ~s.pending \/ (ptr = start /\ l[ptr] # "/") THEN s
    ELSE ParseLine(s)

(* Before a piece of text: the command before it is complete, or, in a     *)
(* block, a semicolon divides it from what follows.                        *)
Divided(s, l, start, ptr) ==
    IF s.whole THEN [s EXCEPT !.whole = FALSE]
    ELSE IF ~s.pending \/ (ptr = start /\ l[ptr] # "/") THEN s
    ELSE IF s.level = 0 THEN ParseLine(s)
    ELSE IF s.comment THEN s
    ELSE Added(s, <<";">>)

AtEnd(l, ptr) == ptr = Len(l)

(* A comment can only begin at the start of a piece.                       *)
Slash(s, l, start, ptr) ==
    IF s.comment
    THEN IF ptr > start /\ l[ptr - 1] = "*" THEN [s EXCEPT !.comment = FALSE, !.whole = TRUE] ELSE s
    ELSE IF ptr = start /\ ~AtEnd(l, ptr) /\ l[ptr + 1] = "*" THEN [s EXCEPT !.comment = TRUE, !.whole = TRUE]
    ELSE LET t == Added(s, <<"/">>)
         IN  IF ~AtEnd(l, ptr) THEN [t EXCEPT !.whole = TRUE]
             ELSE IF t.level = 0 THEN [ParseLine(t) EXCEPT !.whole = TRUE]
             ELSE [t EXCEPT !.whole = FALSE]

Brace(start, ptr) == IF ptr = start THEN <<" ", "{">> ELSE <<"{">>

(* A mutant: a brace in a comment opens a block.                           *)
OpenInComment(s, start, ptr) == [Added(s, Brace(start, ptr)) EXCEPT !.level = @ + 1, !.whole = TRUE]

Open(s, start, ptr) ==
    IF s.comment THEN s
    ELSE [Added(s, Brace(start, ptr)) EXCEPT !.level = @ + 1, !.whole = TRUE]

(* An unexpected brace is reported and left out.                           *)
Close(s, l, ptr) ==
    IF s.comment \/ s.level = 0 THEN s
    ELSE [Added(s, <<"}">>) EXCEPT !.level = @ - 1, !.whole = ~AtEnd(l, ptr)]

Semicolon(s, l, ptr) ==
    IF s.comment THEN s
    ELSE [(IF AtEnd(l, ptr) /\ s.level = 0 THEN ParseLine(s) ELSE Added(s, <<";">>)) EXCEPT !.whole = TRUE]

RECURSIVE Pieces(_, _, _)
Pieces(s, l, start) ==
    IF start > Len(l) THEN s
    ELSE LET ptr == Pointer(l, start)
             end == IF ptr = 0 THEN Len(l) ELSE ptr - 1
             divided == Divided(s, l, start, ptr)
             t == IF s.comment THEN divided ELSE Added(divided, SubSeq(l, start, end))
         IN  IF ptr = 0 THEN t
             ELSE Pieces(CASE l[ptr] = "/" -> Slash(t, l, start, ptr)
                           [] l[ptr] = "{" -> Open(t, start, ptr)
                           [] l[ptr] = "}" -> Close(t, l, ptr)
                           [] l[ptr] = ";" -> Semicolon(t, l, ptr),
                         l, ptr + 1)

Becomes(s) ==
    /\ current_row' = s.row /\ pending' = s.pending /\ paste_level' = s.level
    /\ in_comment' = s.comment /\ no_semicolon' = s.whole /\ ran' = s.ran

ReadLine(l) ==
    /\ Len(current_row) < MaxRow
    /\ Becomes(Pieces(State, l, 1))
    /\ line' = l
    /\ carried' = IF ran' = <<>> THEN carried ELSE 0

(* The file ends: the text of a block that is open is reported and         *)
(* dropped, otherwise the last command is run.  The next file of the same  *)
(* /LOAD is read as if its text were in the blocks still open.             *)
AtEndOfFile == [State EXCEPT !.row = <<>>, !.pending = FALSE, !.comment = FALSE,
                             !.ran = IF pending /\ paste_level = 0 THEN <<current_row>> ELSE <<>>]

EndOfFile ==
    /\ paste_level <= MaxOpen
    /\ Becomes(AtEndOfFile)
    /\ line' = <<>>
    /\ carried' = paste_level

(* The last file ends, and the next /LOAD begins.                          *)
EndOfLoad ==
    /\ Becomes([AtEndOfFile EXCEPT !.level = 0, !.whole = TRUE])
    /\ line' = <<>>
    /\ carried' = 0

Init ==
    /\ current_row = <<>> /\ pending = FALSE /\ paste_level = 0
    /\ in_comment = FALSE /\ no_semicolon = TRUE
    /\ ran = <<>> /\ line = <<>> /\ carried = 0

Next == (\E l \in Lines : ReadLine(l)) \/ EndOfFile \/ EndOfLoad

Spec == Init /\ [][Next]_vars

----------------------------------------------------------------------------
(* Properties.                                                             *)

TypeOK ==
    /\ current_row \in Seq(Written) /\ paste_level \in Nat
    /\ {pending, in_comment, no_semicolon} \subseteq BOOLEAN
    /\ ran \in Seq(Seq(Written)) /\ line \in Lines \cup {<<>>} /\ carried \in 0..MaxOpen

(* Brackets that are not escaped, counted up to i.                         *)
Depth(c, i) ==
    LET Count(b) == Cardinality({j \in 1..i : c[j] = b /\ ~(j > 1 /\ c[j - 1] = "\\")})
    IN  Count("{") - Count("}")

(* A command is run whole: with every block closed that it opens, and no   *)
(* other, however it is spread over lines, comments and semicolons.  The   *)
(* exception are blocks that a file before has left open (carried): the    *)
(* first command that is run closes just those too, and may be a part of   *)
(* the new file that is no command, but those after it are whole again.    *)
RunWhole ==
    \A k \in DOMAIN ran' :
        LET owed == IF k = 1 THEN carried ELSE 0
        IN  /\ \A i \in DOMAIN ran'[k] : Depth(ran'[k], i) >= -owed
            /\ Depth(ran'[k], Len(ran'[k])) = -owed

(* What of a line is outside of comments: a comment begins where a line    *)
(* or what follows a special character begins, and goes to the first "*/". *)
RECURSIVE Outside(_, _, _, _)
Outside(l, i, from, comment) ==
    IF i > Len(l) THEN <<>>
    ELSE LET special == l[i] \in Special /\ ~(i > from /\ l[i - 1] = "\\")
             next == IF special THEN i + 1 ELSE from
         IN  IF comment
             THEN Outside(l, i + 1, next, ~(l[i] = "/" /\ i > from /\ l[i - 1] = "*"))
             ELSE IF l[i] = "/" /\ special /\ i = from /\ i < Len(l) /\ l[i + 1] = "*"
             THEN Outside(l, i + 1, next, TRUE)
             ELSE <<l[i]>> \o Outside(l, i + 1, next, FALSE)

(* Semicolons come and go at the ends of lines, and a brace that closes    *)
(* nothing is left out; the rest is what counts.                           *)
Text(c) == SelectSeq(c, LAMBDA x : x \in {"a", "*", "\\", "/", "{"})

(* Nothing outside of comments is lost, repeated or put in another order:  *)
(* what a line adds to the commands run and to the row that is kept is     *)
(* what it has outside of comments.                                        *)
KeepsText ==
    line' # <<>> => Text(FlattenSeq(ran') \o current_row')
                        = Text(current_row) \o Text(Outside(line', 1, 1, in_comment))
=============================================================================
