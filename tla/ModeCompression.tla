-------------------------- MODULE ModeCompression --------------------------
(***************************************************************************)
(* A MODE line with COMPRESS_MODES on (names.c compress_modes, parse.c     *)
(* p_mode): the line shown is the compressed one, the one applied is the   *)
(* one received, and neither happens when the compression leaves nothing.  *)
(* What is kept of the channel, chan, is therefore not what the server has *)
(* of it, real, when something that matters is left out.                   *)
(*                                                                         *)
(* A line is a sequence of letters with their arguments.  The flags are    *)
(* those the switch of compress_modes has a case for; a line of others     *)
(* alone, +m for one, leaves nothing (README, "Disagreements").            *)
(***************************************************************************)
EXTENDS Integers, Sequences, FiniteSets, SequencesExt, FiniteSetsExt

CONSTANTS
    Nicks,      \* the nicks a line may name
    Known,      \* those in the list of the channel
    Masks,      \* the bans a line may name
    Flags,      \* letters without argument
    MaxLine     \* bound: letters of a line, signs included

ModeCompressionAssumption ==
    Known \subseteq Nicks /\ Flags \subseteq {"i", "n", "s", "t"} /\ MaxLine \in Nat

VARIABLES
    chan,       \* what update_channel_mode has kept of the channel
    real        \* the channel as the server has it

vars == <<chan, real>>

None == "none"

Letter(l, a) == [letter |-> l, arg |-> a]

Letters ==
    {Letter(l, None) : l \in Flags \cup {"+", "-"}}
    \cup {Letter(l, n) : l \in {"o", "v"}, n \in Nicks} \cup {Letter("b", m) : m \in Masks}

(* A line begins with a sign.                                              *)
Lines == {l \in SeqOf(Letters, MaxLine) : l # <<>> /\ l[1].letter \in {"+", "-"}}

Empty == [o |-> {}, v |-> {}, b |-> {}, flags |-> {}]

Update(set, add, e) == IF add THEN set \cup {e} ELSE set \ {e}

(* decifer_mode: what a line does, to the nicks that are listed.           *)
Deciphered(ch, line, listed) ==
    LET One(acc, t) ==
            CASE t.letter \in {"+", "-"} -> [acc EXCEPT !.add = t.letter = "+"]
              [] t.letter \in {"o", "v"} ->
                    IF t.arg \in listed THEN [acc EXCEPT !.ch[t.letter] = Update(@, acc.add, t.arg)] ELSE acc
              [] t.letter = "b" -> [acc EXCEPT !.ch.b = Update(@, acc.add, t.arg)]
              [] OTHER -> [acc EXCEPT !.ch.flags = Update(@, acc.add, t.letter)]
    IN FoldLeft(One, [ch |-> ch, add |-> FALSE], line).ch

----------------------------------------------------------------------------
(* compress_modes.  was is isopped, isvoiced or isbanned, which the nick   *)
(* that is not listed leaves as the one before; changed is the list of     *)
(* what is to be appended, by name.  A name is entered with the first of   *)
(* its changes that does something, but by an o or a b only: a v of a name *)
(* that is not entered is forgotten (the break before add_to_list).        *)

WasOnce(acc, ch, t) ==
    acc.was[t.letter] \/ (IF t.letter = "b" THEN t.arg \in ch.b ELSE t.arg \in Known \cap ch[t.letter])

Was(acc, ch, t) ==
    IF t.letter = "b" THEN t.arg \in ch.b
    ELSE IF t.arg \in Known THEN t.arg \in ch[t.letter] ELSE acc.was[t.letter]

Collected(acc, ch, t) ==
    LET was == Was(acc, ch, t)
        next == [acc EXCEPT !.was[t.letter] = was]
        entered == \E c \in acc.changed : c.name = t.arg
    IN IF acc.add = was \/ (t.letter = "v" /\ ~entered) THEN next
       ELSE [next EXCEPT !.changed = {c \in @ : ~(c.name = t.arg /\ c.letter = t.letter)}
                                     \cup {[name |-> t.arg, letter |-> t.letter, add |-> acc.add]}]

(* A letter is preceded by a sign when it differs from the last one.       *)
Appended(acc, add, t) ==
    LET sign == IF add THEN "+" ELSE "-"
    IN [acc EXCEPT !.modes = IF acc.mod = sign THEN Append(@, t) ELSE @ \o <<Letter(sign, None), t>>,
                   !.mod = sign]

(* What can be done many times comes last, in the order of the names and,  *)
(* of one name, o before v before b.                                       *)
Rank(l) == CASE l = "o" -> 1 [] l = "v" -> 2 [] l = "b" -> 3
Ordered(changed) ==
    SetToSortSeq(changed, LAMBDA c, d : \/ c.name < d.name
                                        \/ c.name = d.name /\ Rank(c.letter) < Rank(d.letter))

CompressModes(ch, line) ==
    LET One(acc, t) ==
            CASE t.letter \in {"+", "-"} -> [acc EXCEPT !.add = t.letter = "+"]
              [] t.letter \in {"o", "v", "b"} -> Collected(acc, ch, t)
              [] OTHER -> Appended(acc, acc.add, t)
        read == FoldLeft(One, [add |-> FALSE, mod |-> None, modes |-> <<>>, changed |-> {},
                               was |-> [l \in {"o", "v", "b"} |-> FALSE]], line)
        Change(acc, c) == Appended(acc, c.add, Letter(c.letter, c.name))
        all == FoldLeft(Change, read, Ordered(read.changed))
    IN all.modes

(* p_mode, of a line the server has applied.                               *)
PMode ==
    \E line \in Lines :
        /\ real' = Deciphered(real, line, Known)
        /\ chan' = IF CompressModes(chan, line) = <<>> THEN chan ELSE Deciphered(chan, line, Known)

Init == chan = Empty /\ real = Empty

Next == PMode

Spec == Init /\ [][Next]_vars

----------------------------------------------------------------------------
TypeOK ==
    /\ chan.o \subseteq Known /\ chan.v \subseteq Known
    /\ chan.b \subseteq Masks /\ chan.flags \subseteq Flags

(* A line that is passed over since nothing of it is left (p_mode goes to  *)
(* its end without update_channel_mode) would have changed no op, no ban   *)
(* and no flag, whatever ops and voices the lines before it, applied or    *)
(* passed over, have left.  It may have changed voices: "+v nick" alone is *)
(* passed over, and chan.v is not compared (README, "Disagreements").      *)
LosesNoChange == \A what \in {"o", "b", "flags"} : chan[what] = real[what]
=============================================================================
