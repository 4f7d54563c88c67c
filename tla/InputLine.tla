------------------------------ MODULE InputLine ------------------------------
(***************************************************************************)
(* The input line (input.c): the text being edited behind the prompt, the  *)
(* cursor, the cut buffer, and the questions (add_wait_prompt, screen.c)   *)
(* that take the line away from the user until they are answered.          *)
(*                                                                         *)
(* input_buffer holds the prompt and then the text.  Here "line" is the    *)
(* text and "min" the length of the prompt (buffer_min_pos); "pos" is      *)
(* buffer_pos - buffer_min_pos, the number of characters of the text       *)
(* before the cursor.  A character is one of a word or a space, the two    *)
(* kinds that the word functions tell apart.                               *)
(***************************************************************************)
EXTENDS Integers, SequencesExt

CONSTANTS BufferSize,   \* INPUT_BUFFER_SIZE; the array has two bytes more
          PromptSizes,  \* the lengths the input prompt may have
          WaitSize,     \* the length of the prompt of a question
          Recalled,     \* lines that the history gives
          MaxWaiting,   \* bound on the questions that are waiting
          Editing       \* the sets of editing keys to look at, one per behaviour

InputAssumption ==
  /\ BufferSize \in Nat /\ WaitSize \in 0 .. BufferSize
  /\ PromptSizes \subseteq 0 .. BufferSize
  /\ MaxWaiting \in Nat

VARIABLES line, pos, min,
          cut,          \* cut_buffer, NoText when nothing was cut
          insert,       \* the variable INSERT_MODE
          prompt,       \* the length of input_prompt
          waiting,      \* promptlist, the types of the questions
          saved,        \* saved_input_buffer, saved_buffer_pos, ..min_buffer_pos
          end,          \* "overrun" when the code has left its arrays
          before,       \* history: the line the first question interrupted
          keys          \* the editing keys of this behaviour

vars == <<line, pos, min, cut, insert, prompt, waiting, saved, end, before, keys>>

NoText == <<"none">>
Word == "w"
Space == " "
Text == Seq({Word, Space})

TypeOK ==
  /\ line \in Text /\ pos \in Nat /\ min \in 0 .. BufferSize
  /\ cut \in Text \cup {NoText}
  /\ insert \in BOOLEAN
  /\ prompt \in PromptSizes
  /\ waiting \in Seq({"LINE", "KEY"})
  /\ saved \in [line : Text, pos : Nat, min : Nat]
  /\ before \in Text
  /\ end \in {"running", "overrun"}

Init ==
  /\ line = <<>> /\ pos = 0
  /\ prompt \in PromptSizes /\ min = prompt
  /\ cut = NoText
  /\ insert \in BOOLEAN
  /\ waiting = <<>>
  /\ saved = [line |-> <<>>, pos |-> 0, min |-> 0]
  /\ before = <<>>
  /\ end = "running"
  /\ keys \in Editing

------------------------------------------------------------------------------
Room(m) == BufferSize - m

\* strmcat behind a prompt of m characters, ADD_TO_INPUT: no more than
\* BufferSize - 1 in all.  When there is more than that already, the length
\* given to strncat is negative, which it takes for no limit.
Added(text, more, m) ==
  LET left == Room(m) - 1 - Len(text)
  IN  IF Len(more) <= left \/ left < 0 THEN text \o more
      ELSE text \o SubSeq(more, 1, left)

Left(text, n) == SubSeq(text, 1, n)
From(text, n) == SubSeq(text, n + 1, Len(text))

\* The nearest place from n on, to the right or to the left, where c begins.
SkipRight(text, n, c) ==
  CHOOSE i \in n .. Len(text) :
    /\ \A j \in n + 1 .. i : text[j] = c
    /\ i = Len(text) \/ text[i + 1] # c
SkipLeft(text, n, c) ==
  CHOOSE i \in 0 .. n :
    /\ \A j \in i + 1 .. n : text[j] = c
    /\ i = 0 \/ text[i] # c
WordEnd(text, n) == SkipRight(text, SkipRight(text, n, Space), Word)
WordStart(text, n) == SkipLeft(text, SkipLeft(text, n, Space), Word)

\* The line is the user's to edit unless a question waits for a key.
CanEdit ==
  /\ end = "running"
  /\ pos <= Len(line)
  /\ \A i \in DOMAIN waiting : i = 1 => waiting[i] = "LINE"

\* What an editing key leaves: the text, the cursor, the cut buffer.
Key(name, text, n, c) ==
  /\ CanEdit /\ name \in keys
  /\ line' = text /\ pos' = n /\ cut' = c
  /\ end' = IF Len(text) > Room(min) + 1 THEN "overrun" ELSE end
  /\ UNCHANGED <<min, insert, prompt, waiting, saved, before, keys>>

Motion(name, n) == Key(name, line, n, cut)
Replace(name, text, n) == Key(name, text, n, cut)

\* input_add_character, inserting or overwriting.
Type(c) ==
  LET behind == IF insert THEN From(line, pos) ELSE From(line, pos + 1)
      text == Append(Left(line, pos), c)
  IN  /\ pos < Room(min)
      /\ Replace(c, IF insert THEN Added(text, behind, min) ELSE text \o behind,
                 pos + 1)

MoveLeft == pos > 0 /\ Motion("move", pos - 1)
MoveRight == pos < Len(line) /\ Motion("move", pos + 1)
BeginningOfLine == Motion("move", 0)
EndOfLine == Motion("move", Len(line))
ForwardWord == Motion("words", WordEnd(line, pos))
BackwardWord == Motion("words", WordStart(line, pos))

DeleteCharacter ==
  pos < Len(line) /\ Replace("delete", Left(line, pos) \o From(line, pos + 1), pos)
Backspace ==
  pos > 0 /\ Replace("delete", Left(line, pos - 1) \o From(line, pos), pos - 1)

\* input_delete_to_previous_space looks at the character under the cursor
\* first, and stops before the text when there is no space.
PreviousSpace ==
  LET spaces == {i \in 0 .. pos : i < Len(line) /\ line[i + 1] = Space}
  IN  IF spaces = {} THEN -1 ELSE Max(spaces)

\* A mutant: the cursor stays where the search ended.
ToTheSpace(space) ==
  /\ space < pos
  /\ Replace("words", Left(line, space + 1) \o From(line, pos), pos)

ToPreviousSpace(space) ==
  /\ space < pos
  /\ Replace("words", Left(line, space + 1) \o From(line, pos), space + 1)

DeleteToPreviousSpace == ToPreviousSpace(PreviousSpace)

DeletePreviousWord ==
  LET start == WordStart(line, pos)
  IN  Key("words", Left(line, start) \o From(line, pos), start,
          SubSeq(line, start + 1, pos))

DeleteNextWord ==
  LET last == WordEnd(line, pos)
  IN  Key("words", Left(line, pos) \o From(line, last), pos, SubSeq(line, pos + 1, last))

ClearToEol == Key("cut", Left(line, pos), pos, From(line, pos))
ClearToBol == Key("cut", Added(<<>>, From(line, pos), min), 0, Left(line, pos))
ClearLine == Key("cut", <<>>, 0, line)

\* input_transpose_characters.  At the end of the line the place is computed
\* from the character under the cursor, which is 0, and lies before the array.
Transpose ==
  /\ pos > 0
  /\ \/ /\ pos < Len(line)
        /\ Replace("cut", [line EXCEPT ![pos] = line[pos + 1],
                                       ![pos + 1] = line[pos]], pos)
     \/ /\ pos = Len(line) /\ Len(line) > min + 2
        /\ CanEdit /\ "cut" \in keys
        /\ end' = "overrun"
        /\ UNCHANGED <<line, pos, min, cut, insert, prompt, waiting, saved, before, keys>>

\* input_yank_cut_buffer moves the cursor by what was cut, even when not all
\* of it fits.
Yank ==
  LET text == Added(Left(line, pos), cut, min)
  IN  /\ cut # NoText
      /\ Replace("cut", Added(text, From(line, pos), min),
                 Min({pos + Len(cut), Room(min)}))

\* get_history and the completions: set_input.
Recall ==
  \E text \in Recalled :
    LET fits == Left(text, Min({Len(text), Room(min)}))
    IN  Replace("recall", fits, Len(fits))

ToggleInsertMode ==
  /\ CanEdit /\ "toggle" \in keys
  /\ insert' = ~insert
  /\ UNCHANGED <<line, pos, min, cut, prompt, waiting, saved, end, before, keys>>

------------------------------------------------------------------------------
(* The prompt and the questions.                                           *)

\* update_input: the prompt is another one than the one in the buffer.
Behind(m, text, n) ==
  /\ min' = m
  /\ line' = IF m = min /\ line = text THEN text ELSE Added(<<>>, text, m)
  /\ pos' = n

\* set_input_prompt; while a question waits its prompt stays.
SetInputPrompt ==
  \E m \in PromptSizes \ {prompt} :
    /\ end = "running"
    /\ prompt' = m
    /\ IF waiting = <<>> THEN Behind(m, line, pos) ELSE UNCHANGED <<min, line, pos>>
    /\ UNCHANGED <<cut, insert, waiting, saved, end, before, keys>>

\* add_wait_prompt and change_input_prompt(1).  The first question puts the
\* line away.
AddWaitPrompt ==
  \E type \in {"LINE", "KEY"} :
    /\ end = "running" /\ pos <= Len(line) /\ "ask" \in keys
    /\ Len(waiting) < MaxWaiting
    /\ waiting' = Append(waiting, type)
    /\ IF waiting = <<>>
       THEN /\ saved' = [line |-> line, pos |-> pos, min |-> min]
            /\ before' = line
            /\ Behind(WaitSize, <<>>, 0)
       ELSE UNCHANGED <<saved, before, min, line, pos>>
    /\ UNCHANGED <<cut, insert, prompt, end, keys>>

\* A mutant: called before the question is taken from the list.
RestoredEarly(rest) ==
  line' = <<>> /\ pos' = 0 /\ min' = WaitSize /\ UNCHANGED saved

\* change_input_prompt(-1): after the last answer the line comes back, behind
\* the input prompt of now.
Restored(rest) ==
  IF rest = <<>>
  THEN /\ IF saved.min = prompt THEN line' = saved.line
          ELSE line' = Added(<<>>, saved.line, prompt)
       /\ pos' = saved.pos
       /\ min' = prompt
       /\ saved' = [line |-> <<>>, pos |-> 0, min |-> 0]
  ELSE line' = <<>> /\ pos' = 0 /\ min' = WaitSize /\ UNCHANGED saved

\* send_line and edit_char: the answer to the first question, which may ask
\* more questions.
Answer ==
  \E more \in {<<>>} \cup {<<type>> : type \in {"LINE", "KEY"}} :
    /\ end = "running" /\ waiting # <<>>
    /\ Len(waiting) + Len(more) <= MaxWaiting
    /\ waiting' = Tail(waiting) \o more
    /\ Restored(waiting')
    /\ before' = IF waiting' = <<>> THEN <<>> ELSE before
    /\ UNCHANGED <<cut, insert, prompt, end, keys>>

\* send_line: the line is executed and, unless the history is asked for a line
\* (do_history), cleared.
SendLine ==
  /\ waiting = <<>>
  /\ Replace(Word, <<>>, 0)

Next ==
  \/ \E c \in {Word, Space} : Type(c)
  \/ MoveLeft \/ MoveRight \/ BeginningOfLine \/ EndOfLine
  \/ ForwardWord \/ BackwardWord \/ DeleteCharacter \/ Backspace
  \/ DeleteToPreviousSpace \/ DeletePreviousWord \/ DeleteNextWord
  \/ ClearToEol \/ ClearToBol \/ ClearLine \/ Transpose \/ Yank \/ Recall
  \/ ToggleInsertMode \/ SetInputPrompt \/ AddWaitPrompt \/ Answer \/ SendLine

Spec == Init /\ [][Next]_vars

------------------------------------------------------------------------------
\* No editing key takes a cursor that is within the text out of it, whatever
\* keys are pressed in whatever order, except yanking more than fits
\* (input_yank_cut_buffer).  A longer prompt may.
CursorStays ==
  (pos <= Len(line) /\ min' = min /\ waiting' = waiting)
    => pos' \in 0 .. Len(line') \/ Yank

\* When the last question has been answered, the line that the first of them
\* interrupted is back with its cursor (change_input_prompt): cut off only
\* where another prompt leaves less room, never the answers' text.
LineReturns ==
  (waiting # <<>> /\ waiting' = <<>>)
    => /\ line' = Left(before, Len(line'))
       /\ Len(before) < Room(prompt) => line' = before
       /\ pos' = saved.pos
==============================================================================
