------------------------------ MODULE Scrollback ------------------------------
(***************************************************************************)
(* The lines of one visible window (struct WindowStru, window.c and        *)
(* screen.c): the buffer of lines kept for scrolling back, the part of it  *)
(* that is on the display, and the lines that are held until the user asks *)
(* for the next page.                                                      *)
(*                                                                         *)
(* The buffer is a list.  Here its lines are numbered from 0, the oldest   *)
(* (top_of_scrollback); "ip" is display_ip, the empty entry where the next *)
(* line goes, so the buffer has ip + 1 entries (display_buffer_size).      *)
(* "top" is top_of_display and "point" is scrollback_point.  When the      *)
(* oldest lines are deleted the others are renumbered.                     *)
(***************************************************************************)
EXTENDS Integers, FiniteSetsExt

CONSTANTS Sizes,        \* the sizes the layout may give the window
          BufferMax,    \* display_buffer_max
          ScrollLines,  \* the variable SCROLL_LINES
          Scrolls,      \* window->scroll: FALSE when the display wraps
          MaxLines,     \* bound: no line arrives while the buffer has so many
                        \* (held ones are not deleted) or so many are held
          MaxBack       \* bound on lines_scrolled_back (resizing a window that
                        \* is scrolled back lets it grow for ever)

ScrollbackAssumption ==
  /\ Sizes \subseteq Nat \ {0}
  /\ BufferMax \in Nat /\ \A n \in Sizes : n < BufferMax
  /\ ScrollLines \in Nat \ {0}
  /\ Scrolls \in BOOLEAN
  /\ MaxLines \in Nat /\ MaxBack \in Nat

VARIABLES w,
          resized  \* history: the size changed while the user had scrolled back

vars == <<w, resized>>

None == -1

TypeOK ==
  /\ w \in [size : Sizes, ip : Nat, top : Nat, point : Nat \cup {None},
         hold : BOOLEAN, holding : BOOLEAN, held : Nat, displayed : Nat,
         distance : Int, cursor : Int, back : Int,
         end : {"running", "aborted", "crashed", "freed", "panicked", "hung"}]
  /\ resized \in BOOLEAN

Init ==
  /\ resized = FALSE
  /\ w \in {[size |-> n, ip |-> 0, top |-> 0, point |-> None, hold |-> h,
          holding |-> FALSE, held |-> 0, displayed |-> 0, distance |-> 0,
          cursor |-> 0, back |-> 0, end |-> "running"] : n \in Sizes, h \in BOOLEAN}

Running == w.end = "running"

------------------------------------------------------------------------------
\* recalculate_window_cursor, with which repaint_window ends.
Painted(s) ==
  [s EXCEPT !.distance = s.ip - s.top, !.cursor = Min({s.ip - s.top, s.size})]

\* The display cannot start below the last entry: the code would follow the
\* null pointer there.
StartAt(s, top) ==
  IF top > s.ip THEN [s EXCEPT !.end = "crashed"] ELSE [s EXCEPT !.top = top]

\* The oldest lines are deleted.  Those on the display must not be among them.
Trimmed(s) ==
  LET n == Max({0, s.ip + 1 - BufferMax})
  IN  IF s.top < n \/ s.point \in 0 .. n - 1 THEN [s EXCEPT !.end = "freed"]
      ELSE [s EXCEPT !.ip = @ - n, !.top = @ - n,
                     !.point = IF @ = None THEN None ELSE @ - n]

\* A mutant: the line is written below the display.
Unscrolled(s) == s

\* scroll_window
Scrolled(s) ==
  IF s.cursor # s.size THEN s
  ELSE IF s.holding \/ s.point # None THEN [s EXCEPT !.end = "aborted"]
  ELSE IF Scrolls
       THEN [StartAt(s, s.top + ScrollLines) EXCEPT !.distance = @ - ScrollLines,
                                                    !.cursor = @ - ScrollLines]
  ELSE [s EXCEPT !.cursor = 0]

\* A line that is not held: add_to_display_list, then rite by add_to_window.
Written(s) ==
  LET t == Trimmed(s)
      u == IF t.end = "running" THEN Scrolled(t) ELSE t
  IN  IF u.end = "running" THEN [u EXCEPT !.cursor = @ + 1] ELSE u

\* A mutant: the condition on the scrolled-back window reads the cursor, which
\* has not moved yet.
LineAddedByCursor(s) ==
  LET t == [s EXCEPT !.ip = @ + 1, !.distance = @ + 1]
  IN  IF t.cursor > t.size /\ t.point # None
      THEN [t EXCEPT !.holding = TRUE, !.held = @ + 1]
      ELSE Written(t)

\* add_to_display_list.  The line is held when the user has scrolled back and
\* it does not fit, or when a page was displayed since the last key.
LineAdded(s) ==
  LET t == [s EXCEPT !.ip = @ + 1, !.distance = @ + 1]
      below == t.distance > t.size /\ t.point # None
      u == IF ~below /\ t.hold
           THEN [t EXCEPT !.displayed = Min({@ + 1, Max(Sizes)})] ELSE t
  IN  IF below \/ (u.hold /\ u.displayed >= u.size)
      THEN [u EXCEPT !.holding = TRUE, !.held = @ + 1]
      ELSE Written(u)

\* unhold_a_window: the next page of what is held.
Unheld(s) ==
  LET t == IF s.holding /\ s.distance < s.size
           THEN [s EXCEPT !.holding = FALSE, !.held = 0] ELSE s
      amount == Min({t.held, t.size})
      u == [t EXCEPT !.held = @ - amount, !.displayed = 0,
                     !.holding = t.held > amount]
  IN  IF t.held = 0 \/ t.point # None THEN t
      ELSE Painted(StartAt(u, u.top + amount))

\* The loop of scrollback_end: until nothing is held.  Every turn shows a line
\* at least, or nothing changes any more.
UnheldAll[s \in [size : Int, ip : Int, top : Int, point : Int, hold : BOOLEAN,
                 holding : BOOLEAN, held : Int, displayed : Int, distance : Int,
                 cursor : Int, back : Int, end : STRING]] ==
  IF ~s.holding \/ s.end # "running" THEN s
  ELSE IF Unheld(s) = s THEN [s EXCEPT !.end = "hung"]
  ELSE UnheldAll[Unheld(s)]

\* scrollback_end
AtEnd(s) ==
  UnheldAll[Painted([s EXCEPT !.top = IF s.back > 0 THEN s.point ELSE @,
                              !.back = 0, !.point = None])]

\* resize_window_display: a larger window shows older lines too; a smaller one
\* gives up its empty lines first.
Resized(s, size) ==
  LET cnt == size - s.size
      lost == cnt + (s.size - s.distance)
      top == IF s.top = s.ip THEN s.top
             ELSE IF cnt > 0 THEN Max({0, s.top - cnt})
             ELSE IF cnt < 0 /\ lost < 0 THEN Min({s.ip, s.top - lost})
             ELSE s.top
  IN  Painted([s EXCEPT !.size = size, !.top = top])

------------------------------------------------------------------------------
Does(s) == Running /\ w' = s /\ UNCHANGED resized

\* A line of output (add_to_window splits what it is given into lines).
AddLine == w.ip < MaxLines /\ w.held < MaxLines /\ Does(LineAdded(w))

\* send_line, the Enter key, shows the next page.
Enter == Does(Unheld(w))

Amount == w.size \div 2

Backwards ==
  LET top == Max({0, w.top - Amount})
  IN  /\ w.top # 0 /\ w.back < MaxBack
      /\ Does(Painted([w EXCEPT !.point = IF @ = None THEN w.top ELSE @,
                                !.top = top, !.back = @ + (w.top - top)]))

Forwards ==
  LET top == Min({w.ip, w.top + Amount})
      s == Painted([w EXCEPT !.top = top, !.back = @ - (top - w.top)])
  IN  /\ w.top # w.ip /\ w.point # None
      /\ Does(IF s.back <= 0 THEN AtEnd(s) ELSE s)

ScrollbackEnd == w.point # None /\ Does(AtEnd(w))

ScrollbackStart ==
  /\ w.ip + 1 > w.size /\ w.back < MaxBack
  /\ Does(Painted([w EXCEPT !.point = IF @ = None THEN w.top ELSE @,
                            !.top = 0, !.back = @ + w.top]))

\* hold_mode, for the key TOGGLE_STOP_SCREEN and for /CLEAR -UNHOLD.
HoldMode(b) == [w EXCEPT !.hold = IF ~b /\ w.point # None THEN @ ELSE b]
ToggleStopScreen == Does(IF w.point # None THEN w ELSE HoldMode(~w.hold))
UnstopAllWindows == Does(HoldMode(FALSE))

\* /WINDOW HOLD_MODE writes the flag; /SET HOLD_MODE starts a page as well.
WindowHoldMode == \E b \in BOOLEAN : Does([w EXCEPT !.hold = b])
SetHoldMode == \E b \in BOOLEAN : Does([w EXCEPT !.hold = b, !.displayed = 0])

\* clear_window does nothing while lines are held or the user has scrolled.
Cleared(s) ==
  IF s.held > 0 \/ s.point # None THEN s
  ELSE Painted([s EXCEPT !.top = s.ip, !.displayed = 0])

Clear == Does(Cleared(w))
ClearScreen == Does(Cleared(HoldMode(FALSE)))

Resize ==
  \E n \in Sizes \ {w.size} :
    /\ Running
    /\ w' = Resized(w, n)
    /\ resized' = (resized \/ w.point # None)

\* flush_everything_being_held.  It links the first line below the display to
\* the end before it walks from there, so that only this line is deleted, and
\* the line above still points to it.
Flush ==
  LET start == IF w.point = None THEN w.top ELSE w.point
      end == IF start = w.ip THEN (IF w.size = 1 THEN "freed" ELSE "crashed")
             ELSE IF start + w.size >= w.ip THEN "running"
             ELSE IF w.held = 1 THEN "freed" ELSE "panicked"
  IN  Does([w EXCEPT !.end = end])

Next ==
  \/ AddLine \/ Enter \/ Backwards \/ Forwards \/ ScrollbackEnd
  \/ ScrollbackStart \/ ToggleStopScreen \/ UnstopAllWindows \/ WindowHoldMode
  \/ SetHoldMode \/ Clear \/ ClearScreen \/ Resize \/ Flush

Spec == Init /\ [][Next]_vars

------------------------------------------------------------------------------
\* When nothing is held and the user has not scrolled back, the newest line is
\* on the display: no sequence of scrolling, holding, resizing and clearing
\* leaves the window looking at older lines without the marks (the hold
\* indicator, scrollback_point) that say so.
BottomShown ==
  (Running /\ ~resized /\ ~w.holding /\ w.point = None) => w.ip - w.top <= w.size

\* The abort() of scroll_window is reached only after hold mode was switched
\* while lines are held; scrolling back alone does not reach it.
AbortsUnheld ==
  w'.end = "aborted" => w.holding
==============================================================================
