------------------------------- MODULE Windows -------------------------------
(***************************************************************************)
(* The windows of the screen (window.c): the list of visible windows from  *)
(* top to bottom, the list of hidden ones, the lines each visible window   *)
(* has, the current window and the one that was current before.            *)
(*                                                                         *)
(* A window is named by its reference number.  In the code it is a struct; *)
(* swap_window exchanges the contents of two structs, so a pointer kept to *)
(* the first then shows the second: operators below say which of the       *)
(* pointers (current_window, the window of the command) follow.            *)
(* The status line of a window takes one line (w_status_size, which only   *)
(* new_window sets), the input line one more.  Hidden windows have no      *)
(* lines: what the code leaves in their fields is overwritten before use.  *)
(***************************************************************************)
EXTENDS Integers, SequencesExt

CONSTANTS MaxRefnum,    \* bound on reference numbers, and so on windows
          MinSize,      \* MIN_WINDOW_SIZE
          Rows,         \* the sizes the terminal may have
          Amounts,      \* the numbers a user gives to GROW, SIZE, MOVE, GOTO
          SplitBiggest  \* the variable ALWAYS_SPLIT_BIGGEST

WindowsAssumption ==
  /\ MaxRefnum \in Nat \ {0}
  /\ MinSize \in Nat \ {0}
  /\ Rows \subseteq Nat /\ Rows # {}
  /\ Amounts \subseteq Int
  /\ SplitBiggest \in BOOLEAN

VARIABLES screen,   \* the lists, see TypeOK
          rows,     \* term_rows
          target    \* the window the options of a /WINDOW command are about

vars == <<screen, rows, target>>

Refnums == 1 .. MaxRefnum
None == 0
Visible(s) == ToSet(s.list)
Windows(s) == ToSet(s.list) \cup ToSet(s.hidden)
PosOf(s, w) == CHOOSE i \in DOMAIN s.list : s.list[i] = w

TypeOK ==
  /\ screen \in [list : Seq(Refnums), hidden : Seq(Refnums), current : Refnums,
                 last : Refnums, count : Nat, top : [Refnums -> Int],
                 bottom : [Refnums -> Int], size : [Refnums -> Int],
                 fixed : SUBSET Refnums, skip : SUBSET Refnums,
                 end : {"running", "exited", "hung", "crashed"}]
  /\ rows \in Rows
  /\ target \in Refnums

------------------------------------------------------------------------------
(* The current window.                                                     *)

\* The visible windows that follow position i, cyclically, i's own last.
After(s, i) == SubSeq(s.list, i + 1, Len(s.list)) \o SubSeq(s.list, 1, i)

\* get_next_window over the candidates in order.  When all of them are to be
\* skipped it stops at the current window; but a current window that has just
\* left the list is never met again, and the loop does not end.
FirstUnskipped(s, candidates) ==
  LET wanted == SelectSeq(candidates, LAMBDA w : w \notin s.skip)
  IN  IF wanted # <<>> THEN [s EXCEPT !.current = Head(wanted)]
      ELSE IF s.current \in Visible(s) THEN s
      ELSE [s EXCEPT !.end = "hung"]

\* set_current_window, for w or (None, or a hidden one) for the window that
\* was current before; "candidates" is what get_next_window would go through.
SetCurrentAmong(s, w, candidates) ==
  LET t == [s EXCEPT !.last = s.current]
  IN  IF w \in Visible(s) THEN [t EXCEPT !.current = w]
      ELSE IF s.last \in Visible(s) THEN [t EXCEPT !.current = s.last]
      ELSE FirstUnskipped(t, candidates)

SetCurrent(s, w) == SetCurrentAmong(s, w, After(s, PosOf(s, s.current)))

------------------------------------------------------------------------------
(* Places and sizes.                                                       *)

\* recalculate_window_positions: every window below the one before it.
Placed(s) ==
  LET step(acc, w) ==
        [top |-> [acc.top EXCEPT ![w] = acc.line],
         bottom |-> [acc.bottom EXCEPT ![w] = acc.line + s.size[w]],
         line |-> acc.line + s.size[w] + 1]
      at == FoldLeft(step, [top |-> s.top, bottom |-> s.bottom, line |-> 0], s.list)
  IN  [s EXCEPT !.top = at.top, !.bottom = at.bottom]

\* remove_from_window_list: the window below takes the lines of the one that
\* leaves, or the one above when there is none below.
Closed(s, w) ==
  LET i == PosOf(s, w)
      other == IF i < Len(s.list) THEN s.list[i + 1] ELSE s.list[i - 1]
      top == IF i < Len(s.list) THEN s.top[w] ELSE s.top[other]
      bottom == IF i < Len(s.list) THEN s.bottom[other] ELSE s.bottom[w]
  IN  [s EXCEPT !.list = RemoveAt(s.list, i),
                !.count = @ - 1,
                !.top[other] = top,
                !.bottom[other] = bottom,
                !.size[other] = bottom - top,
                !.top[w] = 0, !.bottom[w] = 0, !.size[w] = 0]

\* A mutant: set_current_window is not called.
ClosedOnly(s, w) == Closed(s, w)

Reseated(s, i) == SetCurrentAmong(s, None, After(s, i))

\* A window that goes is not noted as the one that was current before.
Unnoted(s, w) == [s EXCEPT !.last = IF @ = w THEN s.current ELSE @]

RemoveVisible(s, w) ==
  Unnoted(IF w = s.current THEN Reseated(Closed(s, w), PosOf(s, w) - 1) ELSE Closed(s, w), w)

\* add_to_window_list: the window to split, None when none is large enough.
Splittable(s) ==
  LET min == 2 * MinSize + 1
      largest == CHOOSE w \in Visible(s) :
                   \A v \in Visible(s) : \/ s.size[v] < s.size[w]
                                         \/ s.size[v] = s.size[w]
                                            /\ PosOf(s, w) <= PosOf(s, v)
  IN  IF s.size[s.current] >= min /\ ~SplitBiggest THEN s.current
      ELSE IF s.size[largest] >= min THEN largest ELSE None

\* A mutant: the status line of the new window is forgotten.
SplitOver(s, w) ==
  LET old == Splittable(s)
      middle == (s.top[old] + s.bottom[old]) \div 2
  IN  [s EXCEPT !.list = InsertAt(s.list, PosOf(s, old), w),
                !.count = @ + 1,
                !.top[w] = s.top[old], !.bottom[w] = middle,
                !.size[w] = middle - s.top[old],
                !.top[old] = middle,
                !.size[old] = s.bottom[old] - middle]

\* w gets the upper half of the window that is split.
Split(s, w) ==
  LET old == Splittable(s)
      middle == (s.top[old] + s.bottom[old]) \div 2
  IN  [s EXCEPT !.list = InsertAt(s.list, PosOf(s, old), w),
                !.count = @ + 1,
                !.top[w] = s.top[old], !.bottom[w] = middle,
                !.size[w] = middle - s.top[old],
                !.top[old] = middle + 1,
                !.size[old] = s.bottom[old] - (middle + 1)]

\* hide_window
Hid(s, w) ==
  IF s.end # "running" THEN s ELSE SetCurrent([s EXCEPT !.hidden = <<w>> \o @], None)

Hide(s, w) == IF s.count = 1 \/ w \notin Visible(s) THEN s ELSE Hid(RemoveVisible(s, w), w)

\* C's division rounds towards zero.
Quotient(a, b) == IF a < 0 THEN -((-a) \div b) ELSE a \div b

Sum(s, W) == FoldLeft(LAMBDA n, w : IF w \in W THEN n + s.size[w] ELSE n, 0, s.list)

\* recalculate_windows, second and third step: the lines in use, the windows
\* that may lose lines, and whether some have to be hidden.
Used(s) == 1 + Sum(s, Visible(s)) + Len(s.list)
Resizable(s) == IF Visible(s) \subseteq s.fixed THEN Visible(s)
                ELSE Visible(s) \ s.fixed
TooMany(s, lines) ==
  /\ Len(s.list) > 1
  /\ Used(s) > lines
  /\ Used(s) - lines > Sum(s, Resizable(s)) - MinSize * Cardinality(Resizable(s))

\* recalculate_windows, fourth step: one pass over the windows that shares out
\* what is left of the difference.  A fixed window is passed over, unless last.
Share(pass, display, acc, w) ==
  LET isLast == w = Last(acc.s.list)
      size == acc.s.size[w]
      part == IF pass = 1 /\ ~isLast /\ display # 0
              THEN Quotient(size * acc.excess, display) ELSE acc.excess
      adj == IF part < 0 /\ size + part < MinSize THEN MinSize - size ELSE part
  IN  IF acc.excess = 0 \/ (w \in acc.s.fixed /\ ~isLast) THEN acc
      ELSE [s |-> [acc.s EXCEPT !.size[w] = @ + adj], excess |-> acc.excess - adj]

\* Two passes adjust the sizes.  When lines are left over the program ends
\* ("couldn't figure out how to resize!").
Pass(p, s, acc) ==
  FoldLeft(LAMBDA a, w : Share(p, Sum(s, Resizable(s)), a, w), acc, s.list)

Fitted(s, shared) ==
  IF shared.excess # 0 THEN [s EXCEPT !.end = "exited"] ELSE Placed(shared.s)

Adjusted(s, lines) ==
  IF s.end # "running" THEN s
  ELSE Fitted(s, Pass(0, s, Pass(1, s, [s |-> s, excess |-> lines - Used(s)])))

\* recalculate_windows for a terminal of that many lines: windows are hidden
\* from the top until the others fit.
Recalculated(s, lines) ==
  LET hideFirst(t, i) == IF t.end = "running" /\ TooMany(t, lines)
                         THEN Hide(t, Head(t.list)) ELSE t
  IN  IF lines < 2 * MinSize THEN [s EXCEPT !.end = "exited"]
      ELSE Adjusted(FoldLeft(hideFirst, s, s.list), lines)

------------------------------------------------------------------------------
(* What the commands and the keys are made of.                             *)

\* swap_window: the hidden window h takes the place and the lines of v.
CanSwap(s, v, h) == v \in Visible(s) /\ h \in ToSet(s.hidden)

Swap(s, v, h) ==
  IF ~CanSwap(s, v, h) THEN s
  ELSE Recalculated([s EXCEPT
         !.list = [i \in DOMAIN @ |-> IF @[i] = v THEN h ELSE @[i]],
         !.hidden = <<v>> \o SelectSeq(@, LAMBDA w : w # h),
         !.current = IF @ = v THEN h ELSE @,
         !.last = v,
         !.top = [@ EXCEPT ![h] = s.top[v], ![v] = 0],
         !.bottom = [@ EXCEPT ![h] = s.bottom[v], ![v] = 0],
         !.size = [@ EXCEPT ![h] = s.size[v], ![v] = 0]], rows)

\* The window a pointer shows after that.
Swapped(s, v, h, w) ==
  IF ~CanSwap(s, v, h) THEN w ELSE IF w = v THEN h ELSE IF w = h THEN v ELSE w

\* delete_window.  The last visible window is first swapped with the window
\* hidden last; when there is none the window stays.
Removed(s, w) ==
  LET t == IF w \in Visible(s) THEN RemoveVisible(s, w)
           ELSE [s EXCEPT !.hidden = SelectSeq(@, LAMBDA v : v # w)]
  IN  [t EXCEPT !.fixed = @ \ {w}, !.skip = @ \ {w}]

\* A mutant: the window that was current before is not looked at.
DeleteOnly(s, w) ==
  IF w \in Visible(s) /\ s.count = 1
  THEN IF s.hidden = <<>> THEN s ELSE Removed(Swap(s, w, Head(s.hidden)), w)
  ELSE Removed(s, w)

Delete(s, w) ==
  IF w \in Visible(s) /\ s.count = 1
  THEN IF s.hidden = <<>> THEN s
       ELSE Removed(Unnoted(Swap(s, w, Head(s.hidden)), w), w)
  ELSE Removed(Unnoted(s, w), w)

\* show_window.  A hidden window for which there is no room goes to the head
\* of the hidden ones.
Show(s, w) ==
  LET others == SelectSeq(s.hidden, LAMBDA v : v # w)
      t == [s EXCEPT !.hidden = others]
  IN  IF w \in Visible(s) THEN SetCurrent(s, w)
      ELSE IF Splittable(s) = None THEN [s EXCEPT !.hidden = <<w>> \o others]
      ELSE SetCurrent(Split(t, w), w)

\* resize_window: the next window that is not fixed, cyclically, gives the
\* lines or takes them.
Resize(s, w, size) ==
  LET i == PosOf(s, w)
      others == SelectSeq(SubSeq(After(s, i), 1, Len(s.list) - 1),
                          LAMBDA v : v \notin s.fixed)
      otherSize == s.size[Head(others)] + s.size[w] - size
  IN  IF w \notin Visible(s) \/ others = <<>> THEN s
      ELSE IF size < MinSize \/ otherSize < MinSize THEN s
      ELSE Placed([s EXCEPT !.size = [@ EXCEPT ![w] = size,
                                               ![Head(others)] = otherSize]])

\* move_window.  Moving up by more than the number of windows gives a negative
\* remainder, and the walk over the list leaves it.
Moved(s, w, offset) ==
  LET i == PosOf(s, w) - 1
      others == RemoveAt(s.list, i + 1)
      sum == (IF offset < 0 THEN s.count ELSE 0) + offset + i
      to == sum - s.count * Quotient(sum, s.count)
  IN  IF offset = 0 \/ w \notin Visible(s) THEN s
      ELSE IF to < 0 THEN [s EXCEPT !.end = "crashed"]
      ELSE Placed([s EXCEPT !.list = InsertAt(others, to + 1, w)])

\* rebalance_windows divides by the number of windows that are not fixed.
Balanced(s) ==
  LET free == Visible(s) \ s.fixed
      n == Cardinality(free)
      each == Sum(s, free) \div n
      extra == Sum(s, free) % n
      step(acc, w) == IF w \notin free THEN acc
                      ELSE [sizes |-> [acc.sizes EXCEPT ![w] = each + (IF acc.extra > 0 THEN 1 ELSE 0)],
                            extra |-> IF acc.extra > 0 THEN acc.extra - 1 ELSE 0]
  IN  IF n = 0 THEN [s EXCEPT !.end = "crashed"]
      ELSE Placed([s EXCEPT !.size = FoldLeft(step, [sizes |-> @, extra |-> extra], s.list).sizes])

\* window_number: the window of that number, if there is one, gets the number
\* the window had.  last_window_refnum is left as it is.
Renumbered(s, w, n) ==
  LET name(v) == IF v = w THEN n ELSE IF v = n THEN w ELSE v
      names(f) == [v \in Refnums |-> f[name(v)]]
      seq(q) == [i \in DOMAIN q |-> name(q[i])]
  IN  [s EXCEPT !.list = seq(@), !.hidden = seq(@), !.current = name(@),
                !.top = names(@), !.bottom = names(@), !.size = names(@),
                !.fixed = {name(v) : v \in @}, !.skip = {name(v) : v \in @}]

\* swap_next_window and swap_previous_window: the hidden window whose number
\* follows that of the current one, or precedes it, going round.
HiddenWhere(s, P(_)) == {w \in ToSet(s.hidden) : P(w)}
NextHidden(s) ==
  LET above == HiddenWhere(s, LAMBDA w : w > s.current)
  IN  IF above # {} THEN Min(above) ELSE Min(ToSet(s.hidden) \cup {s.current})
PreviousHidden(s) ==
  LET below == HiddenWhere(s, LAMBDA w : w < s.current)
  IN  IF below # {} THEN Max(below) ELSE Max(ToSet(s.hidden) \cup {s.current})

------------------------------------------------------------------------------
Init ==
  /\ rows \in {r \in Rows : r >= 2 * MinSize}
  /\ target = 1
  /\ screen = [list |-> <<1>>, hidden |-> <<>>, current |-> 1, last |-> 1,
               count |-> 1,
               top |-> [w \in Refnums |-> 0],
               bottom |-> [w \in Refnums |-> IF w = 1 THEN rows - 2 ELSE 0],
               size |-> [w \in Refnums |-> IF w = 1 THEN rows - 2 ELSE 0],
               fixed |-> {}, skip |-> {}, end |-> "running"]

\* An option of /WINDOW does s to the windows and returns w, the window the
\* next option of the command is about.
Option(s, w) ==
  /\ screen.end = "running"
  /\ screen' = s
  /\ target' = w
  /\ UNCHANGED rows

\* The same for a command, or a key, that ends here: the next one starts with
\* the current window.
Command(s) == Option(s, s.current)

\* cmd_window starts with the current window.
NewCommand == target # screen.current /\ Command(screen)

\* new_window numbers the window with the first number that is free.
WindowNew ==
  LET new == Min(Refnums \ Windows(screen))
  IN  /\ Windows(screen) # Refnums
      /\ IF Splittable(screen) = None THEN Option(screen, target)
         ELSE Command(SetCurrent(Split(screen, new), new))

WindowKill == Command(Delete(screen, target))
KeyKill == Command(Delete(screen, screen.current))

\* window_kill_others and window_hide_others go through the list as it was.
Others == SelectSeq(screen.list, LAMBDA w : w # screen.current)
WindowKillOthers == Command(FoldLeft(Delete, screen, Others))
WindowHideOthers ==
  Command(FoldLeft(LAMBDA s, w : IF s.end = "running" THEN Hide(s, w) ELSE s,
                   screen, Others))

\* window_killswap deletes the window whose number swap_window noted.
KillLast(s) == IF s.end = "running" THEN Delete(s, s.last) ELSE s

WindowKillSwap ==
  /\ screen.hidden # <<>>
  /\ Command(KillLast(Swap(screen, screen.current, Head(screen.hidden))))

WindowHide == Command(Hide(screen, target))
KeyHide == Command(Hide(screen, screen.current))
WindowShow == \E w \in Windows(screen) : Command(Show(screen, w))

\* window_show_all stops at the first window for which there is no room.
WindowShowAll ==
  Option(FoldLeft(LAMBDA s, w : IF s.hidden = <<>> THEN s ELSE Show(s, Head(s.hidden)),
                  screen, screen.hidden), target)

SwapIn(v, h) == Option(Swap(screen, v, h), Swapped(screen, v, h, target))
WindowSwap == \E h \in ToSet(screen.hidden) : SwapIn(target, h)
SwapLast == screen.hidden # <<>> /\ SwapIn(screen.current, Head(screen.hidden))
SwapNext == screen.hidden # <<>> /\ SwapIn(screen.current, NextHidden(screen))
SwapPrevious == screen.hidden # <<>> /\ SwapIn(screen.current, PreviousHidden(screen))

\* window_back reads the window without looking whether there is one.
WindowBack ==
  IF screen.last \in Visible(screen) THEN Option(SetCurrent(screen, screen.last), target)
  ELSE IF screen.last \in Windows(screen) THEN SwapIn(screen.current, screen.last)
  ELSE Option([screen EXCEPT !.end = "crashed"], target)

WindowLast == Command(SetCurrent(screen, None))
WindowRefnum ==
  \E w \in Visible(screen) : Command(SetCurrent(screen, w))

WindowGoto ==
  \E n \in Amounts : n \in 1 .. screen.count /\ Command(SetCurrent(screen, screen.list[n]))

\* next_window and previous_window
NextWindow ==
  /\ screen.count # 1
  /\ LET s == FirstUnskipped(screen, After(screen, PosOf(screen, screen.current)))
     IN  Command(SetCurrent(screen, s.current))
PreviousWindow ==
  /\ screen.count # 1
  /\ LET i == PosOf(screen, screen.current)
         s == FirstUnskipped(screen, Reverse(After(screen, i - 1)))
     IN  Command(SetCurrent(screen, s.current))

WindowNumber ==
  \E n \in Refnums : Option(Renumbered(screen, target, n), n)

WindowMove == \E n \in Amounts : Option(Moved(screen, target, n), target)
WindowGrow == \E n \in Amounts :
  Option(Resize(screen, target, screen.size[target] + n), target)
WindowSize == \E n \in Amounts : Option(Resize(screen, target, n), target)
WindowBalance == Option(Balanced(screen), target)
WindowFixed ==
  \/ Option([screen EXCEPT !.fixed = @ \cup {target}], target)
  \/ Option([screen EXCEPT !.fixed = @ \ {target}], target)
WindowSkip ==
  \/ Option([screen EXCEPT !.skip = @ \cup {target}], target)
  \/ Option([screen EXCEPT !.skip = @ \ {target}], target)

\* refresh_screen, when the terminal has another size; window_key_balance is
\* the same with the size it has.
RefreshScreen ==
  /\ screen.end = "running"
  /\ rows' \in Rows
  /\ screen' = Recalculated(screen, rows')
  /\ target' = screen'.current

Next ==
  \/ NewCommand \/ WindowNew \/ WindowKill \/ KeyKill \/ WindowKillOthers
  \/ WindowHideOthers \/ WindowKillSwap \/ WindowHide \/ KeyHide \/ WindowShow
  \/ WindowShowAll \/ WindowSwap \/ SwapLast \/ SwapNext \/ SwapPrevious
  \/ WindowBack \/ WindowLast \/ WindowRefnum \/ WindowGoto \/ NextWindow
  \/ PreviousWindow \/ WindowNumber \/ WindowMove \/ WindowGrow \/ WindowSize
  \/ WindowBalance \/ WindowFixed \/ WindowSkip \/ RefreshScreen

Spec == Init /\ [][Next]_vars

------------------------------------------------------------------------------
Running == screen.end = "running"

\* The visible windows and their status lines cover the lines above the input
\* line, each line once, and no window is smaller than it may be: splitting,
\* closing, swapping, moving and resizing keep three fields of each window in
\* step with the list (add_to_window_list, remove_from_window_list).
Tiled ==
  Running =>
    /\ \A i \in DOMAIN screen.list :
         LET w == screen.list[i]
         IN  /\ screen.top[w] = IF i = 1 THEN 0
                                ELSE screen.bottom[screen.list[i - 1]] + 1
             /\ screen.size[w] = screen.bottom[w] - screen.top[w]
             /\ screen.size[w] >= MinSize
    /\ screen.bottom[Last(screen.list)] = rows - 2
    /\ screen.count = Len(screen.list)

\* A window is on one of the two lists, once, and the current window is one of
\* the visible ones (set_current_window: "This assures you that the new current
\* window is visible").
CurrentIsVisible ==
  Running => /\ IsInjective(screen.list \o screen.hidden)
             /\ screen.current \in Visible(screen)

\* Only /WINDOW NUMBER makes last_window_refnum the number of no window:
\* deleting a window, however it is done, leaves a number that window_back can
\* follow.
KeepsLast ==
  (screen.last \in Windows(screen) /\ Running')
    => (screen.last' \in Windows(screen)' \/ WindowNumber)
==============================================================================
