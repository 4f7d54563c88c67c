------------------------------- MODULE Timers -------------------------------
(***************************************************************************)
(* The timer list of timer.c: /TIMER, the callbacks of the program, and    *)
(* ExecuteTimers, which io() calls once per pass.  A timer's command or    *)
(* callback runs inside ExecuteTimers and may itself add, delete or list   *)
(* timers, and time goes on while it does; ExecuteTimers is therefore cut  *)
(* at the calls it makes.                                                  *)
(***************************************************************************)
EXTENDS Integers, SequencesExt

CONSTANTS
    Wanted,       \* refnums asked for with -REFNUM; 0 is a name that is no number
    Waits,        \* waiting times asked for, in seconds
    Counts,       \* numbers of executions asked for, -1 without end
    Commands,     \* "delete" and "delete all", if the run gives them
    MaxTimers,    \* bound on the timers that exist
    MaxRef,       \* bound on the refnums given out
    MaxTime,      \* bound on the clock
    Earliest      \* bound: times below it are not told apart

ASSUME WantedAssumption == Wanted \subseteq Nat
ASSUME WaitsAssumption == Waits \subseteq Int \ {0}
ASSUME CountsAssumption == Counts \subseteq (Nat \ {0}) \cup {-1}
ASSUME CommandsAssumption == Commands \subseteq {"delete", "delete all"}
ASSUME BoundsAssumption == /\ MaxTimers \in Nat /\ MaxRef \in Nat /\ MaxTime \in Nat
                           /\ Earliest \in Int \ Nat

None == -1

VARIABLES
    PendingTimers,  \* the list, its head first
    running,        \* the timer ExecuteTimers has taken off the list, or NoTimer
    now,            \* the time ExecuteTimers works with, or None: parsingtimer = 0
    clock,          \* time(NULL)
    hung            \* delete_all_timers loops without end

vars == <<PendingTimers, running, now, clock, hung>>

(* `start' and `total' are history variables: the time of the call of      *)
(* add_timer and the number of executions it asked for.                    *)
Timer == [ref : 0 .. MaxRef, time : Int, interval : Int \ {0}, events : Int \ {0},
          start : Nat, total : Int \ {0}]

NoTimer == [ref |-> 0, time |-> 0, interval |-> 0, events |-> 0,
            start |-> 0, total |-> 0]

----------------------------------------------------------------------------

Pending == 1 .. Len(PendingTimers)

(* Mutant: a timer is put before those of the same or an earlier time.     *)
ScheduledFirst(list, t) == <<t>> \o list

(* schedule_timer: before the first timer that is due later.               *)
Scheduled(list, t) ==
    LET later == {k \in 1 .. Len(list) : list[k].time > t.time}
    IN InsertAt(list, IF later = {} THEN Len(list) + 1 ELSE Min(later), t)

(* create_timer_ref, when the user does not care.                          *)
NextRef == IF PendingTimers = <<>> THEN 1
           ELSE 1 + Max({PendingTimers[k].ref : k \in Pending})

Later(time, wait) == IF time + wait < Earliest THEN Earliest ELSE time + wait

(* Who may call the functions of timer.c: the user between two passes, and *)
(* the command or the callback of the timer that runs.                     *)
Caller == ~hung /\ (now = None \/ running # NoTimer)

AddTimer(ref, when, events) ==
    /\ Caller
    /\ Len(PendingTimers) + (IF running = NoTimer THEN 0 ELSE 1) < MaxTimers
    /\ ref <= MaxRef
    /\ when # 0
    /\ PendingTimers' = Scheduled(PendingTimers,
            [ref |-> ref, time |-> Later(clock, when), interval |-> when,
             events |-> events, start |-> clock, total |-> events])
    /\ UNCHANGED <<running, now, clock, hung>>

(* /TIMER -REFNUM want when, and /TIMER [-REPEAT events] when.  A callback *)
(* of the program (timed_server, delay_gain_nick) is added as by the       *)
(* latter, with events = 1.                                                *)
AddWanted(want, when) ==
    /\ \A k \in Pending : PendingTimers[k].ref # want
    /\ AddTimer(want, when, 1)

AddUser(when, events) == AddTimer(NextRef, when, events)

(* delete_timer refuses while any timer runs.                              *)
DeleteTimer(ref) ==
    LET same == {k \in Pending : PendingTimers[k].ref = ref} IN
    /\ "delete" \in Commands
    /\ Caller /\ running = NoTimer
    /\ same # {}
    /\ PendingTimers' = RemoveAt(PendingTimers, Min(same))
    /\ UNCHANGED <<running, now, clock, hung>>

(* delete_all_timers calls delete_timer until the list is empty.           *)
DeleteAllTimers ==
    /\ "delete all" \in Commands
    /\ Caller /\ PendingTimers # <<>>
    /\ IF running = NoTimer
       THEN PendingTimers' = <<>> /\ UNCHANGED hung
       ELSE hung' = TRUE /\ UNCHANGED PendingTimers
    /\ UNCHANGED <<running, now, clock>>

----------------------------------------------------------------------------
(* ExecuteTimers.                                                          *)

StartPass ==
    /\ ~hung /\ now = None /\ PendingTimers # <<>>
    /\ now' = clock
    /\ UNCHANGED <<PendingTimers, running, clock, hung>>

(* Mutant: a timer runs in the second after its time only.                 *)
DueLater == PendingTimers # <<>> /\ Head(PendingTimers).time < now

Due == PendingTimers # <<>> /\ Head(PendingTimers).time <= now

(* Mutant: the whole list is walked although it is in order.               *)
FireLast ==
    /\ now # None /\ running = NoTimer /\ Due
    /\ running' = Last(PendingTimers)
    /\ PendingTimers' = Front(PendingTimers)
    /\ UNCHANGED <<now, clock, hung>>

Fire ==
    /\ now # None /\ running = NoTimer /\ Due
    /\ running' = Head(PendingTimers)
    /\ PendingTimers' = Tail(PendingTimers)
    /\ UNCHANGED <<now, clock, hung>>

(* Mutants of Reschedule: the next time counted from the end of this       *)
(* execution; a timer that is put back after its last execution.           *)
RescheduleFromNow ==
    /\ ~hung /\ running # NoTimer /\ running.events # 1
    /\ PendingTimers' = Scheduled(PendingTimers,
            [running EXCEPT !.events = IF @ < 0 THEN @ ELSE @ - 1,
                            !.time = Later(clock, running.interval)])
    /\ running' = NoTimer
    /\ UNCHANGED <<now, clock, hung>>

RescheduleAlways ==
    /\ ~hung /\ running # NoTimer
    /\ PendingTimers' = Scheduled(PendingTimers,
            [running EXCEPT !.events = IF @ < 0 THEN @ ELSE @ - 1,
                            !.time = Later(@, running.interval)])
    /\ running' = NoTimer
    /\ UNCHANGED <<now, clock, hung>>

(* A count below -1 goes down and never comes to 1: it is kept as it is.   *)
Reschedule ==
    /\ ~hung /\ running # NoTimer /\ running.events # 1
    /\ PendingTimers' = Scheduled(PendingTimers,
            [running EXCEPT !.events = IF @ < 0 THEN @ ELSE @ - 1,
                            !.time = Later(@, running.interval)])
    /\ running' = NoTimer
    /\ UNCHANGED <<now, clock, hung>>

Free ==
    /\ ~hung /\ running # NoTimer /\ running.events = 1
    /\ running' = NoTimer
    /\ UNCHANGED <<PendingTimers, now, clock, hung>>

(* Mutant: the pass ends after the first timer, with parsingtimer left on. *)
EndPassStuck ==
    /\ now # None /\ running = NoTimer /\ ~Due
    /\ UNCHANGED vars

EndPass ==
    /\ now # None /\ running = NoTimer /\ ~Due
    /\ now' = None
    /\ UNCHANGED <<PendingTimers, running, clock, hung>>

ExecuteTimers == StartPass \/ Fire \/ Reschedule \/ Free \/ EndPass

Tick == /\ clock < MaxTime
        /\ clock' = clock + 1
        /\ UNCHANGED <<PendingTimers, running, now, hung>>

Init == /\ PendingTimers = <<>> /\ running = NoTimer
        /\ now = None /\ clock = 0 /\ hung = FALSE

Next ==
    \/ \E want \in Wanted, when \in Waits : AddWanted(want, when)
    \/ \E when \in Waits, events \in Counts : AddUser(when, events)
    \/ \E k \in Pending : DeleteTimer(PendingTimers[k].ref)
    \/ DeleteAllTimers
    \/ ExecuteTimers
    \/ Tick

Spec == Init /\ [][Next]_vars

(* io() is called for ever, and calls ExecuteTimers at the end of each     *)
(* pass; a timer's command comes to its end; time goes on.                 *)
FairSpec == Spec /\ WF_vars(ExecuteTimers) /\ WF_vars(Tick)

----------------------------------------------------------------------------
(* Properties that hold.                                                   *)

(* A timer on the list still has an execution to come.                     *)
TypeOK == /\ PendingTimers \in Seq(Timer)
          /\ running \in Timer \cup {NoTimer}
          /\ now \in Int /\ clock \in Nat
          /\ hung \in BOOLEAN

(* The list is in the order of the times, which both the loop of           *)
(* ExecuteTimers and TimerTimeout rely on when they look at the head only, *)
(* whatever is added, deleted or rescheduled while a timer runs.           *)
Sorted == \A i, j \in Pending :
              i <= j => PendingTimers[i].time <= PendingTimers[j].time

(* A repeating timer does not drift and runs as often as asked: its n-th   *)
(* execution is due n intervals after its start, however late the others   *)
(* were, and the executions done and to come add up to the count.          *)
Punctual(t) ==
    IF t.total > 0
    THEN t.events \in 1 .. t.total
         /\ t.time = t.start + t.interval * (t.total - t.events + 1)
    ELSE t.events = t.total /\ t.time > t.start /\ (t.time - t.start) % t.interval = 0

OnTime == /\ \A k \in Pending : PendingTimers[k].interval > 0 => Punctual(PendingTimers[k])
          /\ running # NoTimer /\ running.interval > 0 => Punctual(running)

(* No timer runs before its time, or before another that was due earlier.  *)
EarliestFirst ==
    [][running = NoTimer /\ running' # NoTimer =>
          /\ running'.time <= clock
          /\ \A k \in Pending : running'.time <= PendingTimers[k].time]_vars

(* What keeps a pass from ending: the deletion of all timers by one of     *)
(* them, and timers that are due again at once.                            *)
Stuck == hung \/ \E k \in Pending : PendingTimers[k].interval < 0

(* A timer that is due runs, or is deleted.                                *)
DueRef(r) == \E k \in Pending : PendingTimers[k].ref = r /\ PendingTimers[k].time <= clock

DueTimersRun == \A r \in 0 .. MaxRef : DueRef(r) ~> (~DueRef(r) \/ Stuck)

(* ExecuteTimers comes to its end, whatever its timers add meanwhile: io() *)
(* goes back to the servers and the keyboard.                              *)
PassEnds == now # None ~> (now = None \/ Stuck)
=============================================================================
