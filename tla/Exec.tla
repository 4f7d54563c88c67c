--------------------------------- MODULE Exec ---------------------------------
(***************************************************************************)
(* The processes started with /EXEC (exec.c): the table they are listed    *)
(* in, their end, which the program learns in two parts (the end of their  *)
(* output from select, their exit from SIGCHLD) in either order, and the   *)
(* server that their redirected output goes to.                            *)
(*                                                                         *)
(* The table is an array with holes: a process keeps its index, which the  *)
(* user types, until it is deleted.  A server is named by its place in the *)
(* first list; the program knows it by its index.  No server is added.     *)
(* Logical names of processes and the choice of who gets their output are  *)
(* left out.                                                               *)
(***************************************************************************)
EXTENDS Integers, SequencesExt

CONSTANTS Pids,      \* process ids; one is not used again while it is listed
          MaxSize,   \* bound on the size of the table
          Limit,     \* SHELL_LIMIT, 0 for none
          ServerCount \* how many servers are listed at first

ExecAssumption ==
  /\ Pids \subseteq Nat \ {0}
  /\ MaxSize \in Nat /\ Limit \in Nat /\ ServerCount \in Nat \ {0}

VARIABLES process_list,
          child,          \* what the system knows of each process id
          got_sigchild,
          servers,        \* the server list: a sequence of places in the first
          current         \* the index of the current window's server

vars == <<process_list, child, got_sigchild, servers, current>>

Empty == [pid |-> 0]
Listed == {i \in DOMAIN process_list : process_list[i] # Empty}
PidsListed == {process_list[i].pid : i \in Listed}

TypeOK ==
  /\ process_list \in Seq({Empty} \cup
       [pid : Pids, fds : SUBSET {"stdout", "stderr"},
        counter : 0 .. Limit, exited : BOOLEAN,
        server : -1 .. ServerCount, own : 1 .. ServerCount])
  /\ child \in [Pids -> [state : {"none", "running", "exited"},
                         writes : SUBSET {"stdout", "stderr"}]]
  /\ got_sigchild \in Nat
  /\ current \in DOMAIN servers

Init ==
  /\ process_list = <<>>
  /\ child = [p \in Pids |-> [state |-> "none", writes |-> {}]]
  /\ got_sigchild = 0
  /\ servers = [n \in 1 .. ServerCount |-> n]
  /\ current \in DOMAIN servers

------------------------------------------------------------------------------
\* delete_process: an entry at the end takes the holes before it with it.
DeleteProcess(list, i) ==
  LET holes == [list EXCEPT ![i] = Empty]
      last == Max({0} \cup {j \in DOMAIN holes : holes[j] # Empty})
  IN  IF i = Len(list) THEN SubSeq(holes, 1, last) ELSE holes

Finished(p) == p.exited /\ p.fds = {}
Settled(list, i) == IF Finished(list[i]) THEN DeleteProcess(list, i) ELSE list

\* Process ids the system may give; the least stands for any of them.
Free == {pid \in Pids : child[pid].state = "none" /\ pid \notin PidsListed}

\* start_process and add_process.  A pipe or a fork that fails lists nothing.
StartProcess(pid) ==
  LET holes == DOMAIN process_list \ Listed
      new == [pid |-> pid, fds |-> {"stdout", "stderr"}, counter |-> 0,
              exited |-> FALSE, server |-> current - 1, own |-> servers[current]]
  IN  /\ child[pid].state = "none" /\ pid \notin PidsListed
      /\ holes # {} \/ Len(process_list) < MaxSize
      /\ process_list' = IF holes # {} THEN [process_list EXCEPT ![Min(holes)] = new]
                         ELSE Append(process_list, new)
      /\ child' = [child EXCEPT ![pid] = [state |-> "running", writes |-> {"stdout", "stderr"}]]
      /\ UNCHANGED <<got_sigchild, servers, current>>

\* /EXEC -CLOSE.
Close(i) ==
  /\ i \in Listed /\ ~process_list[i].exited
  /\ process_list' = [process_list EXCEPT ![i].fds = {}]
  /\ UNCHANGED <<child, got_sigchild, servers, current>>

------------------------------------------------------------------------------
\* A process closes its output, or exits (by itself or from kill_process); what
\* it has started may keep the output open.
Ends(pid, out) ==
  /\ out \in child[pid].writes
  /\ child' = [child EXCEPT ![pid].writes = @ \ {out}]
  /\ UNCHANGED <<process_list, got_sigchild, servers, current>>

\* Signals that arrive together are one (sig_child).
Exits(pid) ==
  /\ child[pid].state = "running"
  /\ child' = [child EXCEPT ![pid].state = "exited"]
  /\ \/ got_sigchild' = got_sigchild + 1
     \/ got_sigchild > 0 /\ UNCHANGED got_sigchild
  /\ UNCHANGED <<process_list, servers, current>>

\* check_wait_status(-1), for one signal.
CheckWaitStatus ==
  /\ got_sigchild > 0
  /\ got_sigchild' = got_sigchild - 1
  /\ \/ /\ \A pid \in Pids : child[pid].state # "exited"
        /\ UNCHANGED <<process_list, child>>
     \/ \E pid \in Pids :
          /\ child[pid].state = "exited"
          /\ child' = [child EXCEPT ![pid].state = "none"]
          /\ process_list' =
               LET i == CHOOSE j \in Listed : process_list[j].pid = pid
               IN  IF pid \notin PidsListed THEN process_list
                   ELSE Settled([process_list EXCEPT ![i].exited = TRUE], i)
  /\ UNCHANGED <<servers, current>>

\* A mutant: an exited process whose output ends stays.
ReadUntilClosed(list, i, out) ==
  IF out \in child[list[i].pid].writes
  THEN [list EXCEPT ![i].counter = IF @ = Limit THEN @ ELSE @ + 1]
  ELSE [list EXCEPT ![i].fds = @ \ {out}]

\* What is read from one output: a line, or the end of it.
Read(list, i, out) ==
  IF out \in child[list[i].pid].writes
  THEN [list EXCEPT ![i].counter = IF @ = Limit THEN @ ELSE @ + 1]
  ELSE Settled([list EXCEPT ![i].fds = @ \ {out}], i)

\* Deleted meanwhile, or never there.
There(list, i) == i \in DOMAIN list /\ list[i] # Empty

ReadBoth(list, i, ready) ==
  LET first == IF There(list, i) /\ <<i, "stdout">> \in ready THEN Read(list, i, "stdout") ELSE list
  IN  IF There(first, i) /\ <<i, "stderr">> \in ready THEN Read(first, i, "stderr") ELSE first

\* check_process_limits, for one process.
Limited(list, i) ==
  IF Limit > 0 /\ There(list, i) /\ list[i].counter >= Limit
  THEN Settled([list EXCEPT ![i].fds = {}], i)
  ELSE list

Open == {r \in Listed \X {"stdout", "stderr"} : r[2] \in process_list[r[1]].fds}
Ended == {r \in Open : r[2] \notin child[process_list[r[1]].pid].writes}

\* do_processes, with what select has found to be ready: every output that has
\* ended, and some of those with a line; then check_process_limits.  Both go
\* through the table by index, and nothing is behind its end when it shrinks.
DoProcesses(lines) ==
  LET ready == Ended \cup lines
      read[i \in 0 .. Len(process_list)] ==
        IF i = 0 THEN process_list ELSE ReadBoth(read[i - 1], i, ready)
      after == read[Len(process_list)]
      checked[i \in 0 .. Len(after)] ==
        IF i = 0 THEN after ELSE Limited(checked[i - 1], i)
  IN  /\ ready # {}
      /\ process_list' = checked[Len(after)]
      /\ UNCHANGED <<child, got_sigchild, servers, current>>

------------------------------------------------------------------------------
\* A mutant: the processes are not told.
NotTold(list, n) == list

\* exec_server_delete; the processes of the deleted server go to the one before
\* it (exec.c:930), those of the first to index -1.
ExecServerDelete(list, n) ==
  [i \in DOMAIN list |->
     IF list[i] # Empty /\ list[i].server >= n THEN [list[i] EXCEPT !.server = @ - 1] ELSE list[i]]

\* remove_from_server_list.  The windows of the server have been given another.
RemoveFromServerList(n) ==
  /\ n \in DOMAIN servers /\ Len(servers) > 1 /\ current # n
  /\ servers' = RemoveAt(servers, n)
  /\ current' = IF current > n THEN current - 1 ELSE current
  /\ process_list' = ExecServerDelete(process_list, n - 1)
  /\ UNCHANGED <<child, got_sigchild>>

SwitchServer(n) ==
  /\ n \in DOMAIN servers
  /\ current' = n
  /\ UNCHANGED <<process_list, child, got_sigchild, servers>>

Poll == \E lines \in SUBSET (Open \ Ended) : DoProcesses(lines)

Next ==
  \/ \E pid \in Pids : StartProcess(pid)
  \/ \E i \in Listed : Close(i)
  \/ \E pid \in Pids, out \in {"stdout", "stderr"} : Ends(pid, out)
  \/ \E pid \in Pids : Exits(pid)
  \/ CheckWaitStatus
  \/ Poll
  \/ \E n \in DOMAIN servers : RemoveFromServerList(n) \/ SwitchServer(n)

Spec == Init /\ [][Next]_vars

------------------------------------------------------------------------------
\* A process that has been waited for and whose outputs have ended or were
\* closed leaves the table at once, in whatever order the two are noticed
\* (check_wait_status, do_processes, check_process_limits).
FinishedAreDeleted == \A i \in Listed : ~Finished(process_list[i])

\* The servers up to the one a process writes to are those that stood at first up
\* to the one it was started for.
Stands(p, names) ==
  \A j \in DOMAIN names : j =< p.server + 1 <=> names[j] =< p.own

\* However the servers are renumbered, the output of a process goes to the server
\* it was started for as long as that one is listed; afterwards to the nearest
\* that is still listed of those before it, and to index -1, which is no server,
\* when there is none (exec.c:929-930).
OwnServer ==
  \A i \in Listed :
    LET p == process_list[i]
    IN  /\ p.own \in ToSet(servers) => p.server + 1 \in DOMAIN servers /\ servers[p.server + 1] = p.own
        /\ p.server + 1 \in 0 .. Len(servers)
        /\ Stands(p, servers)
==============================================================================
