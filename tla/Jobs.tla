-------------------------------- MODULE Jobs --------------------------------
(***************************************************************************)
(* What the user has started and io() serves besides the servers: the DCC  *)
(* clients and the processes.  As in Traffic, one of them runs in a        *)
(* behaviour, part.  MCSession adds the other components of its run.       *)
(***************************************************************************)
EXTENDS Integers, SequencesExt

CONSTANTS
    Users, Files, Types, MaxClients,    \* of Dcc
    Pids, MaxSize, Limit, ServerCount   \* of Exec

VARIABLES
    part,
    ClientList, deadlist, link, last_chat_req,
    process_list, child, got_sigchild, servers, current

Clients == INSTANCE Dcc
Processes == INSTANCE Exec

ASSUME ClientsAssumption ==
    Clients!TypesAssumption /\ Clients!NamesAssumption /\ Clients!BoundAssumption
ASSUME ProcessesAssumption == Processes!ExecAssumption

dccVars == <<ClientList, deadlist, link, last_chat_req>>
execVars == <<process_list, child, got_sigchild, servers, current>>
jobVars == <<dccVars, execVars>>

JobsInit ==
    /\ Clients!Init
    /\ Processes!Init /\ (part # "processes" => current = 1)

JobsNext ==
    /\ part' = part
    /\ \/ part = "clients" /\ Clients!Next /\ UNCHANGED execVars
       \/ part = "processes" /\ Processes!Next /\ UNCHANGED dccVars

JobsSpec == JobsInit /\ [][JobsNext]_<<part, jobVars>>

----------------------------------------------------------------------------
(* Properties.                                                             *)

JobsTypeOK == Clients!TypeOK /\ Processes!TypeOK

(* The walk of dcc_check over the clients never goes through one that has  *)
(* been freed, whatever its handlers and the commands between two walks    *)
(* add, mark and erase; and the numbers /DCC takes stay the positions.     *)
WalkIsSafe == Clients!WalkIsSafe /\ Clients!Numbered

(* What a process writes goes to the server it was started for, and when   *)
(* that one was deleted to the nearest listed before it, or to index -1,   *)
(* no server, when none is (exec_server_delete, exec.c:929-930).  And a    *)
(* process that has ended is deleted (check_process_limits,                *)
(* check_wait_status).                                                     *)
OwnServer == Processes!OwnServer /\ Processes!FinishedAreDeleted
=============================================================================
