----------------------------- MODULE DccTransfer -----------------------------
(***************************************************************************)
(* Files on their way between two programs: the handlers of dcc.c for a    *)
(* file that is sent (process_outgoing_file) and for one that is fetched   *)
(* (process_incoming_file), at the two ends of a connection.  Each program *)
(* may send one file to the other.                                         *)
(*                                                                         *)
(* kind says how the file is fetched: from the start (DCC GET), from where *)
(* an earlier attempt ended (DCC REGET, whose order for the start is read  *)
(* by the sender when it accepts), or by a program that asked with         *)
(* DCC RESUME before it connected.  A byte is its position in the file.    *)
(***************************************************************************)
EXTENDS Integers, SequencesExt

CONSTANTS
    Pairs,     \* per program, the kind of transfer of the file that it sends, or None
    Length,    \* bytes in each file
    Block,     \* DCC_BLOCK_SIZE of the senders
    MaxRead    \* MAX_DCC_BLOCK_SIZE: what is read at once

Programs == {"a", "b"}
Other(p) == IF p = "a" THEN "b" ELSE "a"
None == "none"
Kinds == {"GET", "REGET", "RESUME"}

PairsAssumption == Pairs \subseteq [Programs -> Kinds \cup {None}]
SizesAssumption == {Length, Block, MaxRead} \subseteq Nat \ {0}

VARIABLES
    kind,    \* element of Pairs
    had,     \* bytes the other program has from an earlier attempt
    size,    \* size in the offer, 0 when it gives none
    sender,  \* state, pos in the file, bytes_sent
    getter,  \* state, file, bytes_read
    order,   \* the packet with the position a REGET starts at: None or <<position>>
    data,    \* bytes under way
    acks,    \* numbers under way back
    lost     \* the connections that have been lost

vars == <<kind, had, size, sender, getter, order, data, acks, lost>>
fixed == <<kind, had, size>>

Bytes(from, count) == [i \in 1..count |-> from + i]
Sending == {p \in Programs : kind[p] # None}

----------------------------------------------------------------------------
(* The sender, process_outgoing_file.                                      *)

(* A program that has accepted a RESEND waits in recv for the order, and   *)
(* does nothing else.                                                      *)
Blocked(p) == sender[p].state = "recv"

Accept(p) ==
    /\ sender[p].state = "wait" /\ ~Blocked(p)
    /\ getter[p].state # "offered"
    /\ sender' = [sender EXCEPT ![p].state = IF kind[p] = "REGET" THEN "recv" ELSE "open"]
    /\ UNCHANGED <<fixed, getter, order, data, acks, lost>>

(* Mutant: the file is read from the start.                                *)
SeekNowhere(p) == 0

(* Where the file is read from.                                            *)
Seek(p) == CASE kind[p] = "REGET"  -> order[p][1]
             [] kind[p] = "RESUME" -> had[p]
             [] kind[p] = "GET"    -> 0

(* Mutant: what is sent is counted from the position in the file.          *)
CountedFromPosition(p, n) == sender[p].pos + n

Counted(p, n) == sender[p].bytes_sent + n

(* Read and send a block, or DCC_close_filesend at the end of the file.    *)
SendFrom(p, pos) ==
    LET n == IF Length - pos < Block THEN Length - pos ELSE Block
    IN IF n > 0
       THEN /\ sender' = [sender EXCEPT ![p] = [state |-> "active", pos |-> pos + n, bytes_sent |-> Counted(p, n)]]
            /\ data' = [data EXCEPT ![p] = IF p \in lost THEN @ ELSE @ \o Bytes(pos, n)]
       ELSE /\ sender' = [sender EXCEPT ![p].state = "closed"]
            /\ UNCHANGED data

(* The order may be past the end of the file: the client is closed.        *)
SendFirst(p) ==
    /\ \/ sender[p].state = "open"
       \/ sender[p].state = "recv" /\ order[p] # <<>>
    /\ IF Seek(p) > Length
       THEN sender' = [sender EXCEPT ![p].state = "closed"] /\ UNCHANGED data
       ELSE SendFrom(p, Seek(p))
    /\ UNCHANGED <<fixed, getter, order, acks, lost>>

(* Mutant: any number is an acknowledgement.                               *)
AnyNumber(p) == TRUE

(* Numbers that are not that of all the bytes sent are passed over.        *)
IsLastAck(p) == Head(acks[p]) = sender[p].bytes_sent

ReadAck(p) ==
    /\ sender[p].state = "active" /\ ~Blocked(p)
    /\ acks[p] # <<>>
    /\ acks' = [acks EXCEPT ![p] = Tail(@)]
    /\ IF IsLastAck(p) THEN SendFrom(p, sender[p].pos) ELSE UNCHANGED <<sender, data>>
    /\ UNCHANGED <<fixed, getter, order, lost>>

SenderLost(p) ==
    /\ sender[p].state \in {"active", "recv"}
    /\ p \in lost \/ (acks[p] = <<>> /\ getter[p].state = "closed")
    /\ sender' = [sender EXCEPT ![p].state = "closed"]
    /\ UNCHANGED <<fixed, getter, order, data, acks, lost>>

----------------------------------------------------------------------------
(* The getter of the file of p.                                            *)

MayGet(p) == ~Blocked(Other(p))

(* dcc_open, before dcc_check finds the connection made.                   *)
Connect(p) ==
    /\ getter[p].state = "offered" /\ sender[p].state = "wait"
    /\ MayGet(p)
    /\ getter' = [getter EXCEPT ![p].state = "pending"]
    /\ UNCHANGED <<fixed, sender, order, data, acks, lost>>

(* dcc_got_connected; a REGET tells where to start.                        *)
DccGotConnected(p) ==
    /\ getter[p].state = "pending" /\ p \notin lost
    /\ MayGet(p)
    /\ getter' = [getter EXCEPT ![p].state = "active"]
    /\ order' = [order EXCEPT ![p] = IF kind[p] = "REGET" THEN <<had[p]>> ELSE <<>>]
    /\ UNCHANGED <<fixed, sender, data, acks, lost>>

(* process_incoming_file, n bytes.  A program that uses DCC RESUME counts  *)
(* what it had (external).                                                 *)
ProcessIncomingFile(p, n) ==
    LET read == getter[p].bytes_read + n
        after == IF size[p] # 0 /\ read >= size[p] THEN "closed" ELSE "active"
    IN /\ getter[p].state = "active" /\ MayGet(p)
       /\ n <= Len(data[p])
       /\ getter' = [getter EXCEPT ![p] = [state |-> after, file |-> @.file \o SubSeq(data[p], 1, n),
                                           bytes_read |-> read]]
       /\ data' = [data EXCEPT ![p] = SubSeq(@, n + 1, Len(@))]
       /\ acks' = [acks EXCEPT ![p] = Append(@, read)]
       /\ UNCHANGED <<fixed, sender, order, lost>>

EndOfFile(p) ==
    /\ getter[p].state \in {"pending", "active"} /\ MayGet(p)
    /\ data[p] = <<>> /\ (sender[p].state = "closed" \/ p \in lost)
    /\ getter' = [getter EXCEPT ![p].state = "closed"]
    /\ UNCHANGED <<fixed, sender, order, data, acks, lost>>

(* The network gives up a connection; what has been sent may still arrive, *)
(* or not, and nobody reads it before the connection is known to be made.  *)
Lose(p) ==
    /\ getter[p].state \in {"pending", "active"} /\ p \notin lost
    /\ lost' = lost \cup {p}
    /\ \E n \in 0..(IF getter[p].state = "pending" THEN 0 ELSE Len(data[p])) :
           data' = [data EXCEPT ![p] = SubSeq(@, 1, n)]
    /\ UNCHANGED <<fixed, sender, getter, order, acks>>

----------------------------------------------------------------------------
Init ==
    /\ kind \in Pairs
    /\ had \in [Programs -> {0, Length - 1, Length, Length + 1}]
    /\ size \in [Programs -> {0, Length}]
    /\ \A p \in Programs : /\ kind[p] \in {"GET", None} => had[p] = 0
                           /\ kind[p] = "RESUME" => had[p] <= Length
                           /\ kind[p] = None => size[p] = 0
    /\ sender = [p \in Programs |->
           [state |-> IF kind[p] = None THEN "closed" ELSE "wait", pos |-> 0,
            bytes_sent |-> IF kind[p] = "RESUME" THEN had[p] ELSE 0]]
    /\ getter = [p \in Programs |->
           [state |-> IF kind[p] = None THEN "closed" ELSE "offered", file |-> Bytes(0, had[p]),
            bytes_read |-> IF kind[p] = "RESUME" THEN had[p] ELSE 0]]
    /\ order = [p \in Programs |-> <<>>]
    /\ data = [p \in Programs |-> <<>>]
    /\ acks = [p \in Programs |-> <<>>]
    /\ lost = {}

Step(p) == \/ Accept(p) \/ SendFirst(p) \/ ReadAck(p) \/ SenderLost(p)
           \/ Connect(p) \/ DccGotConnected(p) \/ EndOfFile(p)
           \/ \E n \in 1..MaxRead : ProcessIncomingFile(p, n)

Next == \E p \in Programs : Step(p) \/ Lose(p)

Spec == Init /\ [][Next]_vars

(* dcc_check serves every socket that select reports, in every pass.       *)
FairSpec == Spec /\ \A p \in Programs : WF_vars(Step(p))

----------------------------------------------------------------------------
(* Properties.                                                             *)

(* The file that is fetched is the beginning of the file that is sent: no  *)
(* byte is missing, written twice or out of its place, although each side  *)
(* counts in its own way and reads are cut anywhere.                       *)
FileIsPrefix == \A p \in Sending : had[p] <= Length => IsPrefix(getter[p].file, Bytes(0, Length))

(* At most one block is under way, so the send on a socket that does not   *)
(* block, whose result the code does not look at, is never cut short.      *)
OneBlock == \A p \in Sending : Len(data[p]) <= Block

(* A transfer ends, and unless the connection was lost the file is whole.  *)
TransfersEnd ==
    \A p \in Programs :
        <>(/\ sender[p].state = "closed" /\ getter[p].state = "closed"
           /\ p \in Sending /\ p \notin lost /\ had[p] <= Length => Len(getter[p].file) = Length)
=============================================================================
