------------------------------- MODULE Newio -------------------------------
(***************************************************************************)
(* Reading lines from processes and DCC chats (newio.c): dgets keeps what  *)
(* it has read behind the end of a line in a buffer of its own, which      *)
(* select does not know of, and new_select reports such descriptors too.   *)
(* One descriptor: the output of a process, read by do_processes (exec.c). *)
(***************************************************************************)
EXTENDS Integers, SequencesExt

CONSTANTS
    BufferSize,    \* IO_BUFFER_SIZE
    LineSize,      \* len of dgets
    MaxBytes       \* bound on what the process writes

Newline == "nl"
Bytes == {"x", Newline}

SizesAssumption == {BufferSize, LineSize} \subseteq Nat \ {0} /\ MaxBytes \in Nat

VARIABLES
    written,     \* history: what the process has written
    pipe,        \* what of it is not read yet
    closed,      \* the process has closed its end
    buffer,      \* io_rec: from read_pos to write_pos
    reading,     \* TRUE in dgets
    str,         \* what dgets has put in the line
    got          \* the pieces that do_processes got

vars == <<written, pipe, closed, buffer, reading, str, got>>

----------------------------------------------------------------------------
(* The process.                                                            *)

Write(byte) ==
    /\ ~closed /\ Len(written) < MaxBytes
    /\ written' = Append(written, byte) /\ pipe' = Append(pipe, byte)
    /\ UNCHANGED <<closed, buffer, reading, str, got>>

Close ==
    /\ ~closed /\ closed' = TRUE
    /\ UNCHANGED <<written, pipe, buffer, reading, str, got>>

----------------------------------------------------------------------------
(* The program.                                                            *)

Readable == pipe # <<>> \/ closed

(* A mutant: what is in the buffer is not looked at.                       *)
SelectOnly == Readable

NewSelect == buffer # <<>> \/ Readable

(* io() calls do_processes, which calls dgets, until it has closed its end.*)
Ended == got # <<>> /\ got[Len(got)] = <<>>

Pass ==
    /\ ~reading /\ ~Ended /\ NewSelect
    /\ reading' = TRUE /\ str' = <<>>
    /\ UNCHANGED <<written, pipe, closed, buffer, got>>

Return(piece) == reading' = FALSE /\ str' = <<>> /\ got' = Append(got, piece)

(* A mutant: a line that is complete empties the buffer.                   *)
AllTaken(line, count) == buffer' = <<>>

Taken(line, count) == buffer' = SubSeq(buffer, count + 1, Len(buffer))

(* dgets with bytes in the buffer: up to the end of the line, or until the *)
(* line is full.                                                           *)
TakeLine ==
    LET ends == {i \in DOMAIN buffer : buffer[i] = Newline \/ Len(str) + i = LineSize}
        count == CHOOSE i \in ends : \A j \in ends : i <= j
        line == str \o SubSeq(buffer, 1, count)
    IN  /\ reading /\ ends # {}
        /\ Taken(line, count)
        /\ Return(line)
        /\ UNCHANGED <<written, pipe, closed>>

TakePart ==
    /\ reading /\ buffer # <<>>
    /\ \A i \in DOMAIN buffer : buffer[i] # Newline /\ Len(str) + i # LineSize
    /\ str' = str \o buffer /\ buffer' = <<>>
    /\ UNCHANGED <<written, pipe, closed, reading, got>>

(* dgets with none: it waits for what comes.                               *)
Read ==
    /\ reading /\ buffer = <<>>
    /\ \E n \in 1..BufferSize :
           /\ n <= Len(pipe)
           /\ buffer' = SubSeq(pipe, 1, n) /\ pipe' = SubSeq(pipe, n + 1, Len(pipe))
    /\ UNCHANGED <<written, closed, reading, str, got>>

(* A second without anything: do_processes makes the part the prompt.      *)
Timeout ==
    /\ reading /\ buffer = <<>> /\ ~Readable
    /\ Return(str)
    /\ UNCHANGED <<written, pipe, closed, buffer>>

(* The end: the part is dropped, and do_processes closes its end.          *)
EndOfFile ==
    /\ reading /\ buffer = <<>> /\ pipe = <<>> /\ closed
    /\ Return(<<>>)
    /\ UNCHANGED <<written, pipe, closed, buffer>>

Init ==
    /\ written = <<>> /\ pipe = <<>> /\ closed = FALSE
    /\ buffer = <<>> /\ reading = FALSE /\ str = <<>> /\ got = <<>>

Program == Pass \/ TakeLine \/ TakePart \/ Read \/ Timeout \/ EndOfFile
Next == (\E byte \in Bytes : Write(byte)) \/ Close \/ Program

Spec == Init /\ [][Next]_vars

(* The main loop does not stop, and dgets waits for at most a second.      *)
FairSpec == Spec /\ WF_vars(Program)

----------------------------------------------------------------------------
(* Properties.                                                             *)

TypeOK ==
    /\ {written, pipe, buffer, str} \subseteq Seq(Bytes) /\ Len(buffer) <= BufferSize
    /\ {closed, reading} \subseteq BOOLEAN
    /\ got \in Seq(Seq(Bytes)) /\ Len(str) < LineSize

(* What was written comes in order, each byte once, however it is cut into *)
(* reads and pieces; only a line without an end may be dropped, when the   *)
(* process ends.                                                           *)
NothingIsLost ==
    LET came == FlattenSeq(got)
    IN  IF Ended THEN /\ IsPrefix(came, written)
                      /\ \A i \in DOMAIN written : i > Len(came) => written[i] # Newline
        ELSE came \o str \o buffer \o pipe = written

(* A line that is complete comes, although select has nothing to report    *)
(* when the line is in the buffer and the process waits for an answer.     *)
LinesCome ==
    \A n \in 1..MaxBytes :
        (n \in DOMAIN written /\ written[n] = Newline) ~> (Len(FlattenSeq(got)) >= n)

=============================================================================
