------------------------------ MODULE Traffic ------------------------------
(***************************************************************************)
(* The components that depend on others to answer, together: DCC clients   *)
(* and their files, the messages of other users, the lines of processes,   *)
(* and the sign-on.  They share no state, so a behaviour is one of one     *)
(* component, part, while the others stand still in an initial state.      *)
(* MCTraffic gives the constants values for TLC.                           *)
(***************************************************************************)
EXTENDS Integers, SequencesExt

CONSTANTS
    Users, Files, Types, MaxClients,                  \* of Dcc
    Pairs, Length, Block, MaxRead,                    \* of DccTransfer
    Senders, Bucket, FloodUsers, FloodAfter, FloodRate, OtherCount, OtherRate,
    Aged, MaxCount, Masks, Matching, IgnoreTypes, Nick, Channel, AutoMask,
    Traffics, CtcpDelay, IgnoreTime, PubfloodTime, Protection,   \* of Messages
    BufferSize, LineSize, MaxBytes,                   \* of Newio
    Wanted, Others, Full, GiveUp, MaxWire, MaxPrompts \* of Nickname

VARIABLES
    part,
    ClientList, deadlist, link, last_chat_req,
    kind, had, size, sender, getter, order, data, acks, lost,
    client, traffic, heard, since, gap,
    written, pipe, closed, buffer, reading, str, got,
    me, wire, inbox, server, taken

Clients == INSTANCE Dcc
Transfer == INSTANCE DccTransfer
Talk == INSTANCE Messages
Output == INSTANCE Newio
SignOn == INSTANCE Nickname WITH client <- me

ASSUME ClientsAssumption ==
    Clients!TypesAssumption /\ Clients!NamesAssumption /\ Clients!BoundAssumption
ASSUME TransferAssumption == Transfer!PairsAssumption /\ Transfer!SizesAssumption
ASSUME TalkAssumption ==
    /\ Talk!MaskAssumption /\ Talk!TimeAssumption /\ Talk!BucketAssumption
    /\ Talk!FloodAssumption /\ Talk!TrafficsAssumption
ASSUME OutputAssumption == Output!SizesAssumption
ASSUME SignOnAssumption ==
    SignOn!FullAssumption /\ SignOn!WantedAssumption /\ SignOn!BoundsAssumption

----------------------------------------------------------------------------
dccVars == <<ClientList, deadlist, link, last_chat_req>>
transferVars == <<kind, had, size, sender, getter, order, data, acks, lost>>
messageVars == <<client, traffic, heard, since, gap>>
outputVars == <<written, pipe, closed, buffer, reading, str, got>>
nickVars == <<me, wire, inbox, server, taken>>
vars == <<part, dccVars, transferVars, messageVars, outputVars, nickVars>>

(* What a component may start from is fixed while another runs.            *)
Init ==
    /\ part \in {"clients", "transfer", "messages", "output", "nickname"}
    /\ Clients!Init
    /\ Transfer!Init /\ (part # "transfer" => kind = [p \in Transfer!Programs |-> Transfer!None])
    /\ Talk!Init /\ (part # "messages" => traffic = CHOOSE t \in Traffics : TRUE)
    /\ Output!Init
    /\ SignOn!Init /\ (part # "nickname" => taken = {} /\ me.d_nickname = CHOOSE n \in Wanted : TRUE)

Next ==
    \/ part = "clients" /\ Clients!Next
       /\ UNCHANGED <<part, transferVars, messageVars, outputVars, nickVars>>
    \/ part = "transfer" /\ Transfer!Next
       /\ UNCHANGED <<part, dccVars, messageVars, outputVars, nickVars>>
    \/ part = "messages" /\ Talk!Next
       /\ UNCHANGED <<part, dccVars, transferVars, outputVars, nickVars>>
    \/ part = "output" /\ Output!Next
       /\ UNCHANGED <<part, dccVars, transferVars, messageVars, nickVars>>
    \/ part = "nickname" /\ SignOn!Next
       /\ UNCHANGED <<part, dccVars, transferVars, messageVars, outputVars>>

(* The fairness of each component, for the one that runs.                  *)
Fairness ==
    /\ WF_dccVars(part = "clients" /\ Clients!Walk)
    /\ \A p \in Transfer!Programs : WF_transferVars(part = "transfer" /\ Transfer!Step(p))
    /\ WF_messageVars(part = "messages" /\ Talk!Tick)
    /\ \A n \in Senders :
           WF_messageVars(part = "messages" /\ Talk!TimerFires([mask |-> AutoMask[n], left |-> 0]))
    /\ WF_outputVars(part = "output" /\ Output!Program)
    /\ WF_nickVars(part = "nickname" /\ SignOn!Lines)
    /\ WF_nickVars(part = "nickname" /\ SignOn!Answers)

Spec == Init /\ [][Next]_vars /\ Fairness

----------------------------------------------------------------------------
(* Properties.                                                             *)

(* Besides the types (those of the clients are MCSession's), the flood     *)
(* table has a bound although the code's count of its entries is ahead of  *)
(* the truth.                                                              *)
TypeOK == Output!TypeOK /\ SignOn!TypeOK /\ Talk!FloodListBounded

(* A file got by DCC is a prefix of the file sent, resumed transfers       *)
(* included, and the lines of a process are what it has written: no byte   *)
(* is lost, doubled or moved, however the reads are cut.                   *)
NoByteLost == Transfer!FileIsPrefix /\ Transfer!OneBlock /\ Output!NothingIsLost

(* A client that is marked is erased; a transfer ends, with a whole file   *)
(* unless the connection was lost; a line that a process has written is    *)
(* shown; and a connection is signed on, or the user is asked for a nick,  *)
(* even with all the nicks in use that the program tries.                  *)
WorkEnds ==
    /\ Clients!DeadAreErased /\ Transfer!TransfersEnd
    /\ Output!LinesCome /\ SignOn!SignsOn

(* Only who sent more than FLOOD_AFTER lines within FLOOD_RATE is ignored  *)
(* by flood_prot, although check_flooding drops entries of its list to     *)
(* make room; and CTCP_DELAY passes between two CTCP replies, whoever      *)
(* asks, in however many lines or in one.                                  *)
OnlyFloodersIgnored == Talk!OnlyFloodersIgnored /\ [](part = "messages" => Talk!RepliesSpaced)

(* An automatic ignore ends by its timer, whatever the user ignores, or    *)
(* stops ignoring, meanwhile.                                              *)
AutoIgnoreEnds == Talk!AutoIgnoreEnds

(* The program knows the nickname it has on the server, however many       *)
(* changes of nick are under way or refused.                               *)
KnowsItsNick == SignOn!KnowsItsNick
=============================================================================
