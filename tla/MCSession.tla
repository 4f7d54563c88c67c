----------------------------- MODULE MCSession -----------------------------
(***************************************************************************)
(* Instances for TLC of the other components that answer for themselves:   *)
(* modes, bans, the command table, who has left, scripts, the notify list  *)
(* and the nick to regain.  As in MCScreen and Jobs, whose components are  *)
(* part of the same run, one component runs in a behaviour.                *)
(***************************************************************************)
EXTENDS MCScreen, FiniteSetsExt

VARIABLES
    chan, real,
    status, bans, chop, target_channel, bantype, prompts, queue, sent, inbox,
    tree, builtIns,
    node, chan_list, reg, whowas_reg_count, splitin, split_link, whowas_chan,
    current_row, pending, paste_level, in_comment, no_semicolon, ran, script_line, carried,
    lists, primary, savedLists,
    org_nick, asked, answers, timers, connected, owned, kept, sentNick

Compression == INSTANCE ModeCompression WITH
    Nicks <- {1, 2, 3}, Known <- {1, 2}, Masks <- {4}, Flags <- {"i"}, MaxLine <- 3

(* One channel with three bans, of which a pattern matches two; and two    *)
(* channels with one.  A nick's mask is 1, or 2 by another type of ban.    *)
BanLines == INSTANCE Bans WITH
    real <- status, current <- target_channel,
    Chans <- {"a"}, Nicks <- {"x"}, Masks <- {1, 2, 3}, Specs <- [all |-> {1, 2, 3}, two |-> {2, 3}],
    BanTypes <- [n |-> [x \in {"x"} |-> 1], h |-> [x \in {"x"} |-> 2]],
    Hosts <- [x \in {"x"} |-> {1, 2}], NumModes <- 2, MaxSent <- 1
BansOfTwo == INSTANCE Bans WITH
    real <- status, current <- target_channel,
    Chans <- {"a", "b"}, Nicks <- {"x"}, Masks <- {1}, Specs <- [all |-> {1}],
    BanTypes <- [n |-> [x \in {"x"} |-> 1]], Hosts <- [x \in {"x"} |-> {1}], NumModes <- 2, MaxSent <- 1

Words == BoundedSeq({1, 2}, 2) \ {<<>>}
Table == INSTANCE CommandTable WITH
    Letters <- {1, 2}, MaxLength <- 2, BuiltIns <- {{<<2>>, <<2, 1>>}, {<<1>>, <<1, 2>>, <<2, 1>>}}

Departed == INSTANCE Whowas WITH
    Nicks <- {"x", "y"}, Host <- [n \in {"x", "y"} |-> "h"], Channels <- {"c"}, Servers <- {"s"},
    Bucket <- [host \in {"h", "<UNKNOWN>"}, c \in {"c"} |-> 1],
    RegMax <- 2, ChanMax <- 1, RegAge <- 1, SplitAge <- 1, ChanAge <- 1,
    MaxNodes <- 4, MaxCount <- 4, MaxSplit <- 1

Loader == INSTANCE Script WITH
    line <- script_line, MaxRow <- 3, MaxOpen <- 1,
    Lines <- {l \in BoundedSeq({";", "{", "}", "/", "a", "*", "\\"}, 2) \ {<<>>} : l[Len(l)] # "\\"}

NotifyLists == INSTANCE Notify WITH saved <- savedLists, Nicks <- {1, 2, 3}, MaxServers <- 2

Regain == INSTANCE OrigNick WITH
    queue <- asked, sent <- sentNick, Nicks <- {"x", "y"}, Repeats <- TRUE, MaxAsked <- 3

ASSUME Compression!ModeCompressionAssumption
ASSUME BanLines!BansAssumption /\ BansOfTwo!BansAssumption
ASSUME Departed!HostsAssumption /\ Departed!BucketAssumption /\ Departed!LimitsAssumption
ASSUME Loader!LinesAssumption /\ NotifyLists!NicksAssumption /\ NotifyLists!MaxServersAssumption
ASSUME Regain!RepeatsAssumption /\ Regain!MaxAskedAssumption /\ Regain!NicksAssumption

----------------------------------------------------------------------------
modeVars == <<chan, real>>
banVars == <<status, bans, chop, target_channel, bantype, prompts, queue, sent, inbox>>
tableVars == <<tree, builtIns>>
whowasVars == <<node, chan_list, reg, whowas_reg_count, splitin, split_link, whowas_chan>>
scriptVars == <<current_row, pending, paste_level, in_comment, no_semicolon, ran, script_line, carried>>
notifyVars == <<lists, primary, savedLists>>
orignickVars == <<org_nick, asked, answers, timers, connected, owned, kept, sentNick>>
vars == <<part, screenVars, jobVars, modeVars, banVars, tableVars, whowasVars, scriptVars,
          notifyVars, orignickVars>>

Init ==
    /\ part \in ScreenParts \cup {"clients", "processes", "modes", "bans", "bans of two", "table", "departed", "script", "notify", "orignick"}
    /\ ScreenInit
    /\ JobsInit
    /\ Compression!Init
    /\ IF part = "bans of two" THEN BansOfTwo!Init
       ELSE BanLines!Init /\ (part # "bans" => bantype = "n")
    /\ Table!Init /\ (part # "table" => Cardinality(builtIns) = 3)
    /\ Departed!Init
    /\ Loader!Init
    /\ NotifyLists!Init
    /\ Regain!Init /\ (part # "orignick" => owned = {})

Next ==
    \/ ScreenNext
       /\ UNCHANGED <<part, jobVars, modeVars, banVars, tableVars, whowasVars, scriptVars, notifyVars, orignickVars>>
    \/ JobsNext
       /\ UNCHANGED <<screenVars, modeVars, banVars, tableVars, whowasVars, scriptVars, notifyVars, orignickVars>>
    \/ part = "modes" /\ Compression!Next
       /\ UNCHANGED <<part, screenVars, jobVars, banVars, tableVars, whowasVars, scriptVars, notifyVars, orignickVars>>
    \/ /\ \/ part = "bans" /\ BanLines!Next
          \/ part = "bans of two" /\ BansOfTwo!Next
       /\ UNCHANGED <<part, screenVars, jobVars, modeVars, tableVars, whowasVars, scriptVars, notifyVars, orignickVars>>
    \/ part = "table" /\ Table!Next
       /\ UNCHANGED <<part, screenVars, jobVars, modeVars, banVars, whowasVars, scriptVars, notifyVars, orignickVars>>
    \/ part = "departed" /\ Departed!Next
       /\ UNCHANGED <<part, screenVars, jobVars, modeVars, banVars, tableVars, scriptVars, notifyVars, orignickVars>>
    \/ part = "script" /\ Loader!Next
       /\ UNCHANGED <<part, screenVars, jobVars, modeVars, banVars, tableVars, whowasVars, notifyVars, orignickVars>>
    \/ part = "notify" /\ NotifyLists!Next
       /\ UNCHANGED <<part, screenVars, jobVars, modeVars, banVars, tableVars, whowasVars, scriptVars, orignickVars>>
    \/ part = "orignick" /\ Regain!Next
       /\ UNCHANGED <<part, screenVars, jobVars, modeVars, banVars, tableVars, whowasVars, scriptVars, notifyVars>>

Spec == Init /\ [][Next]_vars

----------------------------------------------------------------------------
(* Properties, besides those of MCScreen and Jobs.                         *)

TypeOK ==
    /\ ScreenTypeOK /\ JobsTypeOK
    /\ part = "modes" => Compression!TypeOK
    /\ part = "bans" => BanLines!TypeOK
    /\ part = "bans of two" => BansOfTwo!TypeOK
    /\ part = "table" => Table!TypeOK
    /\ part = "departed" => Departed!TypeOK
    /\ part = "script" => Loader!TypeOK
    /\ part = "notify" => NotifyLists!TypeOK
    /\ part = "orignick" => Regain!TypeOK

(* A mode line that is passed over because its compression leaves nothing  *)
(* would have changed no op, ban or flag of the channel, though it may     *)
(* have changed voices (compress_modes, p_mode); and a ban that /UNBAN     *)
(* marks as taken back has been sent to the server (add_mode, cmd_unban).  *)
ModesAreKept ==
    /\ [](part = "modes" => Compression!LosesNoChange)
    /\ [][/\ part = "bans" => BanLines!MarksWhatIsSent
          /\ part = "bans of two" => BansOfTwo!MarksWhatIsSent]_banVars

(* A command is found by its name, and by each beginning that only one     *)
(* command has, after any additions and removals, which touch no other     *)
(* command (t_search, t_insert, t_remove).                                 *)
SearchIsRight ==
    /\ [](part = "table" => Table!SearchIsRight)
    /\ [][part = "table" => Table!ChangesOne]_tableVars

(* An entry of the whowas table has one owner, the channel or the table,   *)
(* and the table is bounded.                                               *)
OneOwner == part = "departed" => Departed!OneOwner /\ Departed!TableBounded

(* /LOAD runs commands whole, with the braces paired, and drops nothing of *)
(* a line that is not a comment.  A file that ends in a block is the       *)
(* exception: the first command of the file after it has as many braces    *)
(* too much as blocks were open.                                           *)
RunWhole == [][part = "script" => Loader!RunWhole /\ Loader!KeepsText]_scriptVars

(* The bindings that /SAVE wrote are back after a start, but those that    *)
(* the file cannot hold (a space, a brace, a double quote alone) and those *)
(* behind the line of an opening brace (save_bindings, load); the notify   *)
(* lists are back too, and all servers have the same list (save_notify).   *)
SettingsSurvive ==
    /\ [][part = "bindings" => Bindings!RestartBinds]_bindingVars
    /\ [][part = "notify" => NotifyLists!ReadsBack]_notifyVars
    /\ [](part = "notify" => NotifyLists!SameEverywhere)

(* As long as a nick is wanted and the connection holds, somebody goes on  *)
(* asking for it; and only the nick wanted is taken.                       *)
KeepsAsking ==
    /\ [](part = "orignick" => Regain!KeepsAsking)
    /\ [][part = "orignick" => Regain!TakesWanted]_orignickVars
=============================================================================
