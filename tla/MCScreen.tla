------------------------------ MODULE MCScreen ------------------------------
(***************************************************************************)
(* Instances for TLC of what the user sees and types: the windows, their   *)
(* display, the last log, the input line, completion, history, keys, and   *)
(* the choice of the window of a line.  A behaviour is one of one          *)
(* component, part, while the others stand still in an initial state.      *)
(* MCSession adds the rest of a session.                                   *)
(***************************************************************************)
EXTENDS Jobs

VARIABLES
    screen, rows, target,
    w, resized,
    line, pos, min, cut, insert, prompt, waiting, saved, end, before, keys,
    tabkey_array, channel, typed, in_completion, new_nick, input_lastmsg, sucks, cleared,
    history, HISTORY, hist_count, place, found, last_dir, input,
    log, size, lastlog_max, lastlog_level, lines, displayed, wanted,
    keymaps, meta_hit, quote_hit, savefile, savedKeys,
    ui

Layout == INSTANCE Windows WITH
    MaxRefnum <- 3, MinSize <- 1, Rows <- {4, 6}, Amounts <- {-3, 2}, SplitBiggest <- FALSE

Display == INSTANCE Scrollback WITH
    Sizes <- {2, 3}, BufferMax <- 4, ScrollLines <- 1, Scrolls <- TRUE, MaxLines <- 4, MaxBack <- 2

(* One line is recalled; a behaviour uses the keys of one of four sets.    *)
Edit == INSTANCE InputLine WITH
    BufferSize <- 4, PromptSizes <- {0, 1}, WaitSize <- 1, MaxWaiting <- 2,
    Recalled <- {<<"w", " ", "w">>},
    Editing <- {{"w", " ", "move", "words"}, {"w", "move", "cut", "toggle"},
                {"w", "delete", "ask"}, {"w", "move", "ask", "recall"}}

Complete == INSTANCE NickTabs WITH
    line <- typed, Nicks <- {<<2>>, <<2, 1>>}, Words <- {<<1>>, <<2>>}, MaxTabs <- 2

Recall == INSTANCE History WITH
    pos <- place, Texts <- {"t1", "t2"}, Sizes <- {0, 1, 2}, MaxCount <- 4

Log == INSTANCE Lastlog WITH
    Windows <- {1}, Levels <- {"CRAP", "MSG"}, Sizes <- {0, 2}, Counts <- {0, 1}, MaxLines <- 3

(* The double quote and the braces; some of them are bound from the start. *)
Default == [p \in {0, 4} \X {34, 123, 125} |->
               CASE p = <<0, 34>> -> "QUOTE_CHARACTER"
                 [] p = <<4, 34>> -> "META4_CHARACTER"
                 [] OTHER         -> "NOTHING"]
Bindings == INSTANCE Keys WITH
    keys <- keymaps, file <- savefile, saved <- savedKeys,
    KeySet <- {34, 123, 125}, Metas <- {4}, Default <- Default,
    Commands <- {}, MaxBinds <- 2, MaxUnsaved <- 1

(* Two channels of one server; one channel of two; queries and levels.     *)
OneServer == INSTANCE Targets WITH
    Refnums <- {1, 2}, Chans <- {1, 2}, Nicks <- {}, Levels <- {}, Servers <- {1}, AutoRejoin <- TRUE
TwoServers == INSTANCE Targets WITH
    Refnums <- {1, 2}, Chans <- {1}, Nicks <- {}, Levels <- {}, Servers <- {1, 2}, AutoRejoin <- FALSE
Queries == INSTANCE Targets WITH
    Refnums <- {1, 2}, Chans <- {}, Nicks <- {9}, Levels <- {"MSG", "DCC"}, Servers <- {1, 2},
    AutoRejoin <- FALSE

ASSUME Layout!WindowsAssumption /\ Display!ScrollbackAssumption /\ Edit!InputAssumption
ASSUME Complete!NickTabsAssumption /\ Recall!HistoryAssumption /\ Log!LastlogAssumption
ASSUME Bindings!KeysAssumption /\ Bindings!MetasAssumption /\ Bindings!DefaultAssumption
ASSUME /\ OneServer!NumbersAssumption /\ OneServer!NicksAssumption /\ OneServer!ServersAssumption
       /\ TwoServers!NumbersAssumption /\ TwoServers!NicksAssumption /\ TwoServers!ServersAssumption
       /\ Queries!NumbersAssumption /\ Queries!NicksAssumption /\ Queries!ServersAssumption

----------------------------------------------------------------------------
ScreenParts == {"layout", "display", "edit", "complete", "recall", "log", "bindings",
                "one server", "two servers", "queries"}

layoutVars == <<screen, rows, target>>
displayVars == <<w, resized>>
editVars == <<line, pos, min, cut, insert, prompt, waiting, saved, end, before, keys>>
completeVars == <<tabkey_array, channel, typed, in_completion, new_nick, input_lastmsg, sucks, cleared>>
recallVars == <<history, HISTORY, hist_count, place, found, last_dir, input>>
logVars == <<log, size, lastlog_max, lastlog_level, lines, displayed, wanted>>
bindingVars == <<keymaps, meta_hit, quote_hit, savefile, savedKeys>>
screenVars == <<layoutVars, displayVars, editVars, completeVars, recallVars, logVars, bindingVars, ui>>

(* What a component may start from is fixed while another runs.            *)
ScreenInit ==
    /\ Layout!Init /\ (part # "layout" => rows = 6)
    /\ Display!Init /\ (part # "display" => w.size = 2 /\ ~w.hold)
    /\ Edit!Init /\ (part # "edit" => prompt = 0 /\ insert /\ "recall" \in keys)
    /\ Complete!Init
    /\ Recall!Init /\ (part # "recall" => HISTORY = 2)
    /\ Log!Init /\ (part # "log" => lastlog_max = 2)
    /\ Bindings!Init
    /\ IF part = "one server" THEN OneServer!Init
       ELSE IF part = "queries" THEN Queries!Init ELSE TwoServers!Init

ScreenNext ==
    \/ part = "layout" /\ Layout!Next
       /\ UNCHANGED <<displayVars, editVars, completeVars, recallVars, logVars, bindingVars, ui>>
    \/ part = "display" /\ Display!Next
       /\ UNCHANGED <<layoutVars, editVars, completeVars, recallVars, logVars, bindingVars, ui>>
    \/ part = "edit" /\ Edit!Next
       /\ UNCHANGED <<layoutVars, displayVars, completeVars, recallVars, logVars, bindingVars, ui>>
    \/ part = "complete" /\ Complete!Next
       /\ UNCHANGED <<layoutVars, displayVars, editVars, recallVars, logVars, bindingVars, ui>>
    \/ part = "recall" /\ Recall!Next
       /\ UNCHANGED <<layoutVars, displayVars, editVars, completeVars, logVars, bindingVars, ui>>
    \/ part = "log" /\ Log!Next
       /\ UNCHANGED <<layoutVars, displayVars, editVars, completeVars, recallVars, bindingVars, ui>>
    \/ part = "bindings" /\ Bindings!Next
       /\ UNCHANGED <<layoutVars, displayVars, editVars, completeVars, recallVars, logVars, ui>>
    \/ /\ \/ part = "one server" /\ OneServer!Next
          \/ part = "two servers" /\ TwoServers!Next
          \/ part = "queries" /\ Queries!Next
       /\ UNCHANGED <<layoutVars, displayVars, editVars, completeVars, recallVars, logVars, bindingVars>>

----------------------------------------------------------------------------
(* Properties.                                                             *)

ScreenTypeOK ==
    CASE part = "layout"      -> Layout!TypeOK
      [] part = "display"     -> Display!TypeOK
      [] part = "edit"        -> Edit!TypeOK
      [] part = "complete"    -> Complete!TypeOK
      [] part = "recall"      -> Recall!TypeOK
      [] part = "log"         -> Log!TypeOK
      [] part = "bindings"    -> Bindings!TypeOK
      [] part = "one server"  -> OneServer!TypeOK
      [] part = "two servers" -> TwoServers!TypeOK
      [] part = "queries"     -> Queries!TypeOK
      [] OTHER                -> TRUE

(* The visible windows fill the rows of the terminal without a gap or an   *)
(* overlap, no window is listed twice, and the current one is visible,     *)
(* after any sequence of /WINDOW commands and keys (recalculate_windows,   *)
(* add_to_window_list, remove_from_window_list); and deleting a window     *)
(* leaves a number that /WINDOW BACK can follow (delete_window).           *)
Tiled ==
    /\ [](part = "layout" => Layout!Tiled /\ Layout!CurrentIsVisible)
    /\ [][part = "layout" => Layout!KeepsLast]_layoutVars

(* A window that holds nothing and is not scrolled back ends with the last *)
(* line written, the abort() of scroll_window is reached only after hold   *)
(* mode was switched while lines are held, and /LASTLOG shows the latest   *)
(* lines that match (lastlog).                                             *)
ShowsTheLatest ==
    /\ [](part = "display" => Display!BottomShown)
    /\ [][part = "display" => Display!AbortsUnheld]_displayVars
    /\ [](part = "log" => Log!ShowsTheLatest)

(* The line typed before a question comes back after the answers, however  *)
(* many questions wait, and the cursor stays in the text                   *)
(* (change_input_prompt); the arrow keys never stand on an entry of the    *)
(* history that has been dropped (add_to_history_list); the nick that the  *)
(* tab key offered last is listed, none twice, unless /CLEARTAB came from  *)
(* a key or a timer since (addtabkey, gettabkey).                          *)
InputComesBack ==
    /\ [][part = "edit" => Edit!LineReturns /\ Edit!CursorStays]_editVars
    /\ [][part = "recall" => Recall!NeverDangles]_recallVars
    /\ [](part = "complete" => Complete!OfferedIsListed)

(* A line of a server comes to a window of that server if there is one, or *)
(* to no window, which ends the program, if it is about a channel that no  *)
(* window of the server shows, at a level that none of them has; and with  *)
(* one server, what is typed goes to a channel the user is on              *)
(* (add_to_screen, is_current_channel).                                    *)
TalksWhereItShould ==
    /\ part = "one server" => OneServer!CurrentIsJoined
    /\ part = "two servers" => TwoServers!LineToItsServer
    /\ part = "queries" => Queries!LineToItsServer
=============================================================================
