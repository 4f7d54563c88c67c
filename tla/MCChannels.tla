----------------------------- MODULE MCChannels -----------------------------
(***************************************************************************)
(* Instances of Channels for TLC: the nicks of one channel, two channels   *)
(* joined again by one command, and the modes of one channel.  A behaviour *)
(* is one of one instance, part.                                           *)
(***************************************************************************)
EXTENDS Integers, SequencesExt

VARIABLES part, client, up, irc, inbox

None == "none"
OneLetter(letter, arg) == [letter |-> letter, arg |-> arg]
Letters(letters, args) == [i \in DOMAIN letters |-> OneLetter(letters[i], args[i])]

Ops == {Letters(<<sign, "o">>, <<None, n>>) : sign \in {"+", "-"}, n \in {"me", "other", "new"}}

(* Lines of several letters: flags, ops, keys, limits and bans under       *)
(* changing signs.                                                         *)
Lines ==
    { Letters(<<"+", "i", "-", "o", "+", "k">>, <<None, None, None, "me", None, "k">>),
      Letters(<<"-", "k", "i", "b", "+", "l">>, <<None, None, None, "b", None, 1>>),
      Letters(<<"+", "b", "b", "-", "l">>, <<None, "b", "c", None, None>>) }

Nicks == INSTANCE Channels WITH
    Chans <- {1}, Names <- {"me", "other", "new"}, Nick <- "me", Changes <- Ops, Keys <- {},
    AutoRejoin <- TRUE, OtherWindow <- FALSE, UserKicked <- TRUE, MaxUnderWay <- 3
Both == INSTANCE Channels WITH
    Chans <- {1, 2}, Names <- {"me", "other"}, Nick <- "me", Changes <- {}, Keys <- {},
    AutoRejoin <- FALSE, OtherWindow <- TRUE, UserKicked <- TRUE, MaxUnderWay <- 1
Modes == INSTANCE Channels WITH
    Chans <- {1}, Names <- {"me", "other"}, Nick <- "me", Changes <- Lines, Keys <- {"k"},
    AutoRejoin <- TRUE, OtherWindow <- FALSE, UserKicked <- FALSE, MaxUnderWay <- 3

ASSUME /\ Nicks!ChansAssumption /\ Nicks!NamesAssumption /\ Nicks!SettingsAssumption
       /\ Nicks!KeysAssumption /\ Nicks!BoundsAssumption /\ Nicks!ChangesAssumption
ASSUME /\ Both!ChansAssumption /\ Both!NamesAssumption /\ Both!SettingsAssumption
       /\ Both!KeysAssumption /\ Both!BoundsAssumption /\ Both!ChangesAssumption
ASSUME /\ Modes!ChansAssumption /\ Modes!NamesAssumption /\ Modes!SettingsAssumption
       /\ Modes!KeysAssumption /\ Modes!BoundsAssumption /\ Modes!ChangesAssumption

Init ==
    \/ part \in {"nicks", "modes"} /\ Nicks!Init
    \/ part = "both" /\ Both!Init

Next ==
    /\ part' = part
    /\ \/ part = "nicks" /\ Nicks!Next
       \/ part = "both" /\ Both!Next
       \/ part = "modes" /\ Modes!Next

Spec == Init /\ [][Next]_<<part, client, up, irc, inbox>>

----------------------------------------------------------------------------
(* Properties.                                                             *)

TypeOK == /\ part = "nicks" => Nicks!TypeOK
          /\ part = "both" => Both!TypeOK
          /\ part = "modes" => Modes!TypeOK

(* Once the lines under way are read, the program's lists of channels,     *)
(* nicks and ops are those of the server, its own ops included; and a      *)
(* channel leaves join_list with the last answer to its JOIN.              *)
ListsAgree ==
    /\ part = "nicks" => Nicks!Mirrors /\ Nicks!OpKnown /\ Nicks!SyncedLeave
    /\ part = "both" => Both!Mirrors

(* When the answers to a JOIN have come, the modes, key, limit and bans    *)
(* of the channel are those of the server, and stay so, as long as the     *)
(* user is not kicked.                                                     *)
ModesAgree == part = "modes" => Modes!ModesKnown /\ Modes!BansKnown
=============================================================================
