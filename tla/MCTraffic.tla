----------------------------- MODULE MCTraffic -----------------------------
(* Values for Traffic.                                                      *)
EXTENDS Traffic

(* No file, or one: got, got from where it ended, or resumed.              *)
SomePairs == {[a |-> one, b |-> "none"] : one \in {"none", "GET", "REGET", "RESUME"}}

----------------------------------------------------------------------------
(* Messages: two senders, what they send, and what the user ignores.       *)

MessageLine(command, from, to, ctcps, text) ==
    [command |-> command, from |-> from, to |-> to, ctcps |-> ctcps, text |-> text, found |-> FALSE]
Msg(from) == MessageLine("PRIVMSG", from, "me", <<>>, TRUE)
Ctcp(from, to, commands) == MessageLine("PRIVMSG", from, to, commands, FALSE)
Ignoring(mask, way, types) == [mask |-> mask, way |-> way, types |-> types, except |-> {}]

EachTraffic ==
    {[lines |-> {Msg("x"), Msg("y")},
      others |-> {}, ignores |-> {}, nofloods |-> {"y"}],
     [lines |-> {MessageLine("NOTICE", "y", "me", <<"VERSION">>, TRUE),
                 MessageLine("WALLOPS", "y", "me", <<>>, TRUE)},
      others |-> {}, nofloods |-> {},
      ignores |-> {Ignoring("y", "DONT", {"MSGS"}), Ignoring("y@host", "NONE", {}),
                   Ignoring("#c", "CGREP", {"PUBLIC"}),
                   [Ignoring("y", "IGNORE", {"MSGS", "CTCPS"}) EXCEPT !.except = {"y"}]}],
     [lines |-> {Ctcp("x", "me", <<"VERSION", "ECHO">>), Ctcp("y", "#c", <<"UTC", "SOUND", "VERSION">>)},
      others |-> {}, ignores |-> {}, nofloods |-> {}],
     [lines |-> {MessageLine("PRIVMSG", "x", "#c", <<"ACTION">>, TRUE),
                 MessageLine("INVITE", "x", "#c", <<>>, TRUE)},
      others |-> {<<"x", "NICK">>}, ignores |-> {}, nofloods |-> {}]}

OneBucket == [n \in Senders |-> 1]
HostMask == [n \in Senders |-> n \o "@host"]
SomeMasks == <<"x@host", "y@host", "y", "#c">>
SomeMatching == {<<"x@host", "x">>, <<"y@host", "y">>, <<"y", "y">>, <<"#c", "#c">>}
Ones == [type \in {"MSG", "NOTICE", "CTCP", "ACTION", "INVITE", "WALLOP"} |-> 1]
OtherOnes == [type \in {"PUBLIC", "NICK"} |-> 1]
OtherTwos == [type \in {"PUBLIC", "NICK"} |-> 2]

----------------------------------------------------------------------------
(* The nick "a" of at most two characters: "a_" and "_a" are tried next.   *)
OneWanted == {<<"a">>}
SomeOthers == {<<"a">>, <<"a", "_">>, <<"_", "a">>}
=============================================================================
