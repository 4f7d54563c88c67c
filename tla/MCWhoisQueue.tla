---------------------------- MODULE MCWhoisQueue ----------------------------
(* Instances of WhoisQueue for TLC: two nicknames, each kind of request.    *)
EXTENDS WhoisQueue

CONSTANTS a, b

Ask(type, nick) == [type |-> type, nick |-> nick, isuser |-> FALSE]

EveryKind == {Ask("ISON", <<a>>), Ask("USERHOST", <<a>>), Ask("USERHOST", <<a, b>>),
              [Ask("USERHOST", <<b>>) EXCEPT !.isuser = TRUE],
              Ask("WHOIS", <<a>>), Ask("WHOIS", <<b>>)}
Everybody == {{a, b}}
Anybody == SUBSET {a, b}
=============================================================================
