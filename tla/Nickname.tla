------------------------------ MODULE Nickname -----------------------------
(***************************************************************************)
(* Getting a nickname on one server (server.c, numbers.c, parse.c,         *)
(* ncommand.c): the program asks for one when it logs in and at /NICK, and *)
(* a server that refuses it is asked for another one, until the user has   *)
(* to be asked.  The server answers in the order it was asked.             *)
(***************************************************************************)
EXTENDS Integers, SequencesExt

CONSTANTS
    Wanted,        \* the nicks a user asks for, sequences of characters
    Others,        \* the nicks that somebody else may have
    Full,          \* the length from which a nick is rolled, 9
    GiveUp,        \* the fudge factor that ends the attempts, 17
    MaxWire,       \* bound on what is under way when the user types
    MaxPrompts     \* bound on the prompts that wait

FullAssumption == Full \in Nat \ {0} /\ GiveUp \in Nat /\ GiveUp > Full
WantedAssumption == \A n \in Wanted : n \in Seq(ToSet(n)) /\ Len(n) \in 1..Full
BoundsAssumption == {MaxWire, MaxPrompts} \subseteq Nat

NoNick == <<>>

VARIABLES
    client,    \* the fields of struct server, and the globals
    wire,      \* on its way to the server
    inbox,     \* on its way to the program
    server,    \* what the server knows of the connection
    taken      \* the nicks that others have

vars == <<client, wire, inbox, server, taken>>

Nobody == [user |-> FALSE, nick |-> NoNick]
Registered == server.user /\ server.nick # NoNick

----------------------------------------------------------------------------
(* server.c, on a pair of a client record and what it sends.               *)

Send(p, cmd, nick) == [p EXCEPT !.out = Append(@, [cmd |-> cmd, nick |-> nick])]

(* reset_nickname: a prompt, and an interrupt as if ^C had been typed, the *)
(* fifth of which ends the program.                                        *)
ResetNickname(p) ==
    [p EXCEPT !.c.prompts = @ + 1, !.c.cntl_c_hit = @ + 1,
              !.c.running = p.c.cntl_c_hit < 4]

SendPending(p) == IF p.c.s_nickname = NoNick THEN p ELSE Send(p, "NICK", p.c.s_nickname)

ChangeServerNickname(p, nick) ==
    SendPending(IF nick = NoNick THEN ResetNickname(p)
                ELSE [p EXCEPT !.c.d_nickname = nick, !.c.s_nickname = nick])

Fudged(nick) ==
    IF Len(nick) < Full THEN Append(nick, "_")
    ELSE <<nick[Full]>> \o SubSeq(nick, 1, Full - 1)

(* A mutant: the attempts are not counted.                                 *)
Uncounted(factor, length) == length

Counted(factor, length) == IF factor < length THEN length ELSE factor + 1

FudgeNickname(p) ==
    LET nick == IF p.c.s_nickname # NoNick THEN p.c.s_nickname ELSE p.c.nickname
        factor == Counted(p.c.fudge_factor, Len(nick))
    IN  IF p.c.user_changing_nickname THEN [p EXCEPT !.c.s_nickname = NoNick]
        ELSE IF factor = GiveUp THEN [ResetNickname(p) EXCEPT !.c.fudge_factor = 0]
        ELSE ChangeServerNickname([p EXCEPT !.c.fudge_factor = factor], Fudged(nick))

AcceptServerNickname(p, nick) ==
    [p EXCEPT !.c.nickname = nick, !.c.d_nickname = nick, !.c.s_nickname = NoNick,
              !.c.fudge_factor = 0]

Now == [c |-> client, out |-> <<>>]
Do(p) == client' = p.c /\ wire' = wire \o p.out

----------------------------------------------------------------------------
(* The connection, and the user.                                           *)

LoginToServer ==
    /\ client.running /\ ~client.connected
    /\ Do([ChangeServerNickname(Send(Now, "USER", NoNick), client.d_nickname)
              EXCEPT !.c.connected = TRUE])
    /\ UNCHANGED <<inbox, server, taken>>

CloseServer ==
    /\ client.running /\ client.connected
    /\ client' = [client EXCEPT !.connected = FALSE]
    /\ wire' = <<>> /\ inbox' = <<>> /\ server' = Nobody
    /\ UNCHANGED taken

CmdNick(nick) ==
    /\ client.running /\ client.connected /\ Len(wire) + Len(inbox) < MaxWire
    /\ Do(ChangeServerNickname([Now EXCEPT !.c.user_changing_nickname = TRUE], nick))
    /\ UNCHANGED <<inbox, server, taken>>

(* The prompt is answered, perhaps with nothing that can be a nick.        *)
NicknameSendline(nick) ==
    /\ client.running /\ client.connected /\ client.prompts > 0
    /\ Len(wire) + Len(inbox) < MaxWire
    /\ Do(ChangeServerNickname([Now EXCEPT !.c.prompts = @ - 1], nick))
    /\ UNCHANGED <<inbox, server, taken>>

(* A signal interrupts the select of io().                                 *)
Interrupted ==
    /\ client.running /\ client.cntl_c_hit > 0
    /\ client' = [client EXCEPT !.cntl_c_hit = 0]
    /\ UNCHANGED <<wire, inbox, server, taken>>

----------------------------------------------------------------------------
(* A line of the server.                                                   *)

Reads(num) ==
    /\ client.running /\ inbox # <<>> /\ Head(inbox).num = num
    /\ inbox' = Tail(inbox) /\ UNCHANGED <<server, taken>>

Welcome ==
    /\ Reads("001")
    /\ Do(AcceptServerNickname(Now, Head(inbox).nick))

MyInfo == Reads("004") /\ Do([Now EXCEPT !.c.itsname = TRUE])

(* A mutant: the nick of the user is taken to be the one asked for last.   *)
FromPending(message) == message.from = client.s_nickname

FromMe(message) == message.from = client.nickname

PNick ==
    /\ Reads("NICK")
    /\ Do(IF FromMe(Head(inbox))
          THEN [AcceptServerNickname(Now, Head(inbox).nick)
                   EXCEPT !.c.user_changing_nickname = FALSE]
          ELSE Now)

(* 433, and who has the nick is asked if the server was known before.      *)
NicknameInUse ==
    /\ client.prompts < MaxPrompts
    /\ Reads("433")
    /\ LET p == FudgeNickname(Now) IN
       Do(IF client.itsname THEN Send(p, "WHOIS", Head(inbox).nick) ELSE p)

NotRegistered == Reads("451") /\ Do(Send(Now, "USER", NoNick))

(* change_server_nickname(NULL) stops at its assertion.                    *)
AlreadyRegistered == Reads("462") /\ Do([Now EXCEPT !.c.running = FALSE,
                                                    !.c.assertion = FALSE])

Lines == Welcome \/ MyInfo \/ PNick \/ NicknameInUse \/ NotRegistered \/ AlreadyRegistered

----------------------------------------------------------------------------
(* The server.                                                             *)

Line(num, nick) == [num |-> num, nick |-> nick, from |-> server.nick]
Welcomes(s) == IF s.user /\ s.nick # NoNick
               THEN <<Line("001", s.nick), Line("004", s.nick)>> ELSE <<>>

Answer(user, nick, lines) ==
    /\ server' = [user |-> user, nick |-> nick]
    /\ inbox' = inbox \o lines
    /\ wire' = Tail(wire)
    /\ UNCHANGED <<client, taken>>

Asked(cmd) == client.connected /\ wire # <<>> /\ Head(wire).cmd = cmd

AnswerUser ==
    /\ Asked("USER")
    /\ Answer(TRUE, server.nick,
              IF Registered THEN <<Line("462", NoNick)>>
              ELSE Welcomes([user |-> TRUE, nick |-> server.nick]))

AnswerNick ==
    LET nick == Head(wire).nick IN
    /\ Asked("NICK")
    /\ IF nick \in taken THEN Answer(server.user, server.nick, <<Line("433", nick)>>)
       ELSE Answer(server.user, nick,
                   CASE nick = server.nick -> <<>>
                     [] nick # server.nick /\ Registered -> <<Line("NICK", nick)>>
                     [] OTHER -> Welcomes([user |-> server.user, nick |-> nick]))

AnswerWhois ==
    /\ Asked("WHOIS")
    /\ Answer(server.user, server.nick,
              IF Registered THEN <<>> ELSE <<Line("451", NoNick)>>)

Answers == AnswerUser \/ AnswerNick \/ AnswerWhois

(* Somebody else takes a nick, or leaves.                                  *)
Other(nick) ==
    /\ client.running /\ nick # server.nick
    /\ taken' = IF nick \in taken THEN taken \ {nick} ELSE taken \cup {nick}
    /\ UNCHANGED <<client, wire, inbox, server>>

Init ==
    /\ client \in [nickname : {NoNick}, d_nickname : Wanted, s_nickname : {NoNick},
                   fudge_factor : {0}, user_changing_nickname : {FALSE},
                   itsname : {FALSE}, connected : {FALSE}, prompts : {0},
                   cntl_c_hit : {0}, running : {TRUE}, assertion : {TRUE}]
    /\ wire = <<>> /\ inbox = <<>> /\ server = Nobody
    /\ taken \in SUBSET Others

Next ==
    \/ LoginToServer \/ CloseServer
    \/ \E nick \in Wanted : CmdNick(nick)
    \/ \E nick \in Wanted \cup {NoNick} : NicknameSendline(nick)
    \/ Interrupted \/ Lines \/ Answers
    \/ \E nick \in Others : Other(nick)

Spec == Init /\ [][Next]_vars

(* The program reads its lines, and the server answers.                    *)
FairSpec == Spec /\ WF_vars(Lines) /\ WF_vars(Answers)

----------------------------------------------------------------------------
(* Properties.                                                             *)

Nicks == {n \in BoundedSeq((UNION {ToSet(n) : n \in Wanted}) \cup {"_"}, Full) : n # <<>>}
OrNone(S) == S \cup {NoNick}

TypeOK ==
    /\ client \in [nickname : OrNone(Nicks), d_nickname : Nicks, s_nickname : OrNone(Nicks),
                   fudge_factor : 0 .. GiveUp - 1, user_changing_nickname : BOOLEAN,
                   itsname : BOOLEAN, connected : BOOLEAN, prompts : 0..MaxPrompts,
                   cntl_c_hit : 0..5, running : BOOLEAN, assertion : BOOLEAN]
    /\ wire \in Seq([cmd : {"USER", "NICK", "WHOIS"}, nick : OrNone(Nicks)])
    /\ inbox \in Seq([num : {"001", "004", "433", "451", "462", "NICK"},
                      nick : OrNone(Nicks), from : OrNone(Nicks)])
    /\ server \in [user : BOOLEAN, nick : OrNone(Nicks)]
    /\ taken \subseteq Others

(* When all that the server sent has been read, the program knows the nick *)
(* it has, however many changes were under way and refused.                *)
KnowsItsNick ==
    (client.running /\ Registered /\ inbox = <<>>) => client.nickname = server.nick

(* While somebody else has its nick, the program does not ask for it for   *)
(* ever: it is registered under another one, or the user is asked.         *)
SignsOn ==
    client.connected
        ~> \/ Registered \/ client.prompts > 0
           \/ ~client.connected \/ ~client.running
           \/ client.user_changing_nickname

(* What fudge_nickname is for: "to allow the user to get signed back on to *)
(* irc after a nick collision without their having to manually type a new  *)
(* nick every time": a connection does not wait for a nick that nobody has *)
(* asked for.                                                              *)
AsksForANick ==
    (client.running /\ client.connected /\ ~Registered /\ wire = <<>> /\ inbox = <<>>)
        => client.prompts > 0

(* change_server_nickname may be called without a nick ("just tells the    *)
(* server what we're trying to change our nickname to").                   *)
NoNickIsHarmless == client.assertion

=============================================================================
