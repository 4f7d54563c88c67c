-------------------------------- MODULE Dcc --------------------------------
(***************************************************************************)
(* The list of DCC clients: dcc.c.  A client is a chat or a file, offered  *)
(* by the user or by somebody else.  dcc_check walks the list with a       *)
(* pointer to the link that leads to the next client, while the handlers   *)
(* of the clients mark clients, and add new ones (a chat line may carry a  *)
(* CTCP with an offer); what is marked is freed after the walk.  The       *)
(* commands of the user, the lines of the server and dcc_check_idle run    *)
(* between two walks, and most of them free clients at once.               *)
(*                                                                         *)
(* A client is known by its address, which malloc gives to a later one.    *)
(* What goes through the sockets is in DccTransfer.                        *)
(***************************************************************************)
EXTENDS Integers, SequencesExt

CONSTANTS
    Users,      \* nicknames of the other users
    Files,      \* names of files
    Types,      \* the types used, of dcc_types
    MaxClients  \* bound on the length of the list

None == "none"
Chat == "chat"      \* the description of every chat
Root == 0           \* the link &ClientList; the others are addresses of clients
Nowhere == -1       \* no walk is going on

AllTypes == {"CHAT", "SEND", "GET", "RESEND", "REGET"}
Flags == {"WAIT", "ACTIVE", "OFFER", "DELETE", "PEND"}

TypesAssumption == Types \subseteq AllTypes
NamesAssumption == None \notin Users \cup Files /\ Chat \notin Files
BoundAssumption == MaxClients \in Nat

VARIABLES
    ClientList,     \* the clients: at, type, user, description, flags, dccnum
    deadlist,       \* addresses of the clients to erase after the walk
    link,           \* dcc_check's Client: Root, the address of a client, or Nowhere
    last_chat_req   \* who asked last for a chat

vars == <<ClientList, deadlist, link, last_chat_req>>

----------------------------------------------------------------------------
(* The list.                                                               *)

Addresses(list) == {list[i].at : i \in DOMAIN list}

NewAddress(list) == CHOOSE a \in 1..Len(list) + 1 : a \notin Addresses(list)

(* Mutant: the numbers stay as they were.                                  *)
Unnumbered(list) == list

Renumbered(list) == [i \in DOMAIN list |-> [list[i] EXCEPT !.dccnum = i]]

(* dcc_erase.  dcc_count is one more than the length of the list.          *)
DccErase(list, a) == Renumbered(RemoveFirstMatch(list, LAMBDA c : c.at = a))

(* A loop over the list that erases the clients at some of its places.     *)
ErasedAt(list, places) ==
    LET erased[i \in 0..Len(list)] ==
            IF i = 0 THEN list
            ELSE IF i \in places THEN DccErase(erased[i - 1], list[i].at) ELSE erased[i - 1]
    IN erased[Len(list)]

Update(list, a, F(_)) == [i \in DOMAIN list |-> IF list[i].at = a THEN F(list[i]) ELSE list[i]]

WithFlags(c, flags) == [c EXCEPT !.flags = @ \cup flags]
Marked(c) == WithFlags(c, {"DELETE"})
Mark(list, a) == Update(list, a, Marked)

IsDead(c) == "DELETE" \in c.flags
Busy(c) == c.flags \cap {"ACTIVE", "WAIT"} # {}

(* dcc_searchlist.  active is the set of the two answers that will do.      *)
Either == BOOLEAN
Fits(c, type, user, description, active) ==
    /\ ~IsDead(c)
    /\ c.type = type
    /\ c.user = user
    /\ description \in {c.description, None}
    /\ ("ACTIVE" \in c.flags) \in active

Found(list, type, user, description, active) ==
    SelectSeq(list, LAMBDA c : Fits(c, type, user, description, active))

NewClient(list, type, user, description) ==
    [at |-> NewAddress(list), type |-> type, user |-> user,
     description |-> description, flags |-> {}, dccnum |-> Len(list) + 1]

(* With flag: the first that fits, or a new one at the end.                *)
Searched(list, type, user, description) ==
    LET found == Found(list, type, user, description, Either)
    IN IF found # <<>> THEN [list |-> list, client |-> Head(found)]
       ELSE LET new == NewClient(list, type, user, description)
            IN [list |-> Append(list, new), client |-> new]

(* dcc_open: connects to the one who made the offer, or listens and offers. *)
(* No address of our own (or an IPv6 one): nothing is done.  No socket: the *)
(* client is erased.                                                       *)
Outcomes == {"open", "no address", "no socket"}

Opened(c) == WithFlags(c, {"PEND", IF "OFFER" \in c.flags THEN "ACTIVE" ELSE "WAIT"})

DccOpen(list, a, outcome) ==
    CASE outcome = "open"       -> Update(list, a, Opened)
      [] outcome = "no address" -> list
      [] outcome = "no socket"  -> DccErase(list, a)

----------------------------------------------------------------------------
(* The commands of the user, and the lines of the server about DCC.        *)

Quiet == link = Nowhere
Fresh(list) == Len(list) <= MaxClients

(* dcc_chat and real_dcc_filesend.                                         *)
Offered(list, type, user, description, outcome) ==
    LET s == Searched(list, type, user, description)
    IN IF Busy(s.client) THEN s.list ELSE DccOpen(s.list, s.client.at, outcome)

DccChat(user, outcome) ==
    /\ Quiet
    /\ ClientList' = Offered(ClientList, "CHAT", user, Chat, outcome)
    /\ Fresh(ClientList')
    /\ UNCHANGED <<deadlist, link, last_chat_req>>

RealDccFilesend(type, user, file, outcome) ==
    /\ Quiet
    /\ ClientList' = Offered(ClientList, type, user, file, outcome)
    /\ Fresh(ClientList')
    /\ UNCHANGED <<deadlist, link, last_chat_req>>

DccFilesend(user, file, outcome) == RealDccFilesend("SEND", user, file, outcome)
DccResend(user, file, outcome) == RealDccFilesend("RESEND", user, file, outcome)

(* dcc_getfile and dcc_regetfile, by the first offer of the user (or of a  *)
(* file), or by a number, which finds any client.  The local file may not  *)
(* be written to.                                                          *)
DccGetfile(c, outcome, written) ==
    /\ Quiet
    /\ ~Busy(c)
    /\ LET opened == DccOpen(ClientList, c.at, outcome)
       IN ClientList' = IF outcome = "open" /\ ~written THEN Mark(opened, c.at) ELSE opened
    /\ UNCHANGED <<deadlist, link, last_chat_req>>

GetByName(type, user, description, outcome, written) ==
    LET found == Found(ClientList, type, user, description, {FALSE})
    IN found # <<>> /\ DccGetfile(found[1], outcome, written)

GetByNumber(number, outcome, written) ==
    DccGetfile(ClientList[number], outcome, written)

(* cmd_chat without a name: opens the chat asked for last.  A client that  *)
(* waits for the other side is opened again.                               *)
ChatBack(outcome) ==
    /\ Quiet
    /\ last_chat_req # None
    /\ LET found == Found(ClientList, "CHAT", last_chat_req, Chat, {FALSE})
       IN IF found = <<>>
          THEN last_chat_req' = None /\ UNCHANGED ClientList
          ELSE /\ ClientList' = DccOpen(ClientList, found[1].at, outcome)
               /\ UNCHANGED last_chat_req
    /\ UNCHANGED <<deadlist, link>>

(* /NOCHAT.                                                                *)
NoChat ==
    /\ Quiet
    /\ last_chat_req # None
    /\ LET found == Found(ClientList, "CHAT", last_chat_req, None, Either)
       IN IF found = <<>> THEN UNCHANGED ClientList
          ELSE ClientList' = DccErase(ClientList, found[1].at)
    /\ last_chat_req' = None
    /\ UNCHANGED <<deadlist, link>>

(* dcc_close: by number, all, or all that fit a type, a nick or both.  The *)
(* loops over types and nicks end at the first that is marked.             *)
CloseNum(number) ==
    /\ Quiet
    /\ LET c == ClientList[number]
       IN ClientList' = IF IsDead(c) THEN ClientList ELSE DccErase(ClientList, c.at)
    /\ UNCHANGED <<deadlist, link, last_chat_req>>

CloseAll ==
    /\ Quiet
    /\ ClientList' = ErasedAt(ClientList, {i \in DOMAIN ClientList : ~IsDead(ClientList[i])})
    /\ UNCHANGED <<deadlist, link, last_chat_req>>

CloseEach(types, users) ==
    LET Chosen(c) == c.type \in types /\ c.user \in users
        first == SelectInSeq(ClientList, LAMBDA c : Chosen(c) /\ IsDead(c))
        Closed(i) == Chosen(ClientList[i]) /\ (first = 0 \/ i < first)
    IN /\ Quiet
       /\ ClientList' = ErasedAt(ClientList, {i \in DOMAIN ClientList : Closed(i)})
       /\ UNCHANGED <<deadlist, link, last_chat_req>>

CloseTypeAll(type) == CloseEach({type}, Users)
CloseNickAll(user) == CloseEach(Types, {user})
CloseTypeNickAll(type, user) == CloseEach({type}, {user})

CloseFilename(type, user, description) ==
    LET found == Found(ClientList, type, user, description, Either)
    IN /\ Quiet
       /\ found # <<>>
       /\ ClientList' = DccErase(ClientList, found[1].at)
       /\ UNCHANGED <<deadlist, link, last_chat_req>>

(* A rejection from the other side, in a CTCP reply.                       *)
DccReject(type, user) ==
    LET found == Found(ClientList, type, user, None, Either)
    IN /\ Quiet
       /\ found # <<>>
       /\ ClientList' = Mark(ClientList, found[1].at)
       /\ UNCHANGED <<deadlist, link, last_chat_req>>

DccRename(user, description, new) ==
    LET found == Found(ClientList, "GET", user, description, {FALSE})
        Renamed(c) == [c EXCEPT !.description = new]
    IN /\ Quiet
       /\ found # <<>>
       /\ "OFFER" \in found[1].flags
       /\ ClientList' = Update(ClientList, found[1].at, Renamed)
       /\ UNCHANGED <<deadlist, link, last_chat_req>>

(* check_dcc_list: 401, there is no such nick.                             *)
CheckDccList(user) ==
    /\ Quiet
    /\ ClientList' = [i \in DOMAIN ClientList |->
           LET c == ClientList[i]
           IN IF c.user = user /\ "ACTIVE" \notin c.flags THEN Marked(c) ELSE c]
    /\ UNCHANGED <<deadlist, link, last_chat_req>>

(* register_dcc_offer.  The address may be no address, which leaves the    *)
(* flag DELETE and nothing else, not even the type.                        *)
Forgotten(c) == [c EXCEPT !.flags = {"DELETE"}, !.type = None]

(* Mutant: a bad offer is erased at once.                                  *)
RegisterErases(list, type, user, description, good) ==
    LET s == Searched(list, type, user, description)
        c == s.client
    IN CASE "ACTIVE" \in c.flags \/ ("WAIT" \in c.flags /\ type # "CHAT") -> s.list
         [] good  -> Update(s.list, c.at, LAMBDA x : WithFlags(x, {"OFFER"}))
         [] OTHER -> DccErase(s.list, c.at)

RegisterDccOffer(list, type, user, description, good) ==
    LET s == Searched(list, type, user, description)
        c == s.client
    IN CASE "ACTIVE" \in c.flags \/ ("WAIT" \in c.flags /\ type # "CHAT") -> s.list
         [] good  -> Update(s.list, c.at, LAMBDA x : WithFlags(x, {"OFFER"}))
         [] OTHER -> Update(s.list, c.at, Forgotten)

(* The three kinds of offers: CHAT, SEND (which the user may get) and      *)
(* RESEND.                                                                 *)
OfferTypes == Types \cap {"CHAT", "GET", "REGET"}
Descriptions(type) == IF type = "CHAT" THEN {Chat} ELSE Files

DoDcc(type, user, description, good) ==
    /\ Quiet
    /\ ClientList' = RegisterDccOffer(ClientList, type, user, description, good)
    /\ Fresh(ClientList')
    /\ last_chat_req' = IF type = "CHAT" /\ good /\ ClientList' # ClientList
                        THEN user ELSE last_chat_req
    /\ UNCHANGED <<deadlist, link>>

(* dcc_check_idle: clients nobody has taken in time.                       *)
DccCheckIdle(a) ==
    /\ Quiet
    /\ \E c \in ToSet(ClientList) : c.at = a /\ "ACTIVE" \notin c.flags
    /\ ClientList' = DccErase(ClientList, a)
    /\ UNCHANGED <<deadlist, link, last_chat_req>>

----------------------------------------------------------------------------
(* The walk.                                                               *)

(* What a link leads to: a sequence of one client, or of none.             *)
Pointed(list, l) ==
    LET i == SelectInSeq(list, LAMBDA c : c.at = l)
    IN IF l = Root /\ list # <<>> THEN <<list[1]>>
       ELSE IF i \in 1..Len(list) - 1 THEN <<list[i + 1]>> ELSE <<>>

DccCheck ==
    /\ Quiet
    /\ link' = Root
    /\ UNCHANGED <<ClientList, deadlist, last_chat_req>>

(* dcc_got_connected: getpeername succeeds on a socket that is connected.  *)
GotConnected(c) == [c EXCEPT !.flags = @ \ {"OFFER", "PEND"}]

(* process_incoming_chat, process_outgoing_file and process_incoming_file: *)
(* somebody connects, data comes, or the connection ends.                  *)
Accepted(c) ==
    [c EXCEPT !.flags = ((@ \ {"WAIT"}) \cup {"ACTIVE"}) \ (IF c.type = "CHAT" THEN {} ELSE {"PEND"})]

Handled(c) ==
    {Marked(c)} \cup
    IF "WAIT" \notin c.flags THEN {c}
    ELSE IF "ACTIVE" \in c.flags THEN {}
    ELSE {Accepted(c), Marked(Accepted(c))}

(* One turn of the loop, with flags read before the handlers are called.   *)
(* A CTCP offer in a line of a chat is registered by do_ctcp, for the user *)
(* "=nick"; such users are in Users as well.                               *)
Visit(c, connected, readable, offer) ==
    /\ Pointed(ClientList, link) = <<c>>
    /\ connected => {"PEND", "ACTIVE"} \subseteq c.flags
    /\ readable => ~IsDead(c) /\ Busy(c)
    /\ LET c1 == IF connected THEN GotConnected(c) ELSE c
       IN \E c2 \in (IF readable THEN Handled(c1) ELSE {c1}) :
            LET list == Update(ClientList, c.at, LAMBDA x : c2)
            IN \/ ClientList' = list
               \/ /\ readable /\ c.type = "CHAT" /\ c2 = c1
                  /\ ClientList' = RegisterDccOffer(list, offer.type, offer.user, offer.description, offer.good)
    /\ Fresh(ClientList')
    /\ LET there == Pointed(ClientList', link)
       IN /\ deadlist' = IF IsDead(c) THEN <<there[1].at>> \o deadlist ELSE deadlist
          /\ link' = IF there = <<>> THEN link ELSE there[1].at
    /\ UNCHANGED last_chat_req

(* Mutant: the client added last is left out.                              *)
ErasedButOne(list, dead) == IF dead = <<>> THEN list ELSE FoldLeft(DccErase, list, Tail(dead))

(* The end of the list: dcc_really_erase.                                  *)
ErasedAll(list, dead) ==
    LET erased[i \in 0..Len(dead)] == IF i = 0 THEN list ELSE DccErase(erased[i - 1], dead[i])
    IN erased[Len(dead)]

DccReallyErase ==
    /\ ~Quiet
    /\ Pointed(ClientList, link) = <<>>
    /\ ClientList' = ErasedAll(ClientList, deadlist)
    /\ deadlist' = <<>>
    /\ link' = Nowhere
    /\ UNCHANGED last_chat_req

----------------------------------------------------------------------------
Init == ClientList = <<>> /\ deadlist = <<>> /\ link = Nowhere /\ last_chat_req = None

Offers == {o \in [type : OfferTypes, user : Users, description : Files \cup {Chat}, good : BOOLEAN] :
               o.description \in Descriptions(o.type)}

Walk == \/ DccCheck
        \/ \E c \in ToSet(ClientList), connected, readable \in BOOLEAN, offer \in Offers :
               Visit(c, connected, readable, offer)
        \/ DccReallyErase

DccClose ==
    \/ \E number \in DOMAIN ClientList : CloseNum(number)
    \/ CloseAll
    \/ \E type \in Types : CloseTypeAll(type)
    \/ \E user \in Users : CloseNickAll(user)
    \/ \E type \in Types, user \in Users : CloseTypeNickAll(type, user)
    \/ \E type \in Types, user \in Users, description \in Files \cup {None} :
           CloseFilename(type, user, description)

DccGet ==
    \/ \E type \in Types \cap {"GET", "REGET"}, user \in Users, description \in Files \cup {None},
          outcome \in Outcomes, written \in BOOLEAN : GetByName(type, user, description, outcome, written)
    \/ \E number \in DOMAIN ClientList, outcome \in Outcomes, written \in BOOLEAN :
           GetByNumber(number, outcome, written)

Command ==
    \/ "CHAT" \in Types /\ \E user \in Users, outcome \in Outcomes : DccChat(user, outcome)
    \/ \E user \in Users, file \in Files, outcome \in Outcomes :
           \/ "SEND" \in Types /\ DccFilesend(user, file, outcome)
           \/ "RESEND" \in Types /\ DccResend(user, file, outcome)
    \/ DccGet
    \/ \E outcome \in Outcomes : ChatBack(outcome)
    \/ NoChat
    \/ DccClose
    \/ \E user \in Users, description \in Files \cup {None}, new \in Files : DccRename(user, description, new)
    \/ \E a \in Addresses(ClientList) : DccCheckIdle(a)

Line ==
    \/ \E o \in Offers : DoDcc(o.type, o.user, o.description, o.good)
    \/ \E type \in Types, user \in Users : DccReject(type, user)
    \/ \E user \in Users : CheckDccList(user)

Next == Command \/ Line \/ Walk

Spec == Init /\ [][Next]_vars

(* io() calls dcc_check in every pass in which anything can be read; the   *)
(* walk is a loop that does not wait.                                      *)
FairSpec == Spec /\ WF_vars(Walk)

----------------------------------------------------------------------------
(* Properties.                                                             *)

TypeOK ==
    /\ ClientList \in Seq([at : 1..MaxClients + 1, type : Types \cup {None}, user : Users,
                           description : Files \cup {Chat}, flags : SUBSET Flags, dccnum : 1..MaxClients + 1])
    /\ deadlist \in Seq(1..MaxClients + 1)
    /\ link \in Nowhere..MaxClients + 1
    /\ last_chat_req \in Users \cup {None}

(* The pointer of the walk leads into the list whatever the handlers do:   *)
(* it is the head or a client that is still listed, and the clients on the *)
(* list of the dead have not been freed.                                   *)
WalkIsSafe ==
    /\ link \in {Nowhere, Root} \cup Addresses(ClientList)
    /\ ToSet(deadlist) \subseteq Addresses(ClientList)

(* The numbers the user sees and types are the positions in the list, with *)
(* no number twice, after any additions and erasures.                      *)
Numbered == \A i \in DOMAIN ClientList : ClientList[i].dccnum = i

(* What is marked is erased.                                               *)
DeadAreErased ==
    \A a \in 1..MaxClients :
        (\E c \in ToSet(ClientList) : c.at = a /\ IsDead(c)) ~>
            ~\E c \in ToSet(ClientList) : c.at = a /\ IsDead(c)
=============================================================================
