----------------------------- MODULE WhoisQueue -----------------------------
(***************************************************************************)
(* The queue of whois.c for one server: ISON, USERHOST and WHOIS requests  *)
(* whose answers the program keeps from the user and gives to a function.  *)
(* An entry holds no number of its own request: an answer is given to      *)
(* whatever entry is at the head.  The list is kept as it is in memory, a  *)
(* head, a tail and a next pointer in each entry.                          *)
(*                                                                         *)
(* The server (external) answers the requests in the order they were sent. *)
(***************************************************************************)
EXTENDS Integers, SequencesExt

CONSTANTS
    Nicks,        \* nicknames; none of them is part of another one
    Asks,         \* the requests the program adds: [type, nick, isuser]
    Online,       \* the sets of nicknames the server may find signed on
    Talks,        \* nicknames the user sends a message to or types /WHOIS for
    MaxRequests,  \* bound on the requests added
    MaxWire       \* bound on the requests and the answers under way

Types == {"ISON", "USERHOST", "WHOIS"}

ASSUME AsksAssumption ==
    \A a \in Asks : /\ a.type \in Types /\ a.nick \in Seq(Nicks) /\ a.nick # <<>>
                    /\ a.type = "WHOIS" => Len(a.nick) = 1
                    /\ a.isuser \in BOOLEAN
ASSUME OnlineAssumption == Online \subseteq SUBSET Nicks
ASSUME TalksAssumption == Talks \subseteq Nicks
ASSUME BoundsAssumption == MaxRequests \in Nat /\ MaxWire \in Nat

Null == 0
NoNick == "no nick"
Ids == 1 .. MaxRequests

VARIABLES
    heap,    \* the entries allocated and not freed: type, nick, next, and isuser,
             \* whether the answer is shown to the user instead of a call
    head, tail,
    stuff,   \* the nick whois_stuff is about, or NoNick
    asked,   \* the number of requests added; each names its entry
    wire,    \* what was sent and not answered; id = Null outside the queue
    inbox,   \* the numerics sent by the server and not read
    told     \* history: the calls of the entries' functions and their cause

queue == <<heap, head, tail>>
vars == <<heap, head, tail, stuff, asked, wire, inbox, told>>

Live == DOMAIN heap

(* The elements of s that are in S, in their order.                        *)
Picked(s, S) ==
    LET picked[i \in 0 .. Len(s)] ==
            IF i = 0 THEN <<>>
            ELSE IF s[i] \in S THEN Append(picked[i - 1], s[i]) ELSE picked[i - 1]
    IN picked[Len(s)]

----------------------------------------------------------------------------
(* The list.                                                               *)

(* The entries one finds from the head on.                                 *)
Found[k \in 0 .. MaxRequests] ==
    IF k = 0 THEN head
    ELSE IF Found[k - 1] \in Live THEN heap[Found[k - 1]].next ELSE Null

Length == Min({k \in 0 .. MaxRequests : Found[k] = Null})

Chain == [k \in 1 .. Length |-> Found[k - 1]]

HeadIs(type) == head \in Live /\ heap[head].type = type

Call(entry, cause, nick, on) ==
    [entry |-> entry, cause |-> cause, nick |-> nick, on |-> on]

(* Mutant: the tail is left on the entry that was taken.                   *)
PopKeepsTail == /\ head' = heap[head].next
                /\ tail' = tail
                /\ heap' = [id \in Live \ {head} |-> heap[id]]

(* remove_from_whois_queue, and the caller's new_free.                     *)
Pop == /\ head' = heap[head].next
       /\ tail' = IF heap[head].next = Null THEN Null ELSE tail
       /\ heap' = [id \in Live \ {head} |-> heap[id]]

(* Mutant of typed_add_to_whois_queue: the tail is not moved.              *)
LinkedOnce(new, a) ==
    /\ heap' = [id \in Live \cup {new} |->
                   IF id = new
                   THEN [type |-> a.type, nick |-> a.nick, isuser |-> a.isuser, next |-> Null]
                   ELSE IF id = tail THEN [heap[id] EXCEPT !.next = new]
                   ELSE heap[id]]
    /\ head' = IF head = Null THEN new ELSE head
    /\ tail' = IF tail = Null THEN new ELSE tail

Linked(new, a) ==
    /\ heap' = [id \in Live \cup {new} |->
                   IF id = new
                   THEN [type |-> a.type, nick |-> a.nick, isuser |-> a.isuser, next |-> Null]
                   ELSE IF id = tail THEN [heap[id] EXCEPT !.next = new]
                   ELSE heap[id]]
    /\ head' = IF head = Null THEN new ELSE head
    /\ tail' = new

----------------------------------------------------------------------------
(* Requests.                                                               *)

TypedAddToWhoisQueue(a) ==
    /\ asked < MaxRequests
    /\ Len(wire) + Len(inbox) < MaxWire
    /\ asked' = asked + 1
    /\ Linked(asked + 1, a)
    /\ wire' = Append(wire, [type |-> a.type, nick |-> a.nick, id |-> asked + 1])
    /\ UNCHANGED <<stuff, inbox, told>>

(* A message, and /WHOIS typed by the user, do not go by the queue.        *)
Send(type, nick) ==
    /\ Len(wire) + Len(inbox) < MaxWire
    /\ wire' = Append(wire, [type |-> type, nick |-> <<nick>>, id |-> Null])
    /\ UNCHANGED <<heap, head, tail, stuff, asked, inbox, told>>

----------------------------------------------------------------------------
(* The server.                                                             *)

Numeric(num, nick, r) == [num |-> num, nick |-> nick, id |-> r.id]

Replies(r, on) ==
    LET here == Picked(r.nick, on) IN
    CASE r.type = "ISON" -> <<Numeric(303, here, r)>>
      [] r.type = "USERHOST" -> <<Numeric(302, here, r)>>
      [] r.type = "WHOIS" -> <<Numeric(IF here = <<>> THEN 401 ELSE 311, r.nick, r),
                               Numeric(318, r.nick, r)>>
      [] OTHER -> IF here = <<>> THEN <<Numeric(401, r.nick, r)>> ELSE <<>>

Reply ==
    /\ wire # <<>>
    /\ \E on \in Online : inbox' = inbox \o Replies(Head(wire), on)
    /\ wire' = Tail(wire)
    /\ UNCHANGED <<heap, head, tail, stuff, asked, told>>

----------------------------------------------------------------------------
(* The numerics.                                                           *)

Reads(num) == inbox # <<>> /\ Head(inbox).num = num /\ inbox' = Tail(inbox)
              /\ UNCHANGED <<asked, wire>>

M == Head(inbox)
N == Head(M.nick)

(* Mutant: the answer to an ISON is always shown to the user.              *)
IsonShown == /\ Reads(303)
             /\ UNCHANGED <<heap, head, tail, stuff, told>>

IsonReturned ==
    /\ Reads(303)
    /\ IF HeadIs("ISON")
       THEN Pop /\ told' = told \cup {Call(head, M.id, heap[head].nick, TRUE)}
       ELSE UNCHANGED <<heap, head, tail, told>>
    /\ UNCHANGED stuff

(* How many of the answers were used up when the first i nicks asked for   *)
(* have been gone through: an answer is kept until its nick comes up.      *)
Used(nicks, here) ==
    LET used[i \in 0 .. Len(nicks)] ==
            IF i = 0 THEN 0
            ELSE IF used[i - 1] < Len(here) /\ here[used[i - 1] + 1] = nicks[i]
                 THEN used[i - 1] + 1 ELSE used[i - 1]
    IN used

(* The loop of userhost_returned ends where the answers are used up and    *)
(* nicks are left; it reports the nicks before that and, if no nick is     *)
(* left, the answers that remain.  whois_stuff is about the last one.      *)
Reached(nicks, here) ==
    Cardinality({i \in 1 .. Len(nicks) : Used(nicks, here)[i - 1] < Len(here)})

(* Mutant: the call comes after the loop.                                  *)
ReportedOnce(nicks, here) == {Call(head, M.id, <<Last(nicks)>>, TRUE)}

Reported(nicks, here) ==
    LET used == Used(nicks, here)
        n == Reached(nicks, here)
    IN {Call(head, M.id, <<nicks[i]>>, used[i] > used[i - 1]) : i \in 1 .. n}
       \cup {Call(head, M.id, <<here[j]>>, TRUE) : j \in used[n] + 1 .. Len(here)}

LastReported(nicks, here) ==
    LET n == Reached(nicks, here)
    IN IF Used(nicks, here)[n] < Len(here) THEN Last(here) ELSE nicks[n]

Rest(nicks, here) == SubSeq(nicks, Reached(nicks, here) + 1, Len(nicks))

(* Mutant: what is left goes to the end of the list.                       *)
PushedBackLast(rest) ==
    /\ heap' = [id \in Live |-> IF id = head THEN [heap[id] EXCEPT !.nick = rest, !.next = Null]
                                ELSE IF id = tail THEN [heap[id] EXCEPT !.next = head]
                                ELSE heap[id]]
    /\ head' = IF heap[head].next = Null THEN head ELSE heap[head].next
    /\ tail' = head

(* The entry was removed before and is put back at the head as it was,     *)
(* without the tail.                                                       *)
PushedBack(rest) ==
    /\ heap' = [heap EXCEPT ![head].nick = rest]
    /\ head' = head
    /\ tail' = IF heap[head].next = Null THEN Null ELSE tail

UserhostReturned ==
    /\ Reads(302)
    /\ IF M.nick # <<>> /\ HeadIs("USERHOST")
       THEN LET nicks == heap[head].nick
                rest == Rest(nicks, M.nick)
            IN /\ told' = told \cup Reported(nicks, M.nick)
               /\ stuff' = IF heap[head].isuser THEN stuff ELSE LastReported(nicks, M.nick)
               /\ IF rest = <<>> THEN Pop ELSE PushedBack(rest)
       ELSE UNCHANGED <<heap, head, tail, stuff, told>>

(* Mutant: what whois_stuff holds is not replaced.                         *)
WhoisNameIgnored ==
    /\ Reads(311)
    /\ UNCHANGED <<heap, head, tail, stuff, told>>

WhoisName ==
    /\ Reads(311)
    /\ stuff' = IF HeadIs("WHOIS") /\ heap[head].nick = <<N>> THEN N ELSE stuff
    /\ UNCHANGED <<heap, head, tail, told>>

EndOfWhois ==
    /\ Reads(318)
    /\ IF HeadIs("WHOIS") /\ heap[head].nick = <<N>>
       THEN Pop /\ told' = told \cup {Call(head, M.id, heap[head].nick, stuff = N)}
       ELSE UNCHANGED <<heap, head, tail, told>>
    /\ UNCHANGED stuff

(* A nick that is not the last one asked for is cut out; with the last one *)
(* the whole entry goes, and its function is not called.                   *)
NoSuchNickname ==
    /\ Reads(401)
    /\ IF HeadIs("USERHOST") /\ Contains(heap[head].nick, N)
       THEN LET nicks == heap[head].nick
                i == Min({k \in 1 .. Len(nicks) : nicks[k] = N})
            IN IF i = Len(nicks) THEN Pop
               ELSE /\ heap' = [heap EXCEPT ![head].nick = RemoveAt(nicks, i)]
                    /\ UNCHANGED <<head, tail>>
       ELSE UNCHANGED <<heap, head, tail>>
    /\ UNCHANGED <<stuff, told>>

ReadNumeric == \/ IsonReturned \/ UserhostReturned \/ WhoisName
               \/ EndOfWhois \/ NoSuchNickname

(* Mutant: the list is emptied at its head only.                           *)
CleanHead ==
    /\ heap' = [id \in Live \ Range(Chain) |-> heap[id]]
    /\ head' = Null /\ tail' = tail
    /\ wire' = <<>> /\ inbox' = <<>>
    /\ UNCHANGED <<stuff, asked, told>>

(* close_server of the primary server, and the connection with it.         *)
CleanWhoisQueue ==
    /\ heap' = [id \in Live \ Range(Chain) |-> heap[id]]
    /\ head' = Null
    /\ tail' = IF head = Null THEN tail ELSE Null
    /\ wire' = <<>> /\ inbox' = <<>>
    /\ UNCHANGED <<stuff, asked, told>>

Init == /\ heap = <<>> /\ head = Null /\ tail = Null
        /\ stuff = NoNick /\ asked = 0
        /\ wire = <<>> /\ inbox = <<>> /\ told = {}

Next == \/ \E a \in Asks : TypedAddToWhoisQueue(a)
        \/ \E nick \in Talks : Send("WHOIS", nick) \/ Send("PRIVMSG", nick)
        \/ Reply
        \/ ReadNumeric
        \/ CleanWhoisQueue

Spec == Init /\ [][Next]_vars

(* The server answers what it was asked, and io() reads what has come.     *)
FairSpec == Spec /\ WF_vars(Reply) /\ WF_vars(ReadNumeric)

----------------------------------------------------------------------------
(* Properties that hold.                                                   *)

Pointers == Live \cup {Null}

(* No pointer of the queue is to an entry that was freed, and the list     *)
(* comes to an end.                                                        *)
TypeOK ==
    /\ Live \subseteq Ids /\ asked \in 0 .. MaxRequests
    /\ \A id \in Live : /\ heap[id].type \in Types /\ heap[id].next \in Pointers
                        /\ heap[id].nick \in Seq(Nicks) /\ heap[id].nick # <<>>
    /\ head \in Pointers /\ tail \in Pointers
    /\ Found[MaxRequests] = Null
    /\ stuff \in Nicks \cup {NoNick}
    /\ \A t \in told : t.entry \in 1 .. asked /\ t.cause \in 0 .. asked

(* Requests under way, in the order of their answers.                      *)
Outstanding ==
    LET answers == [k \in 1 .. Len(inbox) |->
                       IF inbox[k].num \in {302, 303, 318} THEN inbox[k].id ELSE Null]
        requests == [k \in 1 .. Len(wire) |-> wire[k].id]
    IN Picked(answers \o requests, Ids)

(* When everybody asked for is signed on, the entries are those of the     *)
(* requests under way, in their order, and the tail is the last of them:   *)
(* this is all that pairs an answer with the function waiting for it.  So  *)
(* a function is called for the nicks of its own request, with the answer  *)
(* to that request and whois_stuff filled by it (end_of_whois and          *)
(* userhost_returned pass what the last numeric left in whois_stuff).      *)
Lockstep ==
    /\ Chain = Outstanding
    /\ tail = IF Chain = <<>> THEN Null ELSE Last(Chain)
    /\ \A t \in told : t.cause = t.entry /\ t.on

(* ... so that the queue keeps its promise, every request answered in turn *)
(* by its own answer, or forgotten with the connection.                    *)
Promise == INSTANCE Requests WITH
    pending <- Chain,
    answered <- {t.entry : t \in {c \in told : c.cause = c.entry}}

Answered == Promise!Spec

(* An USERHOST is reported on for every nick it names by the one numeric   *)
(* that answers it.                                                        *)
AllReported ==
    [][UserhostReturned /\ HeadIs("USERHOST") =>
          \A n \in Range(heap[head].nick) :
              \E t \in told' : t.entry = head /\ t.nick = <<n>>]_vars

(* The entries are in the order they were added, even when some were put   *)
(* back, dropped or left without an answer; and there is no tail without a *)
(* head, so that nothing is added behind an entry of a connection that has *)
(* closed.                                                                 *)
InOrder ==
    /\ \A i, j \in DOMAIN Chain : i < j => Chain[i] < Chain[j]
    /\ head = Null => tail = Null
    /\ tail # Null => heap[tail].next = Null

----------------------------------------------------------------------------
(* A statement of a comment that the code does not keep.                   *)

(* whois.c:794, add_to_whois_queue "adds a new element to the whois queue".*)
AddsToQueue ==
    [][\A a \in Asks : TypedAddToWhoisQueue(a) => asked' \in Range(Chain')]_vars
=============================================================================
