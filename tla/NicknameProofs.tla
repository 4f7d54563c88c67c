--------------------------- MODULE NicknameProofs ---------------------------
(* Proofs about Nickname for any nicknames and lengths, and any bounds on    *)
(* what is under way.                                                        *)
EXTENDS Traffic, SequenceTheorems, TLAPS

Assumptions == SignOn!FullAssumption /\ SignOn!WantedAssumption /\ SignOn!BoundsAssumption

----------------------------------------------------------------------------
(* The nicknames.                                                           *)

Chars == (UNION {SignOn!ToSet(n) : n \in Wanted}) \cup {"_"}

(* What a nickname is.                                                      *)
LEMMA NickIs ==
    ASSUME Assumptions
    PROVE  \A n : n \in SignOn!Nicks <=> n \in Seq(Chars) /\ Len(n) \in 1 .. Full
  <1>1. Full \in Nat
    BY DEF Assumptions, SignOn!FullAssumption
  <1>2. SignOn!Nicks = {n \in SignOn!BoundedSeq(Chars, Full) : n # <<>>}
    BY DEF SignOn!Nicks, Chars
  <1>3. ASSUME NEW n \in SignOn!Nicks PROVE n \in Seq(Chars) /\ Len(n) \in 1 .. Full
    <2>1. PICK m \in 0 .. Full : n \in [1 .. m -> Chars]
      BY <1>2 DEF SignOn!BoundedSeq, SignOn!SeqOf
    <2>2. n \in Seq(Chars) /\ Len(n) = m /\ n # <<>>
      BY <1>2, <2>1
    <2> QED
      BY <1>1, <2>2
  <1>4. ASSUME NEW n \in Seq(Chars), Len(n) \in 1 .. Full PROVE n \in SignOn!Nicks
    <2>1. n \in [1 .. Len(n) -> Chars] /\ Len(n) \in 0 .. Full /\ n # <<>>
      BY <1>1, <1>4
    <2> QED
      BY <1>2, <2>1 DEF SignOn!BoundedSeq, SignOn!SeqOf
  <1> QED
    BY <1>3, <1>4

(* What the user asks for can be one.                                       *)
LEMMA WantedNick ==
    ASSUME Assumptions, NEW n \in Wanted
    PROVE  n \in SignOn!Nicks
  <1>1. n \in Seq(SignOn!ToSet(n)) /\ Len(n) \in 1 .. Full
    BY DEF Assumptions, SignOn!WantedAssumption
  <1>2. SignOn!ToSet(n) \subseteq Chars
    BY DEF Chars
  <1>3. n \in Seq(Chars)
    BY <1>1, <1>2
  <1> QED
    BY <1>1, <1>3, NickIs

(* And so can what a nickname that is in use becomes.                       *)
LEMMA FudgedNick ==
    ASSUME Assumptions, NEW n \in SignOn!OrNone(SignOn!Nicks)
    PROVE  SignOn!Fudged(n) \in SignOn!Nicks
  <1>1. Full \in Nat /\ Full >= 1
    BY DEF Assumptions, SignOn!FullAssumption
  <1>2. "_" \in Chars
    BY DEF Chars
  <1>3. n \in Seq(Chars) /\ Len(n) \in 0 .. Full
    <2>1. <<>> \in Seq(Chars) /\ Len(<<>>) = 0 /\ 0 \in 0 .. Full
      BY <1>1
    <2>2. CASE n = SignOn!NoNick
      BY <2>1, <2>2 DEF SignOn!NoNick
    <2>3. CASE n \in SignOn!Nicks
      BY <1>1, <2>3, NickIs
    <2> QED
      BY <2>2, <2>3 DEF SignOn!OrNone
  <1> DEFINE m == Len(n)
  <1>4. m \in Nat /\ m =< Full
    BY <1>1, <1>3
  <1>5. CASE m < Full
    <2>1. Append(n, "_") \in Seq(Chars) /\ Len(Append(n, "_")) = m + 1
      BY <1>2, <1>3, AppendProperties
    <2>2. SignOn!Fudged(n) = Append(n, "_")
      BY <1>5 DEF SignOn!Fudged
    <2> HIDE DEF m
    <2>3. m + 1 \in 1 .. Full
      BY <1>1, <1>4, <1>5
    <2> QED
      BY <2>1, <2>2, <2>3, NickIs
  <1>6. CASE ~(m < Full)
    <2> DEFINE a == <<n[Full]>>
               b == SubSeq(n, 1, Full - 1)
    <2>1. SignOn!Fudged(n) = a \o b
      BY <1>6 DEF SignOn!Fudged
    <2>2. m = Full
      BY <1>1, <1>4, <1>6
    <2>3. n[Full] \in Chars
      BY <1>1, <1>3, <2>2, ElementOfSeq
    <2>4. a \in Seq(Chars) /\ Len(a) = 1
      BY <2>3
    <2>5. b \in Seq(Chars) /\ Len(b) = Full - 1
      <3>1. 1 \in 1 .. m + 1 /\ Full - 1 \in 0 .. m
        BY <1>1, <2>2
      <3>2. \A k \in 1 .. Full - 1 : k \in 1 .. m
        BY <1>1, <2>2
      <3> QED
        BY <1>1, <1>3, <2>2, <3>1, <3>2
    <2> HIDE DEF a, b
    <2>6. a \o b \in Seq(Chars) /\ Len(a \o b) = Len(a) + Len(b)
      BY <2>4, <2>5, ConcatProperties
    <2>7. 1 + (Full - 1) \in 1 .. Full
      BY <1>1
    <2> QED
      BY <2>1, <2>4, <2>5, <2>6, <2>7, NickIs
  <1> QED
    BY <1>5, <1>6

(* No nickname is not one.                                                  *)
LEMMA NoNickIsNone ==
    ASSUME Assumptions
    PROVE  SignOn!NoNick \notin SignOn!Nicks
  BY NickIs DEF SignOn!NoNick

----------------------------------------------------------------------------
(* server.c: what the functions change of the client, and what they send.   *)

Client ==
    [nickname : SignOn!OrNone(SignOn!Nicks), d_nickname : SignOn!Nicks, s_nickname : SignOn!OrNone(SignOn!Nicks),
     fudge_factor : 0 .. GiveUp - 1, user_changing_nickname : BOOLEAN,
     itsname : BOOLEAN, connected : BOOLEAN, prompts : Nat,
     cntl_c_hit : Nat, running : BOOLEAN, assertion : BOOLEAN]

(* No NICK goes to the server without a nickname.                           *)
Requests ==
    {m \in [cmd : {"USER", "NICK", "WHOIS"}, nick : SignOn!OrNone(SignOn!Nicks)] :
         m.cmd = "NICK" => m.nick # SignOn!NoNick}

ClientPairs == [c : Client, out : Seq(Requests)]

(* At most one prompt is added, with its interrupt.                         *)
Unprompted(p, q) == /\ q.c.prompts = p.c.prompts /\ q.c.cntl_c_hit = p.c.cntl_c_hit
                    /\ q.c.running = p.c.running

Prompted(p, q) ==
    /\ q.c.nickname = p.c.nickname
    /\ \/ Unprompted(p, q)
       \/ /\ q.c.prompts = p.c.prompts + 1 /\ q.c.cntl_c_hit = p.c.cntl_c_hit + 1
          /\ q.c.running => p.c.cntl_c_hit < 4

(* Sending a request.                                                       *)
LEMMA SendIs ==
    ASSUME NEW p \in ClientPairs, NEW cmd, NEW nick, [cmd |-> cmd, nick |-> nick] \in Requests
    PROVE  SignOn!Send(p, cmd, nick) \in ClientPairs /\ SignOn!Send(p, cmd, nick).c = p.c
  BY DEF SignOn!Send, ClientPairs

(* reset_nickname puts one prompt, with its interrupt.                      *)
LEMMA ResetIs ==
    ASSUME NEW p \in ClientPairs
    PROVE  SignOn!ResetNickname(p) \in ClientPairs /\ Prompted(p, SignOn!ResetNickname(p))
  <1> DEFINE low == p.c.cntl_c_hit < 4
             c == p.c
             d1 == [c EXCEPT !.prompts = c.prompts + 1]
             d2 == [d1 EXCEPT !.cntl_c_hit = d1.cntl_c_hit + 1]
             d == [d2 EXCEPT !.running = low]
  <1>1. c \in Client /\ low \in BOOLEAN
    BY DEF ClientPairs
  <1>2. low => c.cntl_c_hit < 4
    OBVIOUS
  <1>3. SignOn!ResetNickname(p) = [p EXCEPT !.c = d]
    BY DEF SignOn!ResetNickname, ClientPairs, Client
  <1> HIDE DEF low, c
  <1>4. d1 \in Client /\ d1.prompts = c.prompts + 1 /\ d1.nickname = c.nickname
        /\ d1.cntl_c_hit = c.cntl_c_hit
    BY <1>1 DEF Client
  <1> HIDE DEF d1
  <1>5. /\ d2 \in Client /\ d2.prompts = c.prompts + 1 /\ d2.nickname = c.nickname
        /\ d2.cntl_c_hit = c.cntl_c_hit + 1
    BY <1>4 DEF Client
  <1> HIDE DEF d2
  <1>6. /\ d \in Client /\ d.nickname = c.nickname /\ d.prompts = c.prompts + 1
        /\ d.cntl_c_hit = c.cntl_c_hit + 1 /\ d.running = low
    BY <1>1, <1>5 DEF Client
  <1> HIDE DEF d
  <1>7. SignOn!ResetNickname(p) \in ClientPairs /\ SignOn!ResetNickname(p).c = d
    BY <1>3, <1>6 DEF ClientPairs
  <1> QED
    BY <1>2, <1>6, <1>7 DEF Prompted, c

(* What is pending is asked for.                                            *)
LEMMA SendPendingIs ==
    ASSUME Assumptions, NEW p \in ClientPairs
    PROVE  SignOn!SendPending(p) \in ClientPairs /\ SignOn!SendPending(p).c = p.c
  <1>1. p.c.s_nickname \in SignOn!OrNone(SignOn!Nicks)
    BY DEF ClientPairs, Client
  <1>2. CASE p.c.s_nickname = SignOn!NoNick
    BY <1>2 DEF SignOn!SendPending
  <1>3. CASE p.c.s_nickname # SignOn!NoNick
    <2>1. [cmd |-> "NICK", nick |-> p.c.s_nickname] \in Requests
      BY <1>1, <1>3 DEF Requests
    <2> QED
      BY <1>3, <2>1, SendIs DEF SignOn!SendPending
  <1> QED
    BY <1>2, <1>3

(* change_server_nickname puts a prompt only when it has no nickname.       *)
LEMMA ChangeIs ==
    ASSUME Assumptions, NEW p \in ClientPairs, NEW nick \in SignOn!OrNone(SignOn!Nicks)
    PROVE  /\ SignOn!ChangeServerNickname(p, nick) \in ClientPairs
           /\ Prompted(p, SignOn!ChangeServerNickname(p, nick))
           /\ nick # SignOn!NoNick => Unprompted(p, SignOn!ChangeServerNickname(p, nick))
  <1> DEFINE q == IF nick = SignOn!NoNick THEN SignOn!ResetNickname(p)
                  ELSE [p EXCEPT !.c.d_nickname = nick, !.c.s_nickname = nick]
  <1>1. q \in ClientPairs /\ Prompted(p, q) /\ (nick # SignOn!NoNick => Unprompted(p, q))
    <2>1. CASE nick = SignOn!NoNick
      BY <2>1, ResetIs
    <2>2. CASE nick # SignOn!NoNick
      <3>1. nick \in SignOn!Nicks /\ nick \in SignOn!OrNone(SignOn!Nicks)
        BY <2>2 DEF SignOn!OrNone
      <3> QED
        BY <2>2, <3>1 DEF ClientPairs, Client, Prompted, Unprompted
    <2> QED
      BY <2>1, <2>2
  <1>2. SignOn!ChangeServerNickname(p, nick) = SignOn!SendPending(q)
    BY DEF SignOn!ChangeServerNickname
  <1> HIDE DEF q
  <1> QED
    BY <1>1, <1>2, SendPendingIs DEF Prompted, Unprompted

(* The attempts end before GiveUp.                                          *)
LEMMA CountedIs ==
    ASSUME Assumptions, NEW factor \in 0 .. GiveUp - 1, NEW length \in 0 .. Full
    PROVE  SignOn!Counted(factor, length) \in 0 .. GiveUp
  BY DEF SignOn!Counted, Assumptions, SignOn!FullAssumption

(* fudge_nickname puts at most one prompt.                                  *)
LEMMA FudgeIs ==
    ASSUME Assumptions, NEW p \in ClientPairs
    PROVE  SignOn!FudgeNickname(p) \in ClientPairs /\ Prompted(p, SignOn!FudgeNickname(p))
  <1> DEFINE nick == IF p.c.s_nickname # SignOn!NoNick THEN p.c.s_nickname ELSE p.c.nickname
             factor == SignOn!Counted(p.c.fudge_factor, Len(nick))
  <1>1. nick \in SignOn!OrNone(SignOn!Nicks)
    BY DEF ClientPairs, Client
  <1>2. Len(nick) \in 0 .. Full
    <2>1. Full \in Nat /\ Len(SignOn!NoNick) = 0
      BY DEF Assumptions, SignOn!FullAssumption, SignOn!NoNick
    <2> HIDE DEF nick
    <2> QED
      BY <1>1, <2>1, NickIs DEF SignOn!OrNone
  <1> HIDE DEF nick
  <1>3. factor \in 0 .. GiveUp
    BY <1>2, CountedIs DEF ClientPairs, Client
  <1> HIDE DEF factor
  <1>4. GiveUp \in Nat /\ 0 \in 0 .. GiveUp - 1
    BY DEF Assumptions, SignOn!FullAssumption
  <1>5. CASE p.c.user_changing_nickname
    <2>1. SignOn!FudgeNickname(p) = [p EXCEPT !.c.s_nickname = SignOn!NoNick]
      BY <1>5 DEF SignOn!FudgeNickname
    <2> DEFINE d == [p.c EXCEPT !.s_nickname = SignOn!NoNick]
    <2>2. /\ d \in Client /\ d.nickname = p.c.nickname /\ d.prompts = p.c.prompts
          /\ d.cntl_c_hit = p.c.cntl_c_hit /\ d.running = p.c.running
      BY DEF ClientPairs, Client, SignOn!OrNone
    <2>3. SignOn!FudgeNickname(p) \in ClientPairs /\ SignOn!FudgeNickname(p).c = d
      BY <2>1, <2>2 DEF ClientPairs
    <2> HIDE DEF d
    <2> QED
      BY <2>2, <2>3 DEF Prompted, Unprompted
  <1>6. CASE ~p.c.user_changing_nickname /\ factor = GiveUp
    <2>1. SignOn!FudgeNickname(p) = [SignOn!ResetNickname(p) EXCEPT !.c.fudge_factor = 0]
      BY <1>6 DEF SignOn!FudgeNickname, factor, nick
    <2> DEFINE q == SignOn!ResetNickname(p)
    <2>2. q \in ClientPairs /\ Prompted(p, q)
      BY ResetIs
    <2>3. SignOn!FudgeNickname(p) = [q EXCEPT !.c.fudge_factor = 0]
      BY <2>1
    <2> HIDE DEF q
    <2> DEFINE d == [q.c EXCEPT !.fudge_factor = 0]
    <2>4. /\ d \in Client /\ d.nickname = q.c.nickname /\ d.prompts = q.c.prompts
          /\ d.cntl_c_hit = q.c.cntl_c_hit /\ d.running = q.c.running
      BY <1>4, <2>2 DEF ClientPairs, Client
    <2>5. SignOn!FudgeNickname(p) \in ClientPairs /\ SignOn!FudgeNickname(p).c = d
      BY <2>2, <2>3, <2>4 DEF ClientPairs
    <2> HIDE DEF d
    <2> QED
      BY <2>2, <2>4, <2>5 DEF Prompted, Unprompted
  <1>7. CASE ~p.c.user_changing_nickname /\ factor # GiveUp
    <2> DEFINE q == [p EXCEPT !.c.fudge_factor = factor]
    <2>1. SignOn!FudgeNickname(p) = SignOn!ChangeServerNickname(q, SignOn!Fudged(nick))
      BY <1>7 DEF SignOn!FudgeNickname, factor, nick
    <2>2. factor \in 0 .. GiveUp - 1
      BY <1>3, <1>4, <1>7
    <2>3. /\ q \in ClientPairs /\ q.c.nickname = p.c.nickname /\ q.c.prompts = p.c.prompts
          /\ q.c.cntl_c_hit = p.c.cntl_c_hit /\ q.c.running = p.c.running
      BY <2>2 DEF ClientPairs, Client
    <2> HIDE DEF q
    <2>4. SignOn!Fudged(nick) \in SignOn!OrNone(SignOn!Nicks)
      BY <1>1, FudgedNick DEF SignOn!OrNone
    <2> QED
      BY <2>1, <2>3, <2>4, ChangeIs DEF Prompted, Unprompted
  <1> QED
    BY <1>5, <1>6, <1>7

(* accept_server_nickname takes the nickname.                               *)
LEMMA AcceptIs ==
    ASSUME Assumptions, NEW p \in ClientPairs, NEW nick \in SignOn!Nicks
    PROVE  /\ SignOn!AcceptServerNickname(p, nick) \in ClientPairs
           /\ SignOn!AcceptServerNickname(p, nick).c.nickname = nick
           /\ SignOn!AcceptServerNickname(p, nick).c.prompts = p.c.prompts
           /\ SignOn!AcceptServerNickname(p, nick).c.cntl_c_hit = p.c.cntl_c_hit
           /\ SignOn!AcceptServerNickname(p, nick).c.running = p.c.running
  <1>1. nick \in SignOn!OrNone(SignOn!Nicks) /\ SignOn!NoNick \in SignOn!OrNone(SignOn!Nicks) /\ 0 \in 0 .. GiveUp - 1
    BY DEF SignOn!OrNone, Assumptions, SignOn!FullAssumption
  <1> QED
    BY <1>1 DEF SignOn!AcceptServerNickname, ClientPairs, Client

----------------------------------------------------------------------------
(* The lines under way lead from the nickname the program has to the one    *)
(* the server knows: each change starts from where the one before ended.    *)

Changes == {"001", "NICK"}

Messages ==
    {m \in [num : {"001", "004", "433", "451", "462", "NICK"},
            nick : SignOn!OrNone(SignOn!Nicks), from : SignOn!OrNone(SignOn!Nicks)] :
         m.num \in Changes => m.nick # SignOn!NoNick}

After(m, nick) == IF m.num \in Changes THEN m.nick ELSE nick
Follows(m, nick) == m.num = "NICK" => m.from = nick

Path(f, q, from, to) ==
    /\ f \in [0 .. Len(q) -> SignOn!OrNone(SignOn!Nicks)]
    /\ f[0] = from /\ f[Len(q)] = to
    /\ \A k \in 1 .. Len(q) : f[k] = After(q[k], f[k - 1]) /\ Follows(q[k], f[k - 1])

Leads(q, from, to) == \E f : Path(f, q, from, to)

(* Reading a line takes the first step.                                     *)
LEMMA LeadsRead ==
    ASSUME NEW q \in Seq(Messages), q # <<>>, NEW from, NEW to, Leads(q, from, to)
    PROVE  /\ Leads(Tail(q), After(Head(q), from), to)
           /\ Follows(Head(q), from)
  <1>1. PICK f : Path(f, q, from, to)
    BY DEF Leads
  <1> DEFINE n == Len(q)
             t == Tail(q)
             g == [k \in 0 .. n - 1 |-> f[k + 1]]
  <1>2. /\ n \in Nat /\ n >= 1 /\ Len(t) = n - 1 /\ Head(q) = q[1]
        /\ \A k \in 1 .. n - 1 : t[k] = q[k + 1]
    OBVIOUS
  <1>3. /\ f \in [0 .. n -> SignOn!OrNone(SignOn!Nicks)] /\ f[0] = from /\ f[n] = to
        /\ \A k \in 1 .. n : f[k] = After(q[k], f[k - 1]) /\ Follows(q[k], f[k - 1])
    BY <1>1 DEF Path
  <1> HIDE DEF n, t
  <1>4. f[1] = After(q[1], from) /\ Follows(q[1], from)
    BY <1>2, <1>3
  <1>5. g \in [0 .. n - 1 -> SignOn!OrNone(SignOn!Nicks)] /\ g[0] = f[1] /\ g[n - 1] = to
    BY <1>2, <1>3
  <1>6. ASSUME NEW k \in 1 .. n - 1
        PROVE  g[k] = After(t[k], g[k - 1]) /\ Follows(t[k], g[k - 1])
    <2>1. k + 1 \in 1 .. n /\ (k + 1) - 1 = k /\ (k - 1) + 1 = k
      BY <1>2
    <2>2. g[k] = f[k + 1] /\ g[k - 1] = f[k]
      BY <1>2
    <2>3. f[k + 1] = After(q[k + 1], f[k]) /\ Follows(q[k + 1], f[k])
      BY <1>3, <2>1
    <2> QED
      BY <1>2, <2>2, <2>3
  <1> HIDE DEF g
  <1>7. Path(g, t, After(q[1], from), to)
    BY <1>2, <1>4, <1>5, <1>6 DEF Path
  <1> QED
    BY <1>2, <1>4, <1>7 DEF Leads, t

(* A line that starts where the others end is one more step.                *)
LEMMA LeadsSent ==
    ASSUME NEW q \in Seq(Messages), NEW m \in Messages, NEW from,
           NEW to \in SignOn!OrNone(SignOn!Nicks), Leads(q, from, to), Follows(m, to)
    PROVE  Leads(Append(q, m), from, After(m, to))
  <1>1. PICK f : Path(f, q, from, to)
    BY DEF Leads
  <1> DEFINE n == Len(q)
             s == Append(q, m)
             a == After(m, to)
             g == [k \in 0 .. n + 1 |-> IF k = n + 1 THEN a ELSE f[k]]
  <1>2. n \in Nat /\ Len(s) = n + 1 /\ s[n + 1] = m /\ \A k \in 1 .. n : s[k] = q[k]
    BY AppendProperties
  <1>3. a \in SignOn!OrNone(SignOn!Nicks)
    BY DEF After, Messages
  <1>4. /\ f \in [0 .. n -> SignOn!OrNone(SignOn!Nicks)] /\ f[0] = from /\ f[n] = to
        /\ \A k \in 1 .. n : f[k] = After(q[k], f[k - 1]) /\ Follows(q[k], f[k - 1])
    BY <1>1 DEF Path
  <1> HIDE DEF n, s, a
  <1>5. g \in [0 .. n + 1 -> SignOn!OrNone(SignOn!Nicks)] /\ g[0] = from /\ g[n + 1] = a
    BY <1>2, <1>3, <1>4
  <1>6. ASSUME NEW k \in 1 .. n + 1
        PROVE  g[k] = After(s[k], g[k - 1]) /\ Follows(s[k], g[k - 1])
    <2>1. g[k - 1] = f[k - 1]
      BY <1>2
    <2>2. CASE k = n + 1
      <3>1. k - 1 = n /\ g[k] = a /\ s[k] = m
        BY <1>2, <2>2
      <3> QED
        BY <1>4, <2>1, <3>1 DEF a
    <2>3. CASE k # n + 1
      <3>1. k \in 1 .. n
        BY <1>2, <2>3
      <3>2. g[k] = f[k] /\ s[k] = q[k]
        BY <1>2, <2>3, <3>1
      <3> QED
        BY <1>4, <2>1, <3>1, <3>2
    <2> QED
      BY <2>2, <2>3
  <1> HIDE DEF g
  <1>7. Path(g, s, from, a)
    BY <1>2, <1>5, <1>6 DEF Path
  <1> QED
    BY <1>7 DEF Leads, s, a

(* Lines that change nothing lead nowhere.                                  *)
LEMMA LeadsNowhere ==
    ASSUME NEW q \in Seq(Messages), NEW nick \in SignOn!OrNone(SignOn!Nicks),
           \A k \in 1 .. Len(q) : q[k].num \notin Changes
    PROVE  Leads(q, nick, nick)
  <1> DEFINE f == [k \in 0 .. Len(q) |-> nick]
  <1>1. Len(q) \in Nat
    OBVIOUS
  <1>2. Path(f, q, nick, nick)
    BY <1>1 DEF Path, After, Follows, Changes
  <1> QED
    BY <1>2 DEF Leads

(* When nothing is under way the two are one.                               *)
LEMMA LeadsEnd ==
    ASSUME NEW from, NEW to, Leads(<<>>, from, to)
    PROVE  from = to
  BY DEF Leads, Path

(* One and two lines more.                                                  *)
LEMMA Joined ==
    ASSUME NEW S, NEW q \in Seq(S)
    PROVE  /\ q \o <<>> = q
           /\ \A a \in S : q \o <<a>> = Append(q, a)
           /\ \A a, b \in S : q \o <<a, b>> = Append(Append(q, a), b)
  <1>1. q \o <<>> = q
    BY ConcatEmptySeq
  <1>2. ASSUME NEW a \in S PROVE q \o <<a>> = Append(q, a)
    OBVIOUS
  <1>3. ASSUME NEW a \in S, NEW b \in S PROVE q \o <<a, b>> = Append(Append(q, a), b)
    OBVIOUS
  <1> QED
    BY <1>1, <1>2, <1>3

----------------------------------------------------------------------------
(* The inductive invariant.                                                 *)

(* The fifth interrupt ends the program.                                    *)
Fine(c) == /\ c \in Client /\ c.prompts =< MaxPrompts
           /\ c.cntl_c_hit =< 5 /\ (c.running => c.cntl_c_hit =< 4)

NickTyped == /\ Fine(me)
         /\ wire \in Seq(Requests) /\ inbox \in Seq(Messages)
         /\ server \in [user : BOOLEAN, nick : SignOn!OrNone(SignOn!Nicks)]
         /\ taken \subseteq Others

Told == IF SignOn!Registered THEN Leads(inbox, me.nickname, server.nick)
        ELSE \A k \in 1 .. Len(inbox) : inbox[k].num \notin Changes

KInv == NickTyped /\ Told

(* What a handler starts from.                                              *)
LEMMA NowIs ==
    ASSUME NickTyped
    PROVE  SignOn!Now \in ClientPairs /\ SignOn!Now.c = me /\ me \in Client
  BY DEF NickTyped, Fine, SignOn!Now, ClientPairs

(* What a handler does.                                                     *)
LEMMA DoIs ==
    ASSUME NickTyped, NEW p \in ClientPairs, SignOn!Do(p)
    PROVE  me' = p.c /\ wire' \in Seq(Requests)
  BY ConcatProperties DEF NickTyped, ClientPairs, SignOn!Do

(* A prompt more, where the program runs and has room for it.               *)
LEMMA PromptedFine ==
    ASSUME Assumptions, NEW p \in ClientPairs, NEW q \in ClientPairs, Prompted(p, q),
           Fine(p.c), p.c.running, p.c.prompts < MaxPrompts
    PROVE  Fine(q.c)
  <1>1. MaxPrompts \in Nat
    BY DEF Assumptions, SignOn!BoundsAssumption
  <1>2. /\ q.c \in Client /\ p.c.prompts \in Nat /\ p.c.cntl_c_hit \in Nat
        /\ p.c.cntl_c_hit =< 4 /\ p.c.prompts < MaxPrompts
    BY DEF ClientPairs, Client, Fine
  <1>3. CASE Unprompted(p, q)
    BY <1>1, <1>2, <1>3 DEF Unprompted, Fine
  <1>4. CASE ~Unprompted(p, q)
    <2>1. /\ q.c.prompts = p.c.prompts + 1 /\ q.c.cntl_c_hit = p.c.cntl_c_hit + 1
          /\ q.c.running => p.c.cntl_c_hit < 4
      BY <1>4 DEF Prompted
    <2>2. q.c.prompts =< MaxPrompts /\ q.c.cntl_c_hit =< 5
      BY <1>1, <1>2, <2>1
    <2>3. q.c.running => q.c.cntl_c_hit =< 4
      BY <1>2, <2>1
    <2> QED
      BY <1>2, <2>2, <2>3 DEF Fine
  <1> QED
    BY <1>3, <1>4

(* No prompt more, and nothing else that counts.                            *)
LEMMA UnpromptedFine ==
    ASSUME NEW p \in ClientPairs, NEW q \in ClientPairs, Unprompted(p, q), Fine(p.c)
    PROVE  Fine(q.c)
  BY DEF Unprompted, Fine, ClientPairs

(* What is known stays known where the nickname and the connection do.      *)
LEMMA ToldStays ==
    ASSUME Told, me'.nickname = me.nickname, UNCHANGED <<inbox, server>>
    PROVE  Told'
  BY DEF Told, SignOn!Registered

(* A line that changes nothing is read.                                     *)
LEMMA ToldRead ==
    ASSUME KInv, NEW num, SignOn!Reads(num), num \notin Changes,
           me'.nickname = me.nickname
    PROVE  Told' /\ inbox' \in Seq(Messages)
  <1>1. /\ inbox # <<>> /\ inbox' = Tail(inbox) /\ server' = server
        /\ Head(inbox).num = num /\ inbox \in Seq(Messages)
    BY DEF SignOn!Reads, KInv, NickTyped
  <1>2. inbox' \in Seq(Messages)
    BY <1>1
  <1>3. CASE SignOn!Registered
    <2>1. Leads(inbox, me.nickname, server.nick)
      BY <1>3 DEF KInv, Told
    <2>2. Leads(Tail(inbox), After(Head(inbox), me.nickname), server.nick)
      BY <1>1, <2>1, LeadsRead
    <2>3. After(Head(inbox), me.nickname) = me.nickname
      BY <1>1 DEF After
    <2> QED
      BY <1>1, <1>2, <1>3, <2>2, <2>3 DEF Told, SignOn!Registered
  <1>4. CASE ~SignOn!Registered
    <2>1. \A k \in 1 .. Len(inbox) : inbox[k].num \notin Changes
      BY <1>4 DEF KInv, Told
    <2>2. /\ Len(inbox) \in Nat /\ Len(inbox') = Len(inbox) - 1
          /\ \A k \in 1 .. Len(inbox') : inbox'[k] = inbox[k + 1] /\ k + 1 \in 1 .. Len(inbox)
      BY <1>1
    <2>3. \A k \in 1 .. Len(inbox') : inbox'[k].num \notin Changes
      BY <2>1, <2>2
    <2> QED
      BY <1>1, <1>2, <1>4, <2>3 DEF Told, SignOn!Registered
  <1> QED
    BY <1>3, <1>4

(* A line that changes the nickname is read, and the program takes it.      *)
LEMMA ToldTaken ==
    ASSUME KInv, NEW num \in Changes, SignOn!Reads(num),
           SignOn!FromMe(Head(inbox)) \/ num = "001" => me'.nickname = Head(inbox).nick
    PROVE  Told' /\ inbox' \in Seq(Messages)
  <1>1. /\ inbox # <<>> /\ inbox' = Tail(inbox) /\ server' = server
        /\ Head(inbox).num = num /\ inbox \in Seq(Messages)
    BY DEF SignOn!Reads, KInv, NickTyped
  <1>2. inbox' \in Seq(Messages)
    BY <1>1
  <1>3. SignOn!Registered
    <2>1. 1 \in 1 .. Len(inbox) /\ Head(inbox) = inbox[1]
      BY <1>1
    <2> QED
      BY <1>1, <2>1 DEF KInv, Told
  <1>4. Leads(inbox, me.nickname, server.nick)
    BY <1>3 DEF KInv, Told
  <1>5. /\ Leads(Tail(inbox), After(Head(inbox), me.nickname), server.nick)
        /\ Follows(Head(inbox), me.nickname)
    BY <1>1, <1>4, LeadsRead
  <1>6. num = "001" \/ num = "NICK"
    BY DEF Changes
  <1>7. me'.nickname = Head(inbox).nick
    BY <1>1, <1>5, <1>6 DEF Follows, SignOn!FromMe
  <1>8. After(Head(inbox), me.nickname) = me'.nickname
    BY <1>1, <1>7 DEF After
  <1> QED
    BY <1>1, <1>2, <1>3, <1>5, <1>8 DEF Told, SignOn!Registered

(* A line of the server that changes nothing is sent.                       *)
LEMMA ToldSent ==
    ASSUME KInv, NEW m \in Messages, m.num \notin Changes, inbox' = inbox \o <<m>>,
           server' = server, me' = me
    PROVE  Told' /\ inbox' \in Seq(Messages)
  <1>1. inbox \in Seq(Messages) /\ server.nick \in SignOn!OrNone(SignOn!Nicks)
    BY DEF KInv, NickTyped
  <1>2. inbox' = Append(inbox, m) /\ inbox' \in Seq(Messages)
    BY <1>1, Joined, AppendProperties
  <1>3. CASE SignOn!Registered
    <2>1. Leads(inbox, me.nickname, server.nick)
      BY <1>3 DEF KInv, Told
    <2>2. After(m, server.nick) = server.nick /\ Follows(m, server.nick)
      BY DEF After, Follows, Changes
    <2>3. Leads(Append(inbox, m), me.nickname, After(m, server.nick))
      BY <1>1, <2>1, <2>2, LeadsSent
    <2> QED
      BY <1>2, <1>3, <2>2, <2>3 DEF Told, SignOn!Registered
  <1>4. CASE ~SignOn!Registered
    <2>1. \A k \in 1 .. Len(inbox) : inbox[k].num \notin Changes
      BY <1>4 DEF KInv, Told
    <2>2. /\ Len(inbox) \in Nat /\ Len(inbox') = Len(inbox) + 1 /\ inbox'[Len(inbox) + 1] = m
          /\ \A k \in 1 .. Len(inbox) : inbox'[k] = inbox[k]
      BY <1>1, <1>2, AppendProperties
    <2>3. ASSUME NEW k \in 1 .. Len(inbox') PROVE inbox'[k].num \notin Changes
      <3>1. k = Len(inbox) + 1 \/ k \in 1 .. Len(inbox)
        BY <2>2
      <3> QED
        BY <2>1, <2>2, <3>1
    <2> QED
      BY <1>2, <1>4, <2>3 DEF Told, SignOn!Registered
  <1> QED
    BY <1>3, <1>4

(* Nothing is sent, and nothing changes that has been told.                 *)
LEMMA ToldSame ==
    ASSUME KInv, inbox' = inbox \o <<>>, me' = me, SignOn!Registered' <=> SignOn!Registered,
           SignOn!Registered => server'.nick = server.nick
    PROVE  Told' /\ inbox' \in Seq(Messages)
  <1>1. inbox' = inbox /\ inbox \in Seq(Messages)
    BY Joined DEF KInv, NickTyped
  <1>2. CASE SignOn!Registered
    BY <1>1, <1>2 DEF KInv, Told
  <1>3. CASE ~SignOn!Registered
    BY <1>1, <1>3 DEF KInv, Told
  <1> QED
    BY <1>2, <1>3

(* The connection is registered: 001 tells the nickname.                    *)
LEMMA ToldWelcome ==
    ASSUME KInv, ~SignOn!Registered, server'.user, server'.nick \in SignOn!Nicks, server'.nick # SignOn!NoNick,
           inbox' = inbox \o <<SignOn!Line("001", server'.nick), SignOn!Line("004", server'.nick)>>,
           me' = me
    PROVE  Told' /\ inbox' \in Seq(Messages)
  <1> DEFINE a == SignOn!Line("001", server'.nick)
             b == SignOn!Line("004", server'.nick)
             to == server'.nick
             from == me.nickname
  <1>1. /\ inbox \in Seq(Messages) /\ server.nick \in SignOn!OrNone(SignOn!Nicks)
        /\ from \in SignOn!OrNone(SignOn!Nicks) /\ to \in SignOn!OrNone(SignOn!Nicks)
    BY DEF KInv, NickTyped, Fine, Client, SignOn!OrNone
  <1>2. a \in Messages /\ b \in Messages
    BY <1>1 DEF SignOn!Line, Messages
  <1>3. inbox' = Append(Append(inbox, a), b)
    BY <1>1, <1>2, Joined
  <1>4. /\ After(a, from) = to /\ Follows(a, from)
        /\ After(b, to) = to /\ Follows(b, to)
    BY DEF After, Follows, Changes, SignOn!Line
  <1>5. SignOn!Registered'
    BY DEF SignOn!Registered
  <1>6. \A k \in 1 .. Len(inbox) : inbox[k].num \notin Changes
    BY DEF KInv, Told
  <1> HIDE DEF a, b, to, from
  <1>7. Leads(inbox, from, from)
    BY <1>1, <1>6, LeadsNowhere
  <1>8. Leads(Append(inbox, a), from, to)
    BY <1>1, <1>2, <1>4, <1>7, LeadsSent
  <1>9. Append(inbox, a) \in Seq(Messages) /\ inbox' \in Seq(Messages)
    BY <1>1, <1>2, <1>3, AppendProperties
  <1>10. Leads(inbox', from, to)
    BY <1>1, <1>2, <1>3, <1>4, <1>8, <1>9, LeadsSent
  <1> QED
    BY <1>5, <1>9, <1>10 DEF Told, from, to

(* The nickname of a registered connection changes.                         *)
LEMMA ToldNick ==
    ASSUME KInv, SignOn!Registered, NEW nick \in SignOn!Nicks, nick # SignOn!NoNick,
           server' = [user |-> server.user, nick |-> nick],
           inbox' = inbox \o <<SignOn!Line("NICK", nick)>>, me' = me
    PROVE  Told' /\ inbox' \in Seq(Messages)
  <1> DEFINE m == SignOn!Line("NICK", nick)
             from == me.nickname
  <1>1. inbox \in Seq(Messages) /\ server.nick \in SignOn!OrNone(SignOn!Nicks) /\ nick \in SignOn!OrNone(SignOn!Nicks)
    BY DEF KInv, NickTyped, SignOn!OrNone
  <1>2. m \in Messages
    BY <1>1 DEF SignOn!Line, Messages
  <1>3. inbox' = Append(inbox, m)
    BY <1>1, <1>2, Joined
  <1>4. After(m, server.nick) = nick /\ Follows(m, server.nick)
    BY DEF After, Follows, Changes, SignOn!Line
  <1>5. Leads(inbox, from, server.nick)
    BY DEF KInv, Told
  <1>6. SignOn!Registered' /\ server'.nick = nick /\ me'.nickname = from
    BY DEF SignOn!Registered
  <1> HIDE DEF m, from
  <1>7. Leads(inbox', from, nick) /\ inbox' \in Seq(Messages)
    <2>1. Leads(Append(inbox, m), from, After(m, server.nick))
      BY <1>1, <1>2, <1>4, <1>5, LeadsSent
    <2>2. Append(inbox, m) \in Seq(Messages)
      BY <1>1, <1>2, AppendProperties
    <2> QED
      BY <1>3, <1>4, <2>1, <2>2
  <1> QED
    BY <1>6, <1>7 DEF Told

----------------------------------------------------------------------------
(* The server keeps the invariant.                                          *)

LEMMA AnswerKeeps ==
    ASSUME KInv, Told', inbox' \in Seq(Messages), wire # <<>>, wire' = Tail(wire),
           UNCHANGED <<me, taken>>,
           server' \in [user : BOOLEAN, nick : SignOn!OrNone(SignOn!Nicks)]
    PROVE  KInv'
  <1>1. wire \in Seq(Requests) /\ Fine(me) /\ taken \subseteq Others
    BY DEF KInv, NickTyped
  <1>2. wire' \in Seq(Requests)
    BY <1>1
  <1>3. Fine(me')
    BY <1>1
  <1> QED
    BY <1>1, <1>2, <1>3 DEF KInv, NickTyped

(* The answer to USER.                                                      *)
LEMMA UserKeeps ==
    ASSUME Assumptions, KInv, SignOn!AnswerUser
    PROVE  KInv'
  <1> DEFINE s == [user |-> TRUE, nick |-> server.nick]
             lines == IF SignOn!Registered THEN <<SignOn!Line("462", SignOn!NoNick)>> ELSE SignOn!Welcomes(s)
  <1>1. /\ wire # <<>> /\ wire' = Tail(wire) /\ UNCHANGED <<me, taken>>
        /\ server' = s /\ inbox' = inbox \o lines
    BY DEF SignOn!AnswerUser, SignOn!Asked, SignOn!Answer
  <1>2. server \in [user : BOOLEAN, nick : SignOn!OrNone(SignOn!Nicks)]
    BY DEF KInv, NickTyped
  <1>3. server' \in [user : BOOLEAN, nick : SignOn!OrNone(SignOn!Nicks)]
    BY <1>1, <1>2
  <1>4. Told' /\ inbox' \in Seq(Messages)
    <2>1. CASE SignOn!Registered
      <3>1. server' = server
        BY <1>1, <1>2, <2>1 DEF SignOn!Registered
      <3>2. SignOn!Line("462", SignOn!NoNick) \in Messages /\ SignOn!Line("462", SignOn!NoNick).num \notin Changes
        BY <1>2 DEF SignOn!Line, Messages, Changes, SignOn!OrNone
      <3> QED
        BY <1>1, <2>1, <3>1, <3>2, ToldSent
    <2>2. CASE ~SignOn!Registered /\ server.nick # SignOn!NoNick
      <3>1. server'.user /\ server'.nick \in SignOn!Nicks /\ server'.nick = server.nick
        BY <1>1, <1>2, <2>2 DEF SignOn!OrNone
      <3>2. lines = <<SignOn!Line("001", server.nick), SignOn!Line("004", server.nick)>>
        BY <2>2 DEF SignOn!Welcomes
      <3> HIDE DEF lines
      <3> QED
        BY <1>1, <2>2, <3>1, <3>2, ToldWelcome
    <2>3. CASE ~SignOn!Registered /\ server.nick = SignOn!NoNick
      <3>1. lines = <<>> /\ ~SignOn!Registered'
        BY <1>1, <2>3 DEF SignOn!Welcomes, SignOn!Registered
      <3> HIDE DEF lines
      <3> QED
        BY <1>1, <2>3, <3>1, ToldSame
    <2> QED
      BY <2>1, <2>2, <2>3
  <1> QED
    BY <1>1, <1>3, <1>4, AnswerKeeps

(* The answer to NICK.                                                      *)
LEMMA NickKeeps ==
    ASSUME Assumptions, KInv, SignOn!AnswerNick
    PROVE  KInv'
  <1> DEFINE nick == Head(wire).nick
             s == [user |-> server.user, nick |-> nick]
             lines == CASE nick = server.nick -> <<>>
                        [] nick # server.nick /\ SignOn!Registered -> <<SignOn!Line("NICK", nick)>>
                        [] OTHER -> SignOn!Welcomes(s)
  <1>1. /\ wire # <<>> /\ wire' = Tail(wire) /\ UNCHANGED <<me, taken>>
        /\ Head(wire).cmd = "NICK"
        /\ \/ server' = [user |-> server.user, nick |-> server.nick]
              /\ inbox' = inbox \o <<SignOn!Line("433", nick)>>
           \/ server' = s /\ inbox' = inbox \o lines
    BY DEF SignOn!AnswerNick, SignOn!Asked, SignOn!Answer
  <1>2. server \in [user : BOOLEAN, nick : SignOn!OrNone(SignOn!Nicks)]
    BY DEF KInv, NickTyped
  <1>3. nick \in SignOn!Nicks /\ nick # SignOn!NoNick /\ nick \in SignOn!OrNone(SignOn!Nicks)
    <2>1. wire \in Seq(Requests)
      BY DEF KInv, NickTyped
    <2>2. Head(wire) \in Requests
      BY <1>1, <2>1
    <2> QED
      BY <1>1, <2>2 DEF Requests, SignOn!OrNone
  <1> HIDE DEF nick
  <1>4. server' \in [user : BOOLEAN, nick : SignOn!OrNone(SignOn!Nicks)]
    BY <1>1, <1>2, <1>3
  <1>5. Told' /\ inbox' \in Seq(Messages)
    <2>1. CASE server' = [user |-> server.user, nick |-> server.nick]
               /\ inbox' = inbox \o <<SignOn!Line("433", nick)>>
      <3>1. server' = server
        BY <1>2, <2>1
      <3>2. SignOn!Line("433", nick) \in Messages /\ SignOn!Line("433", nick).num \notin Changes
        BY <1>2, <1>3 DEF SignOn!Line, Messages, Changes
      <3> QED
        BY <1>1, <2>1, <3>1, <3>2, ToldSent
    <2>2. CASE server' = s /\ inbox' = inbox \o lines /\ nick = server.nick
      <3>1. lines = <<>>
        BY <2>2
      <3>2. (SignOn!Registered' <=> SignOn!Registered) /\ server'.nick = server.nick
        BY <2>2 DEF SignOn!Registered
      <3> HIDE DEF lines
      <3> QED
        BY <1>1, <2>2, <3>1, <3>2, ToldSame
    <2>3. CASE server' = s /\ inbox' = inbox \o lines /\ nick # server.nick /\ SignOn!Registered
      <3>1. lines = <<SignOn!Line("NICK", nick)>>
        BY <2>3
      <3> HIDE DEF lines
      <3> QED
        BY <1>1, <1>3, <2>3, <3>1, ToldNick
    <2>4. CASE server' = s /\ inbox' = inbox \o lines /\ nick # server.nick /\ ~SignOn!Registered
      <3>1. lines = SignOn!Welcomes(s)
        BY <2>4
      <3> HIDE DEF lines
      <3>2. CASE server.user
        <4>1. SignOn!Welcomes(s) = <<SignOn!Line("001", nick), SignOn!Line("004", nick)>>
          BY <1>3, <3>2 DEF SignOn!Welcomes
        <4>2. server'.user /\ server'.nick = nick
          BY <2>4, <3>2
        <4> QED
          BY <1>1, <1>3, <2>4, <3>1, <4>1, <4>2, ToldWelcome
      <3>3. CASE ~server.user
        <4>1. SignOn!Welcomes(s) = <<>> /\ ~SignOn!Registered'
          BY <2>4, <3>3 DEF SignOn!Welcomes, SignOn!Registered
        <4> QED
          BY <1>1, <2>4, <3>1, <4>1, ToldSame
      <3> QED
        BY <3>2, <3>3
    <2> QED
      BY <1>1, <2>1, <2>2, <2>3, <2>4
  <1> QED
    BY <1>1, <1>4, <1>5, AnswerKeeps

(* The answer to WHOIS.                                                     *)
LEMMA WhoisKeeps ==
    ASSUME Assumptions, KInv, SignOn!AnswerWhois
    PROVE  KInv'
  <1> DEFINE lines == IF SignOn!Registered THEN <<>> ELSE <<SignOn!Line("451", SignOn!NoNick)>>
  <1>1. /\ wire # <<>> /\ wire' = Tail(wire) /\ UNCHANGED <<me, taken>>
        /\ server' = [user |-> server.user, nick |-> server.nick]
        /\ inbox' = inbox \o lines
    BY DEF SignOn!AnswerWhois, SignOn!Asked, SignOn!Answer
  <1>2. server \in [user : BOOLEAN, nick : SignOn!OrNone(SignOn!Nicks)]
    BY DEF KInv, NickTyped
  <1>3. server' = server
    BY <1>1, <1>2
  <1>4. Told' /\ inbox' \in Seq(Messages)
    <2>1. CASE SignOn!Registered
      <3>1. inbox' = inbox \o <<>> /\ SignOn!Registered' /\ server'.nick = server.nick
        BY <1>1, <1>3, <2>1 DEF SignOn!Registered
      <3> QED
        BY <1>1, <2>1, <3>1, ToldSame
    <2>2. CASE ~SignOn!Registered
      <3>1. SignOn!Line("451", SignOn!NoNick) \in Messages /\ SignOn!Line("451", SignOn!NoNick).num \notin Changes
        BY <1>2 DEF SignOn!Line, Messages, Changes, SignOn!OrNone
      <3> QED
        BY <1>1, <1>3, <2>2, <3>1, ToldSent
    <2> QED
      BY <2>1, <2>2
  <1> QED
    BY <1>1, <1>2, <1>3, <1>4, AnswerKeeps

----------------------------------------------------------------------------
(* The program keeps the invariant.                                         *)

(* A handler of the user's side: the nickname it knows stays.               *)
LEMMA CommandKeeps ==
    ASSUME KInv, NEW p \in ClientPairs, SignOn!Do(p), Fine(p.c), p.c.nickname = me.nickname,
           UNCHANGED <<inbox, server, taken>>
    PROVE  KInv'
  <1>1. me' = p.c /\ wire' \in Seq(Requests)
    BY DoIs DEF KInv
  <1>2. Told'
    BY <1>1, ToldStays DEF KInv
  <1> QED
    BY <1>1, <1>2 DEF KInv, NickTyped

(* A handler of a line that tells no nickname.                              *)
LEMMA LineKeeps ==
    ASSUME KInv, NEW p \in ClientPairs, SignOn!Do(p), Fine(p.c), p.c.nickname = me.nickname,
           NEW num, SignOn!Reads(num), num \notin Changes
    PROVE  KInv'
  <1>1. me' = p.c /\ wire' \in Seq(Requests)
    BY DoIs DEF KInv
  <1>2. Told' /\ inbox' \in Seq(Messages)
    BY <1>1, ToldRead
  <1>3. UNCHANGED <<server, taken>>
    BY DEF SignOn!Reads
  <1> QED
    BY <1>1, <1>2, <1>3 DEF KInv, NickTyped

(* A handler of a line that does.                                           *)
LEMMA ChangeKeeps ==
    ASSUME KInv, NEW p \in ClientPairs, SignOn!Do(p), Fine(p.c), NEW num \in Changes, SignOn!Reads(num),
           SignOn!FromMe(Head(inbox)) \/ num = "001" => p.c.nickname = Head(inbox).nick
    PROVE  KInv'
  <1>1. me' = p.c /\ wire' \in Seq(Requests)
    BY DoIs DEF KInv
  <1>2. Told' /\ inbox' \in Seq(Messages)
    BY <1>1, ToldTaken
  <1>3. UNCHANGED <<server, taken>>
    BY DEF SignOn!Reads
  <1> QED
    BY <1>1, <1>2, <1>3 DEF KInv, NickTyped

(* login_to_server asks for the nickname of the record.                     *)
LEMMA LoginKeeps ==
    ASSUME Assumptions, KInv, SignOn!LoginToServer
    PROVE  KInv'
  <1> DEFINE a == SignOn!Send(SignOn!Now, "USER", SignOn!NoNick)
             nick == me.d_nickname
             b == SignOn!ChangeServerNickname(a, nick)
             p == [b EXCEPT !.c.connected = TRUE]
  <1>1. me.running /\ SignOn!Do(p) /\ UNCHANGED <<inbox, server, taken>>
    BY DEF SignOn!LoginToServer
  <1>2. SignOn!Now \in ClientPairs /\ SignOn!Now.c = me /\ Fine(me)
    BY NowIs DEF KInv, NickTyped
  <1>3. a \in ClientPairs /\ a.c = me
    <2>1. [cmd |-> "USER", nick |-> SignOn!NoNick] \in Requests
      BY DEF Requests, SignOn!OrNone
    <2> QED
      BY <1>2, <2>1, SendIs
  <1>4. nick \in SignOn!OrNone(SignOn!Nicks) /\ nick # SignOn!NoNick
    BY <1>2, NoNickIsNone DEF Fine, Client, SignOn!OrNone
  <1> HIDE DEF a, nick
  <1>5. b \in ClientPairs /\ Prompted(a, b) /\ Unprompted(a, b)
    BY <1>3, <1>4, ChangeIs
  <1>6. Fine(b.c) /\ b.c.nickname = me.nickname
    BY <1>2, <1>3, <1>5, UnpromptedFine DEF Prompted
  <1> HIDE DEF b
  <1>7. p \in ClientPairs /\ Fine(p.c) /\ p.c.nickname = me.nickname
    BY <1>5, <1>6 DEF ClientPairs, Client, Fine
  <1> HIDE DEF p
  <1> QED
    BY <1>1, <1>7, CommandKeeps

(* The connection ends, and what was under way with it.                     *)
LEMMA CloseServerKeeps ==
    ASSUME KInv, SignOn!CloseServer
    PROVE  KInv'
  <1>1. /\ me' = [me EXCEPT !.connected = FALSE] /\ taken' = taken
        /\ wire' = <<>> /\ inbox' = <<>> /\ server' = [user |-> FALSE, nick |-> SignOn!NoNick]
    BY DEF SignOn!CloseServer, SignOn!Nobody
  <1>2. Fine(me')
    BY <1>1 DEF KInv, NickTyped, Fine, Client
  <1>3. Told'
    BY <1>1 DEF Told, SignOn!Registered
  <1>4. wire' \in Seq(Requests) /\ inbox' \in Seq(Messages)
    BY <1>1
  <1>5. server' \in [user : BOOLEAN, nick : SignOn!OrNone(SignOn!Nicks)]
    BY <1>1 DEF SignOn!OrNone
  <1> QED
    BY <1>1, <1>2, <1>3, <1>4, <1>5 DEF KInv, NickTyped

(* /NICK.                                                                   *)
LEMMA CmdKeeps ==
    ASSUME Assumptions, KInv, NEW nick \in Wanted, SignOn!CmdNick(nick)
    PROVE  KInv'
  <1> DEFINE a == [SignOn!Now EXCEPT !.c.user_changing_nickname = TRUE]
             p == SignOn!ChangeServerNickname(a, nick)
  <1>1. SignOn!Do(p) /\ UNCHANGED <<inbox, server, taken>>
    BY DEF SignOn!CmdNick
  <1>2. SignOn!Now \in ClientPairs /\ SignOn!Now.c = me /\ Fine(me)
    BY NowIs DEF KInv, NickTyped
  <1>3. a \in ClientPairs /\ a.c.nickname = me.nickname /\ Fine(a.c)
    BY <1>2 DEF ClientPairs, Client, Fine
  <1>4. nick \in SignOn!OrNone(SignOn!Nicks) /\ nick # SignOn!NoNick
    BY WantedNick, NoNickIsNone DEF SignOn!OrNone
  <1> HIDE DEF a
  <1>5. p \in ClientPairs /\ Prompted(a, p) /\ Unprompted(a, p)
    BY <1>3, <1>4, ChangeIs
  <1> HIDE DEF p
  <1> QED
    BY <1>1, <1>3, <1>5, UnpromptedFine, CommandKeeps DEF Prompted

(* An answer to the prompt, which may put the next one.                     *)
LEMMA PromptKeeps ==
    ASSUME Assumptions, KInv, NEW nick \in Wanted \cup {SignOn!NoNick}, SignOn!NicknameSendline(nick)
    PROVE  KInv'
  <1> DEFINE a == [SignOn!Now EXCEPT !.c.prompts = @ - 1]
             p == SignOn!ChangeServerNickname(a, nick)
  <1>1. /\ me.running /\ me.prompts > 0
        /\ SignOn!Do(p) /\ UNCHANGED <<inbox, server, taken>>
    BY DEF SignOn!NicknameSendline
  <1>2. SignOn!Now \in ClientPairs /\ SignOn!Now.c = me /\ Fine(me)
    BY NowIs DEF KInv, NickTyped
  <1>3. MaxPrompts \in Nat /\ me.prompts \in Nat /\ me.prompts =< MaxPrompts
    BY <1>2 DEF Assumptions, SignOn!BoundsAssumption, Fine, Client
  <1>4. me.prompts - 1 \in Nat /\ me.prompts - 1 < MaxPrompts
    BY <1>1, <1>3
  <1>5. /\ a \in ClientPairs /\ a.c.nickname = me.nickname
        /\ a.c.prompts = me.prompts - 1 /\ a.c.cntl_c_hit = me.cntl_c_hit
        /\ a.c.running = me.running
    <2> DEFINE d == [me EXCEPT !.prompts = me.prompts - 1]
    <2>1. /\ d \in Client /\ d.nickname = me.nickname
          /\ d.prompts = me.prompts - 1 /\ d.cntl_c_hit = me.cntl_c_hit
          /\ d.running = me.running
      BY <1>2, <1>4 DEF Fine, Client
    <2>2. a = [SignOn!Now EXCEPT !.c = d]
      BY <1>2 DEF ClientPairs
    <2> HIDE DEF d, a
    <2>3. a \in ClientPairs /\ a.c = d
      BY <1>2, <2>1, <2>2 DEF ClientPairs
    <2> QED
      BY <2>1, <2>3
  <1>6. Fine(a.c)
    <2>1. a.c \in Client /\ (me.running => me.cntl_c_hit =< 4)
      BY <1>2, <1>5 DEF Fine, ClientPairs
    <2>2. a.c.prompts =< MaxPrompts /\ a.c.cntl_c_hit =< 5
      BY <1>2, <1>3, <1>4, <1>5 DEF Fine
    <2> HIDE DEF a
    <2> QED
      BY <1>5, <2>1, <2>2 DEF Fine
  <1>7. nick \in SignOn!OrNone(SignOn!Nicks)
    BY WantedNick DEF SignOn!OrNone
  <1> HIDE DEF a
  <1>8. p \in ClientPairs /\ Prompted(a, p)
    BY <1>5, <1>7, ChangeIs
  <1> HIDE DEF p
  <1>9. Fine(p.c) /\ p.c.nickname = me.nickname
    BY <1>1, <1>4, <1>5, <1>6, <1>8, PromptedFine DEF Prompted
  <1> QED
    BY <1>1, <1>8, <1>9, CommandKeeps

(* 433: another nickname is asked for, or the user is.                      *)
LEMMA InUseKeeps ==
    ASSUME Assumptions, KInv, SignOn!NicknameInUse
    PROVE  KInv'
  <1> DEFINE a == SignOn!FudgeNickname(SignOn!Now)
             p == IF me.itsname THEN SignOn!Send(a, "WHOIS", Head(inbox).nick) ELSE a
  <1>1. /\ me.running /\ me.prompts < MaxPrompts /\ SignOn!Reads("433") /\ SignOn!Do(p)
        /\ inbox # <<>>
    BY DEF SignOn!NicknameInUse, SignOn!Reads
  <1>2. SignOn!Now \in ClientPairs /\ SignOn!Now.c = me /\ Fine(me)
    BY NowIs DEF KInv, NickTyped
  <1>3. a \in ClientPairs /\ Prompted(SignOn!Now, a)
    BY <1>2, FudgeIs
  <1>4. Head(inbox).nick \in SignOn!OrNone(SignOn!Nicks)
    <2>1. inbox \in Seq(Messages)
      BY DEF KInv, NickTyped
    <2>2. Head(inbox) \in Messages
      BY <1>1, <2>1
    <2> QED
      BY <2>2 DEF Messages
  <1> HIDE DEF a
  <1>5. Fine(a.c) /\ a.c.nickname = me.nickname
    BY <1>1, <1>2, <1>3, PromptedFine DEF Prompted
  <1>6. p \in ClientPairs /\ p.c = a.c
    <2>1. [cmd |-> "WHOIS", nick |-> Head(inbox).nick] \in Requests
      BY <1>4 DEF Requests
    <2> QED
      BY <1>3, <2>1, SendIs
  <1> HIDE DEF p
  <1>7. "433" \notin Changes
    BY DEF Changes
  <1> QED
    BY <1>1, <1>5, <1>6, <1>7, LineKeeps

(* 001.                                                                     *)
LEMMA WelcomeKeeps ==
    ASSUME Assumptions, KInv, SignOn!Welcome
    PROVE  KInv'
  <1> DEFINE p == SignOn!AcceptServerNickname(SignOn!Now, Head(inbox).nick)
  <1>1. SignOn!Reads("001") /\ SignOn!Do(p) /\ inbox # <<>> /\ Head(inbox).num = "001"
    BY DEF SignOn!Welcome, SignOn!Reads
  <1>2. SignOn!Now \in ClientPairs /\ SignOn!Now.c = me /\ Fine(me) /\ inbox \in Seq(Messages)
    BY NowIs DEF KInv, NickTyped
  <1>3. "001" \in Changes
    BY DEF Changes
  <1>4. Head(inbox).nick \in SignOn!Nicks
    <2>1. Head(inbox) \in Messages
      BY <1>1, <1>2
    <2> QED
      BY <1>1, <1>3, <2>1 DEF Messages, SignOn!OrNone
  <1>5. /\ p \in ClientPairs /\ p.c.nickname = Head(inbox).nick /\ Unprompted(SignOn!Now, p)
    BY <1>2, <1>4, AcceptIs DEF Unprompted
  <1> HIDE DEF p
  <1>6. Fine(p.c)
    BY <1>2, <1>5, UnpromptedFine
  <1> QED
    BY <1>1, <1>3, <1>5, <1>6, ChangeKeeps

(* NICK: the change of the user's nickname, or of another one's.            *)
LEMMA PNickKeeps ==
    ASSUME Assumptions, KInv, SignOn!PNick
    PROVE  KInv'
  <1> DEFINE a == SignOn!AcceptServerNickname(SignOn!Now, Head(inbox).nick)
             b == [a EXCEPT !.c.user_changing_nickname = FALSE]
             p == IF SignOn!FromMe(Head(inbox)) THEN b ELSE SignOn!Now
  <1>1. SignOn!Reads("NICK") /\ SignOn!Do(p) /\ inbox # <<>> /\ Head(inbox).num = "NICK"
    BY DEF SignOn!PNick, SignOn!Reads
  <1>2. SignOn!Now \in ClientPairs /\ SignOn!Now.c = me /\ Fine(me) /\ inbox \in Seq(Messages)
    BY NowIs DEF KInv, NickTyped
  <1>3. "NICK" \in Changes
    BY DEF Changes
  <1>4. Head(inbox).nick \in SignOn!Nicks
    <2>1. Head(inbox) \in Messages
      BY <1>1, <1>2
    <2> QED
      BY <1>1, <1>3, <2>1 DEF Messages, SignOn!OrNone
  <1>5. a \in ClientPairs /\ a.c.nickname = Head(inbox).nick /\ Unprompted(SignOn!Now, a)
    BY <1>2, <1>4, AcceptIs DEF Unprompted
  <1> HIDE DEF a
  <1>6. b \in ClientPairs /\ b.c.nickname = Head(inbox).nick /\ Unprompted(SignOn!Now, b)
    BY <1>5 DEF ClientPairs, Client, Unprompted
  <1> HIDE DEF b
  <1>7. Fine(b.c)
    BY <1>2, <1>6, UnpromptedFine
  <1>8. /\ p \in ClientPairs /\ Fine(p.c)
        /\ SignOn!FromMe(Head(inbox)) => p.c.nickname = Head(inbox).nick
    BY <1>2, <1>6, <1>7
  <1> HIDE DEF p
  <1> QED
    BY <1>1, <1>3, <1>8, ChangeKeeps

(* 004, 451 and 462.                                                        *)
LEMMA OtherLinesKeep ==
    ASSUME Assumptions, KInv, SignOn!MyInfo \/ SignOn!NotRegistered \/ SignOn!AlreadyRegistered
    PROVE  KInv'
  <1>1. SignOn!Now \in ClientPairs /\ SignOn!Now.c = me /\ Fine(me)
    BY NowIs DEF KInv, NickTyped
  <1>2. "004" \notin Changes /\ "451" \notin Changes /\ "462" \notin Changes
    BY DEF Changes
  <1>3. CASE SignOn!MyInfo
    <2> DEFINE p == [SignOn!Now EXCEPT !.c.itsname = TRUE]
    <2>1. p \in ClientPairs /\ Fine(p.c) /\ p.c.nickname = me.nickname
      BY <1>1 DEF ClientPairs, Client, Fine
    <2>2. SignOn!Reads("004") /\ SignOn!Do(p)
      BY <1>3 DEF SignOn!MyInfo
    <2> HIDE DEF p
    <2> QED
      BY <1>2, <2>1, <2>2, LineKeeps
  <1>4. CASE SignOn!NotRegistered
    <2> DEFINE p == SignOn!Send(SignOn!Now, "USER", SignOn!NoNick)
    <2>1. [cmd |-> "USER", nick |-> SignOn!NoNick] \in Requests
      BY DEF Requests, SignOn!OrNone
    <2>2. p \in ClientPairs /\ Fine(p.c) /\ p.c.nickname = me.nickname
      BY <1>1, <2>1, SendIs
    <2>3. SignOn!Reads("451") /\ SignOn!Do(p)
      BY <1>4 DEF SignOn!NotRegistered
    <2> HIDE DEF p
    <2> QED
      BY <1>2, <2>2, <2>3, LineKeeps
  <1>5. CASE SignOn!AlreadyRegistered
    <2> DEFINE a == [SignOn!Now EXCEPT !.c.running = FALSE]
               p == [a EXCEPT !.c.assertion = FALSE]
    <2>1. SignOn!Reads("462") /\ SignOn!Do(p)
      BY <1>5 DEF SignOn!AlreadyRegistered
    <2>2. a \in ClientPairs /\ Fine(a.c) /\ a.c.nickname = me.nickname
      BY <1>1 DEF ClientPairs, Client, Fine
    <2> HIDE DEF a
    <2>3. p \in ClientPairs /\ Fine(p.c) /\ p.c.nickname = me.nickname
      BY <2>2 DEF ClientPairs, Client, Fine
    <2> HIDE DEF p
    <2> QED
      BY <1>2, <2>1, <2>3, LineKeeps
  <1> QED
    BY <1>3, <1>4, <1>5

(* An interrupt is taken note of; somebody else takes or leaves a nickname. *)
LEMMA OthersKeep ==
    ASSUME KInv, SignOn!Interrupted \/ \E nick \in Others : SignOn!Other(nick)
    PROVE  KInv'
  <1>1. CASE SignOn!Interrupted
    <2>1. me' = [me EXCEPT !.cntl_c_hit = 0] /\ UNCHANGED <<wire, inbox, server, taken>>
      BY <1>1 DEF SignOn!Interrupted
    <2>2. Fine(me') /\ me'.nickname = me.nickname
      <3>1. Fine(me)
        BY DEF KInv, NickTyped
      <3> QED
        BY <2>1, <3>1, SMTT(30) DEF Fine, Client
    <2>3. Told'
      BY <2>1, <2>2, ToldStays DEF KInv
    <2> QED
      BY <2>1, <2>2, <2>3 DEF KInv, NickTyped
  <1>2. CASE \E nick \in Others : SignOn!Other(nick)
    <2>1. UNCHANGED <<me, wire, inbox, server>> /\ taken' \subseteq Others
      BY <1>2 DEF SignOn!Other, KInv, NickTyped
    <2>2. Told'
      BY <2>1, ToldStays DEF KInv
    <2>3. Fine(me')
      BY <2>1 DEF KInv, NickTyped
    <2> QED
      BY <2>1, <2>2, <2>3 DEF KInv, NickTyped
  <1> QED
    BY <1>1, <1>2

----------------------------------------------------------------------------
(* Nothing is connected yet.                                                *)
LEMMA InitKInv == Assumptions /\ SignOn!Init => KInv
  <1> SUFFICES ASSUME Assumptions, SignOn!Init PROVE KInv
    OBVIOUS
  <1>1. /\ wire = <<>> /\ inbox = <<>> /\ server = [user |-> FALSE, nick |-> SignOn!NoNick]
        /\ taken \in SUBSET Others
    BY DEF SignOn!Init, SignOn!Nobody
  <1>2. 0 \in 0 .. GiveUp - 1 /\ MaxPrompts \in Nat
    BY DEF Assumptions, SignOn!FullAssumption, SignOn!BoundsAssumption
  <1>3. Fine(me)
    <2>1. Wanted \subseteq SignOn!Nicks
      BY WantedNick
    <2> DEFINE First(n) == [nickname |-> SignOn!NoNick, d_nickname |-> n,
                            s_nickname |-> SignOn!NoNick, fudge_factor |-> 0,
                            user_changing_nickname |-> FALSE, itsname |-> FALSE,
                            connected |-> FALSE, prompts |-> 0, cntl_c_hit |-> 0,
                            running |-> TRUE, assertion |-> TRUE]
    <2>2. PICK n \in Wanted : me = First(n)
      BY DEF SignOn!Init
    <2>3. n \in SignOn!Nicks /\ SignOn!NoNick \in SignOn!OrNone(SignOn!Nicks)
      BY <2>1, <2>2 DEF SignOn!OrNone
    <2>4. First(n) \in Client
      BY <1>2, <2>3 DEF Client
    <2>5. First(n).prompts = 0 /\ First(n).cntl_c_hit = 0
      OBVIOUS
    <2> HIDE DEF First
    <2> QED
      BY <1>2, <2>2, <2>4, <2>5 DEF Fine
  <1>4. Told
    BY <1>1 DEF Told, SignOn!Registered
  <1> QED
    BY <1>1, <1>3, <1>4 DEF KInv, NickTyped, SignOn!OrNone

(* Every step keeps the invariant.                                          *)
LEMMA NextKInv == Assumptions /\ KInv /\ [SignOn!Next]_(SignOn!vars) => KInv'
  <1> SUFFICES ASSUME Assumptions, KInv, [SignOn!Next]_(SignOn!vars) PROVE KInv'
    OBVIOUS
  <1>1. CASE SignOn!Lines
    BY <1>1, WelcomeKeeps, PNickKeeps, InUseKeeps, OtherLinesKeep DEF SignOn!Lines
  <1>2. CASE SignOn!Answers
    BY <1>2, UserKeeps, NickKeeps, WhoisKeeps DEF SignOn!Answers
  <1>3. CASE UNCHANGED SignOn!vars
    <2>1. UNCHANGED <<me, wire, inbox, server, taken>>
      BY <1>3 DEF SignOn!vars
    <2>2. Told'
      BY <2>1, ToldStays DEF KInv
    <2>3. Fine(me')
      BY <2>1 DEF KInv, NickTyped
    <2> QED
      BY <2>1, <2>2, <2>3 DEF KInv, NickTyped
  <1> QED
    BY <1>1, <1>2, <1>3, LoginKeeps, CloseServerKeeps, CmdKeeps, PromptKeeps, OthersKeep DEF SignOn!Next

(* A step of the composition is one of the sign-on, or leaves it alone.      *)
LEMMA NickSteps == [Next]_vars => [SignOn!Next]_(SignOn!vars)
  BY DEF Next, vars, nickVars, SignOn!vars

LEMMA NickInits == Init => SignOn!Init
  BY DEF Init

LEMMA NickAssumed == Assumptions
  BY SignOnAssumption DEF Assumptions

(* So the invariant holds throughout.                                       *)
LEMMA KInvHolds == Spec => []KInv
  BY InitKInv, NextKInv, NickSteps, NickInits, NickAssumed, PTL DEF Spec

----------------------------------------------------------------------------
(* What follows from it.                                                    *)

(* A sequence of a set is one of a larger set.                              *)
LEMMA SeqIn ==
    ASSUME NEW S, NEW T, S \subseteq T, NEW s \in Seq(S)
    PROVE  s \in Seq(T)
  OBVIOUS

LEMMA NickTypes == KInv => SignOn!TypeOK
  <1> SUFFICES ASSUME KInv PROVE SignOn!TypeOK
    OBVIOUS
  <1>0. Assumptions
    BY NickAssumed
  <1>1. /\ Fine(me) /\ wire \in Seq(Requests) /\ inbox \in Seq(Messages)
        /\ server \in [user : BOOLEAN, nick : SignOn!OrNone(SignOn!Nicks)] /\ taken \subseteq Others
    BY DEF KInv, NickTyped
  <1>2. wire \in Seq([cmd : {"USER", "NICK", "WHOIS"}, nick : SignOn!OrNone(SignOn!Nicks)])
    <2>1. Requests \subseteq [cmd : {"USER", "NICK", "WHOIS"}, nick : SignOn!OrNone(SignOn!Nicks)]
      BY DEF Requests
    <2> QED
      BY <1>1, <2>1, SeqIn
  <1>3. inbox \in Seq([num : {"001", "004", "433", "451", "462", "NICK"},
                       nick : SignOn!OrNone(SignOn!Nicks), from : SignOn!OrNone(SignOn!Nicks)])
    <2>1. Messages \subseteq [num : {"001", "004", "433", "451", "462", "NICK"},
                              nick : SignOn!OrNone(SignOn!Nicks), from : SignOn!OrNone(SignOn!Nicks)]
      BY DEF Messages
    <2> QED
      BY <1>1, <2>1, SeqIn
  <1>4. me.prompts \in 0 .. MaxPrompts /\ me.cntl_c_hit \in 0 .. 5
    BY <1>1 DEF Fine, Client, Assumptions, SignOn!BoundsAssumption
  <1> QED
    BY <1>1, <1>2, <1>3, <1>4 DEF SignOn!TypeOK, Fine, Client

(* No NICK is sent without a nickname, no refused one grows beyond what the *)
(* server takes, the attempts are given up in time, and a fifth interrupt   *)
(* finds no program running.                                                *)
THEOREM NickTypesHold == Spec => []SignOn!TypeOK
  BY KInvHolds, NickTypes, PTL

(* When all that the server sent has been read, the program knows the nick  *)
(* it has there, however many changes were under way and refused.           *)
THEOREM NickIsKnown == Spec => []KnowsItsNick
  <1>1. KInv => KnowsItsNick
    BY LeadsEnd DEF KInv, Told, KnowsItsNick, SignOn!KnowsItsNick
  <1> QED
    BY <1>1, KInvHolds, PTL
=============================================================================
