------------------------------ MODULE Requests ------------------------------
(* What the whois queue promises: requests sent to a server are answered in *)
(* the order they were sent, each once and by its own answer, unless the    *)
(* connection closes.                                                       *)
EXTENDS Naturals, Sequences

CONSTANT MaxRequests    \* bound on the requests of a behaviour

VARIABLES
    asked,      \* the number of requests so far; a request is named by its number
    pending,    \* the requests waiting for an answer, the oldest first
    answered    \* those that were answered

requests == <<asked, pending, answered>>

Init == asked = 0 /\ pending = <<>> /\ answered = {}

Ask == /\ asked < MaxRequests
       /\ asked' = asked + 1
       /\ pending' = Append(pending, asked + 1)
       /\ UNCHANGED answered

Answer == /\ pending # <<>>
          /\ answered' = answered \cup {Head(pending)}
          /\ pending' = Tail(pending)
          /\ UNCHANGED asked

Forget == /\ pending' = <<>>
          /\ UNCHANGED <<asked, answered>>

Next == Ask \/ Answer \/ Forget

InTurn == Init /\ [][Next]_requests

Spec == InTurn /\ WF_requests(Answer)
=============================================================================
