---------------------------- MODULE RequestContract ----------------------------
(***************************************************************************)
(* What Transport_Base::SendPayload promises its caller: the response      *)
(* handler of a request that was sent is called once, with the body of the *)
(* reply or with nullopt.                                                  *)
(***************************************************************************)
EXTENDS Sequences

CONSTANT Requests

VARIABLES
  sent,    \* requests SendPayload was called for
  answers  \* answers[r]: the arguments the handler of r was called with

vars == <<sent, answers>>

Answer == {"body", "nullopt"}

Init ==
  /\ sent = {}
  /\ answers = [r \in Requests |-> << >>]

Send(r) ==
  /\ r \notin sent
  /\ sent' = sent \cup {r}
  /\ UNCHANGED answers

Respond(r) ==
  /\ r \in sent
  /\ answers[r] = << >>
  /\ \E a \in Answer : answers' = [answers EXCEPT ![r] = <<a>>]
  /\ UNCHANGED sent

Next == \E r \in Requests : Send(r) \/ Respond(r)

Spec == Init /\ [][Next]_vars
===============================================================================
