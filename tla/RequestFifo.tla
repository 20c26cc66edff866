---------------------------- MODULE RequestFifo ----------------------------
(***************************************************************************)
(* What a session promises to the tags that share it: requests are         *)
(* answered one after the other in the order they were queued, each at     *)
(* most once; a tag may take a request back at any time, and that disturbs *)
(* no other request.                                                       *)
(***************************************************************************)
EXTENDS Sequences, Filter

CONSTANT Requests   \* request objects

VARIABLES
  seen,      \* requests that were ever queued
  pending,   \* requests that wait for their answer
  answered   \* requests whose answer waits for their tag

vars == <<seen, pending, answered>>

Init ==
  /\ seen = {}
  /\ pending = <<>>
  /\ answered = {}

Submit(r) ==
  /\ r \notin seen
  /\ seen' = seen \cup {r}
  /\ pending' = Append(pending, r)
  /\ UNCHANGED answered

Answer ==
  /\ pending # <<>>
  /\ answered' = answered \cup {Head(pending)}
  /\ pending' = Tail(pending)
  /\ UNCHANGED seen

TakeBack(r) ==
  /\ pending' = Without(pending, {r})
  /\ answered' = answered \ {r}
  /\ UNCHANGED seen

Next == Answer \/ \E r \in Requests : Submit(r) \/ TakeBack(r)

Spec == Init /\ [][Next]_vars

=============================================================================
