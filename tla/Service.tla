------------------------------- MODULE Service -------------------------------
(***************************************************************************)
(* What the program promises its users: each of them has a session of its  *)
(* own.  A command waits until its whole reply is there, in order, and     *)
(* returns; the parts of a file that was sent are kept one after the       *)
(* other, possibly after the command has returned.  A session can be cut;  *)
(* then a command may return with the beginning of its reply.  There is no *)
(* network, no buffer and no other user in it.                             *)
(***************************************************************************)
EXTENDS Sequences

CONSTANTS
  User,
  Request,
  Reply(_),   \* the parts of a request's reply
  Upload(_)   \* the parts a request leaves behind

VARIABLES
  status,     \* "away", at the "prompt", or "busy" with a command
  want,       \* the parts its command still waits for
  got,        \* the parts it has received
  sending,    \* parts on their way to the server's files
  kept,       \* parts in the server's files
  cut         \* the users whose session is cut

session == <<status, want, got>>
files   == <<sending, kept>>
vars    == <<session, files, cut>>

Init ==
  /\ status = [u \in User |-> "away"]
  /\ want = [u \in User |-> <<>>] /\ got = [u \in User |-> <<>>]
  /\ sending = [u \in User |-> <<>>] /\ kept = [u \in User |-> <<>>]
  /\ cut = {}

Come(u) ==
  /\ status[u] = "away"
  /\ status' = [status EXCEPT ![u] = "prompt"]
  /\ UNCHANGED <<want, got, files, cut>>

Ask(u, r) ==
  /\ status[u] = "prompt"
  /\ status' = [status EXCEPT ![u] = "busy"]
  /\ want' = [want EXCEPT ![u] = Reply(r)]
  /\ got' = [got EXCEPT ![u] = <<>>]
  /\ sending' = [sending EXCEPT ![u] = @ \o Upload(r)]
  /\ UNCHANGED <<kept, cut>>

(* The command may return with the last part.                              *)
Prompts(u) == status' = [status EXCEPT ![u] = "prompt"]

Deliver(u) ==
  /\ status[u] = "busy" /\ want[u] # <<>>
  /\ got' = [got EXCEPT ![u] = Append(@, Head(want[u]))]
  /\ want' = [want EXCEPT ![u] = Tail(@)]
  /\ UNCHANGED status \/ (want'[u] = <<>> /\ Prompts(u))
  /\ UNCHANGED <<files, cut>>

(* A command waits no longer for a reply that cannot come.                 *)
GiveUp(u) ==
  /\ status[u] = "busy" /\ u \in cut
  /\ want' = [want EXCEPT ![u] = <<>>]
  /\ UNCHANGED status \/ Prompts(u)
  /\ UNCHANGED <<got, files, cut>>

Return(u) ==
  /\ status[u] = "busy" /\ want[u] = <<>>
  /\ Prompts(u)
  /\ UNCHANGED <<want, got, files, cut>>

Keep(u) ==
  /\ sending[u] # <<>>
  /\ kept' = [kept EXCEPT ![u] = Append(@, Head(sending[u]))]
  /\ sending' = [sending EXCEPT ![u] = Tail(@)]
  /\ UNCHANGED <<session, cut>>

(* The user's end: a command in progress is given up.                      *)
Leave(u) ==
  /\ status[u] # "away"
  /\ status' = [status EXCEPT ![u] = "gone"]
  /\ want' = [want EXCEPT ![u] = <<>>]
  /\ UNCHANGED <<got, files, cut>>

Cut ==
  /\ cut' \in SUBSET User
  /\ cut \subseteq cut'
  /\ UNCHANGED <<session, files>>

Next ==
  \/ Cut
  \/ \E u \in User :
       \/ Come(u) \/ Deliver(u) \/ GiveUp(u) \/ Return(u)
       \/ Keep(u) \/ Leave(u)
       \/ \E r \in Request : Ask(u, r)

Spec == Init /\ [][Next]_vars

-----------------------------------------------------------------------------
(* Every command comes to an end.                                          *)
Returns == \A u \in User : (status[u] = "busy") ~> (status[u] # "busy")

(* What a user has sent is kept, if the user stays and the session lasts.  *)
Kept ==
  \A u \in User :
    (sending[u] # <<>>) ~> (sending[u] = <<>> \/ status[u] = "gone" \/ u \in cut)
=============================================================================
