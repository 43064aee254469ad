----------------------------- MODULE RemoteCalls -----------------------------
(***************************************************************************)
(* What DaemonClient::callAsync promises its callers, without connections, *)
(* buffers or timers: the handler of every issued call runs exactly once,  *)
(* and it reports success only when the daemon answered this call with     *)
(* success.  Several calls may be issued and finished in one step.         *)
(***************************************************************************)
CONSTANT Id

VARIABLES
  issued,    \* calls made so far
  answered,  \* calls the daemon executed and answered with success
  results    \* results[c]: the outcomes the handler of c was run with

vars == <<issued, answered, results>>

Init ==
  /\ issued = {}
  /\ answered = {}
  /\ results = [c \in Id |-> <<>>]

Fails(c) ==
  /\ results[c] = <<>>
  /\ c \in issued'
  /\ results'[c] = <<"failed">>

Succeeds(c) ==
  /\ results[c] = <<>>
  /\ c \in answered
  /\ results'[c] = <<"ok">>

Next ==
  /\ issued \subseteq issued'
  /\ answered \subseteq answered' /\ answered' \subseteq issued
  /\ \A c \in Id : results'[c] = results[c] \/ Fails(c) \/ Succeeds(c)

Spec == Init /\ [][Next]_vars

EveryCallEnds == \A c \in Id : c \in issued ~> results[c] # <<>>
=============================================================================
