----------------------------- MODULE LspClaims -----------------------------
(***************************************************************************)
(* What the API comments and the tests of the repository say of LSP, where *)
(* the implementation does something else.  TLC refutes it.                *)
(***************************************************************************)
EXTENDS MCLsp

\* client_api.go: Close returns once nothing is pending.  Close overwrites
\* handlerClosed with startClosing when the handler times out between the get and
\* the set, and then waits for a handler that is gone.
CloseReturns ==
  \A c \in Clients : capp[c] = "closing" /\ hpc[c] \in {"done", "lost"} ~> capp[c] = "closed"

=============================================================================
