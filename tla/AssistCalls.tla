---------------------------- MODULE AssistCalls -----------------------------
(***************************************************************************)
(* What the completion, hover and definition providers may rely on when    *)
(* they call the language server client (sv-assist-provider.mjs): a call   *)
(* is settled once and for all, answered only with a result the server     *)
(* produced for that very call, and it settles eventually.                 *)
(*                                                                         *)
(* A call may also come back blank, with nothing (undefined): a request    *)
(* the server made of its own accord was taken for the answer.  Each such  *)
(* request costs at most one call, and a server that makes none costs      *)
(* none.  The providers then show what they have without a server.         *)
(***************************************************************************)
CONSTANTS
  Calls,
  OwnIds  \* ids of the requests a server may make of its own accord

VARIABLES
  outcome,  \* what a call's promise has come to
  served,   \* calls whose own request the server has answered with a result
  astray    \* the server's own requests the client has not read yet

vars == <<outcome, served, astray>>

Init ==
  /\ outcome = [c \in Calls |-> "idle"]
  /\ served = {}
  /\ astray = {}

\* The provider calls the client; a client that cannot start refuses at once.
Begin(c) ==
  /\ outcome[c] = "idle"
  /\ \E first \in {"pending", "rejected"} : outcome' = [outcome EXCEPT ![c] = first]
  /\ UNCHANGED <<served, astray>>

\* The server produces a result, in time or too late.
Serve(c) ==
  /\ outcome[c] # "idle"
  /\ served' = served \cup {c}
  /\ UNCHANGED <<outcome, astray>>

\* The server makes a request of its own.
Stray(id) ==
  /\ astray' = astray \cup {id}
  /\ UNCHANGED <<outcome, served>>

\* One event settles some of the pending calls: an answer, a timer, an exit.
\* A call comes back blank at the price of one of the server's own requests.
Settle(answered, blank, rejected) ==
  /\ \A c \in answered \cup blank \cup rejected : outcome[c] = "pending"
  /\ answered \subseteq served
  /\ astray' \subseteq astray
  /\ \E price \in [blank -> astray] :
       \A c \in blank : /\ price[c] \notin astray'
                        /\ \A d \in blank : price[c] = price[d] => c = d
  /\ outcome' = [c \in Calls |-> IF c \in answered THEN "answered"
                                 ELSE IF c \in blank THEN "blank"
                                 ELSE IF c \in rejected THEN "rejected" ELSE outcome[c]]
  /\ UNCHANGED served

Next ==
  \/ \E c \in Calls : Begin(c) \/ Serve(c)
  \/ \E id \in OwnIds : Stray(id)
  \/ \E answered, blank, rejected \in SUBSET Calls : Settle(answered, blank, rejected)

Spec ==
  /\ Init
  /\ [][Next]_vars
  /\ \A c \in Calls :
       outcome[c] = "pending" ~> outcome[c] \in {"answered", "blank", "rejected"}

=============================================================================
