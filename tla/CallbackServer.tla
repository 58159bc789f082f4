---------------------------- MODULE CallbackServer ----------------------------
(***************************************************************************)
(* HTTPServer of include/server.hpp: the accept loop, the TLS handshake    *)
(* that it waits for, and the event loop that runs it together with every  *)
(* session.  A session is what HttpSession.tla says, reduced here to when  *)
(* it runs, ends or has a handler that throws.                             *)
(***************************************************************************)
EXTENDS Naturals, FiniteSets

CONSTANTS Clients,     \* the clients that may connect
          Stalling,    \* those that never go on with their TLS handshake
          Tls,         \* use_tls was called
          MaxOpen,     \* how many sockets the process may have open
          MaxErrors    \* bound: how often accept fails

ASSUME ServerAssumption ==
  /\ Stalling \subseteq Clients
  /\ Tls \in BOOLEAN
  /\ MaxOpen \in Nat \ {0} /\ MaxErrors \in Nat

VARIABLES client,    \* where each client's connection is
          acceptor,  \* "armed": async_accept is outstanding; "held": it is not
          running,   \* io_context::run has not been left by an exception
          errors     \* how often accept has failed

vars == <<client, acceptor, running, errors>>

ClientState == {"away", "backlog", "handshake", "session", "gone"}

\* The constructor calls startAccept.
Init ==
  /\ client = [c \in Clients |-> "away"]
  /\ acceptor = "armed"
  /\ running = TRUE
  /\ errors = 0

In(s) == {c \in Clients : client[c] = s}
Open == In("handshake") \cup In("session")

(***************************************************************************)
(* The clients.                                                            *)
(***************************************************************************)
Connect(c) ==
  /\ client[c] = "away"
  /\ client' = [client EXCEPT ![c] = "backlog"]
  /\ UNCHANGED <<acceptor, running, errors>>

GiveUp(c) ==
  /\ client[c] = "backlog"
  /\ client' = [client EXCEPT ![c] = "gone"]
  /\ UNCHANGED <<acceptor, running, errors>>

(***************************************************************************)
(* Completion handlers.                                                    *)
(***************************************************************************)
\* A bug of the accept handler: startAccept is called at once with TLS too
\* (OneAcceptChain).
OnAcceptArmsEarly(c) ==
  /\ running /\ acceptor = "armed"
  /\ client[c] = "backlog" /\ Cardinality(Open) < MaxOpen
  /\ client' = [client EXCEPT ![c] = IF Tls THEN "handshake" ELSE "session"]
  /\ UNCHANGED <<acceptor, running, errors>>

\* Without TLS the session starts and startAccept is called at once; with TLS
\* startAccept is left to the handler of the handshake.
OnAccept(c) ==
  /\ running /\ acceptor = "armed"
  /\ client[c] = "backlog" /\ Cardinality(Open) < MaxOpen
  /\ client' = [client EXCEPT ![c] = IF Tls THEN "handshake" ELSE "session"]
  /\ acceptor' = IF Tls THEN "held" ELSE "armed"
  /\ UNCHANGED <<running, errors>>

\* Out of descriptors, or the connection was aborted: startAccept again.
OnAcceptError ==
  /\ running /\ acceptor = "armed" /\ errors < MaxErrors
  /\ errors' = errors + 1
  /\ acceptor' = "armed"
  /\ UNCHANGED <<client, running>>

\* A bug EveryClientAccepted must catch: a failed handshake does not go on.
OnHandshakeStops(c) ==
  /\ running /\ client[c] = "handshake" /\ c \notin Stalling
  /\ \E next \in {"session", "gone"} :
       /\ client' = [client EXCEPT ![c] = next]
       /\ acceptor' = IF next = "session" THEN "armed" ELSE acceptor
  /\ UNCHANGED <<running, errors>>

OnHandshake(c) ==
  /\ running /\ client[c] = "handshake" /\ c \notin Stalling
  /\ \E next \in {"session", "gone"} : client' = [client EXCEPT ![c] = next]
  /\ acceptor' = "armed"
  /\ UNCHANGED <<running, errors>>

OnSessionEnd(c) ==
  /\ running /\ client[c] = "session"
  /\ client' = [client EXCEPT ![c] = "gone"]
  /\ UNCHANGED <<acceptor, running, errors>>

\* A route handler throws inside a completion handler: the exception leaves
\* io_context::run, and nothing runs any more.
HandlerThrows(c) ==
  /\ running /\ client[c] = "session"
  /\ client' = [client EXCEPT ![c] = "gone"]
  /\ running' = FALSE
  /\ UNCHANGED <<acceptor, errors>>

Handler(c) == OnAccept(c) \/ OnHandshake(c) \/ OnSessionEnd(c)

Next ==
  \/ OnAcceptError
  \/ \E c \in Clients : Connect(c) \/ GiveUp(c) \/ Handler(c) \/ HandlerThrows(c)

\* The event loop runs the handler of every operation that completes: the
\* accept of a client that waits, the handshake of one that goes on with it,
\* and a session ends when its client leaves.
Spec ==
  /\ Init /\ [][Next]_vars
  /\ \A c \in Clients : /\ SF_vars(OnAccept(c))
                        /\ WF_vars(OnHandshake(c))
                        /\ WF_vars(OnSessionEnd(c))

-------------------------------------------------------------------------------
\* Every variable has its type, and no more sockets are open than may be.
TypeOK ==
  /\ client \in [Clients -> ClientState]
  /\ acceptor \in {"armed", "held"}
  /\ running \in BOOLEAN
  /\ errors \in 0..MaxErrors
  /\ Cardinality(Open) <= MaxOpen

\* The chain of startAccept calls is never broken and never doubled: an
\* async_accept is outstanding, or exactly one client is in its handshake and
\* its handler will call startAccept.  Two outstanding accepts, or none with
\* nobody to start one, would both follow from one misplaced call.
OneAcceptChain ==
  Cardinality(In("handshake")) = IF acceptor = "held" THEN 1 ELSE 0

\* The handshake that startAccept waits for is one that never ends.
Stalled == acceptor = "held" /\ \E c \in Stalling : client[c] = "handshake"

\* A client that waits is accepted in the end, or gives up, or the server is
\* down; with TLS there is one thing more that may hold it up, a client that
\* stalls in its handshake, and nothing else does: no failed accept, no failed
\* handshake, and no session, however many there are.
EveryClientAccepted ==
  \A c \in Clients :
    client[c] = "backlog" ~> client[c] # "backlog" \/ ~ running \/ Stalled
===============================================================================
