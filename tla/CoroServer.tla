------------------------------ MODULE CoroServer ------------------------------
(***************************************************************************)
(* CoroServer of include/coro_server.hpp: the accept coroutine and the     *)
(* detached coroutines it spawns, one per connection, which do the TLS     *)
(* handshake themselves and then run the session (CoroSession.tla).        *)
(***************************************************************************)
EXTENDS Naturals, FiniteSets

CONSTANTS Clients, Stalling, Tls, MaxOpen, MaxErrors   \* as in CallbackServer

ASSUME ServerAssumption ==
  /\ Stalling \subseteq Clients
  /\ Tls \in BOOLEAN
  /\ MaxOpen \in Nat \ {0} /\ MaxErrors \in Nat

VARIABLES client,    \* where each client's connection is
          loop,      \* accept_loop: "created", "accepting" or "exited"
          acceptorOpen,  \* the acceptor has not been closed
          errors     \* how often accept has failed

vars == <<client, loop, acceptorOpen, errors>>

ClientState == {"away", "backlog", "spawned", "handshake", "session", "gone"}

Init ==
  /\ client = [c \in Clients |-> "away"]
  /\ loop = "created"
  /\ acceptorOpen = TRUE
  /\ errors = 0

Open == {c \in Clients : client[c] \in {"spawned", "handshake", "session"}}

Become(c, s) == client' = [client EXCEPT ![c] = s]

(***************************************************************************)
(* The clients: a connection reaches the backlog as soon as the acceptor   *)
(* listens, which its constructor makes it do.                             *)
(***************************************************************************)
Connect(c) ==
  /\ acceptorOpen /\ client[c] = "away"
  /\ Become(c, "backlog")
  /\ UNCHANGED <<loop, acceptorOpen, errors>>

GiveUp(c) ==
  /\ client[c] = "backlog"
  /\ Become(c, "gone")
  /\ UNCHANGED <<loop, acceptorOpen, errors>>

(***************************************************************************)
(* The accept coroutine.                                                   *)
(***************************************************************************)
\* run(): spawn the coroutine, which starts its first accept.
Run ==
  /\ loop = "created"
  /\ loop' = "accepting"
  /\ UNCHANGED <<client, acceptorOpen, errors>>

\* A bug of the accept: the handshake is awaited in the accept loop
\* (EveryClientAccepted).
AcceptAfterHandshake(c) ==
  /\ loop = "accepting" /\ acceptorOpen
  /\ client[c] = "backlog" /\ Cardinality(Open) < MaxOpen
  /\ \A d \in Clients : client[d] # "handshake"
  /\ Become(c, "spawned")
  /\ UNCHANGED <<loop, acceptorOpen, errors>>

\* accept, co_spawn of the connection's coroutine, and the next accept.
Accept(c) ==
  /\ loop = "accepting" /\ acceptorOpen
  /\ client[c] = "backlog" /\ Cardinality(Open) < MaxOpen
  /\ Become(c, "spawned")
  /\ UNCHANGED <<loop, acceptorOpen, errors>>

\* async_accept throws: because the acceptor is closed, or because of the
\* connection or the process (aborted, out of descriptors).  Every exception
\* leaves the loop.
AcceptThrows ==
  /\ loop = "accepting"
  /\ \/ ~ acceptorOpen /\ UNCHANGED errors
     \/ acceptorOpen /\ errors < MaxErrors /\ errors' = errors + 1
  /\ loop' = "exited"
  /\ UNCHANGED <<client, acceptorOpen>>

\* The application closes the acceptor.
CloseAcceptor ==
  /\ acceptorOpen
  /\ acceptorOpen' = FALSE
  /\ client' = [c \in Clients |-> IF client[c] = "backlog" THEN "gone" ELSE client[c]]
  /\ UNCHANGED <<loop, errors>>

(***************************************************************************)
(* The coroutine of one connection.                                        *)
(***************************************************************************)
StartConnection(c) ==
  /\ client[c] = "spawned"
  /\ Become(c, IF Tls THEN "handshake" ELSE "session")
  /\ UNCHANGED <<loop, acceptorOpen, errors>>

Handshake(c) ==
  /\ client[c] = "handshake" /\ c \notin Stalling
  /\ \E next \in {"session", "gone"} : Become(c, next)
  /\ UNCHANGED <<loop, acceptorOpen, errors>>

\* The session ends, by itself or by an exception of a route handler, which
\* the detached completion token drops.
SessionEnd(c) ==
  /\ client[c] = "session"
  /\ Become(c, "gone")
  /\ UNCHANGED <<loop, acceptorOpen, errors>>

Next ==
  \/ Run \/ AcceptThrows \/ CloseAcceptor
  \/ \E c \in Clients : \/ Connect(c) \/ GiveUp(c) \/ Accept(c)
                        \/ StartConnection(c) \/ Handshake(c) \/ SessionEnd(c)

Spec ==
  /\ Init /\ [][Next]_vars
  /\ WF_vars(Run)
  /\ \A c \in Clients : /\ SF_vars(Accept(c))
                        /\ WF_vars(StartConnection(c))
                        /\ WF_vars(Handshake(c))
                        /\ WF_vars(SessionEnd(c))

-------------------------------------------------------------------------------
\* Every variable has its type, and no more sockets are open than may be.
TypeOK ==
  /\ client \in [Clients -> ClientState]
  /\ loop \in {"created", "accepting", "exited"}
  /\ acceptorOpen \in BOOLEAN
  /\ errors \in 0..MaxErrors
  /\ Cardinality(Open) <= MaxOpen

\* A client that waits is accepted in the end, or gives up, or the loop has
\* exited: a client that stalls in its handshake holds up nobody else (as long
\* as descriptors are left).
EveryClientAccepted ==
  \A c \in Clients : client[c] = "backlog" ~> client[c] # "backlog" \/ loop = "exited"

\* The accept loop exits only when the acceptor has been closed: "acceptor
\* closed - exit loop" (coro_server.hpp:284).
ExitMeansClosed == loop = "exited" => ~ acceptorOpen
===============================================================================
