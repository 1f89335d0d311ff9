-------------------------- MODULE ClientLifetimes --------------------------
(***************************************************************************)
(* What the provider manager promises of the clients it builds.  A user (a *)
(* generation with a lease on it) pins the clients it can hand out.  A     *)
(* client is built once; while some user pins it, it is open; a close that *)
(* raises leaves it torn, to be closed again; a closed one stays closed.   *)
(***************************************************************************)
CONSTANTS Users, Clients

VARIABLES client,  \* "unbuilt", "open", "torn" or "closed"
          pinned   \* the clients each user can hand out

avars == <<client, pinned>>

AInit ==
  /\ client = [o \in Clients |-> "unbuilt"]
  /\ pinned = [u \in Users |-> {}]

Build(o) ==
  /\ client[o] = "unbuilt"
  /\ client' = [client EXCEPT ![o] = "open"]
  /\ \/ UNCHANGED pinned
     \/ \E u \in Users : pinned' = [pinned EXCEPT ![u] = @ \cup {o}]

\* A user starts or ends: what it pins is open.
Pin(u, S) ==
  /\ \A o \in S : client[o] = "open"
  /\ pinned' = [pinned EXCEPT ![u] = S]
  /\ UNCHANGED client

Close(o, ok) ==
  /\ client[o] \in {"open", "torn"}
  /\ \A u \in Users : o \notin pinned[u]
  /\ client' = [client EXCEPT ![o] = IF ok THEN "closed" ELSE "torn"]
  /\ UNCHANGED pinned

ANext ==
  \/ \E o \in Clients : Build(o) \/ \E ok \in BOOLEAN : Close(o, ok)
  \/ \E u \in Users, S \in SUBSET Clients : Pin(u, S)

ASpec == AInit /\ [][ANext]_avars
=============================================================================
