------------------------------ MODULE TcpLinks ------------------------------
(***************************************************************************)
(* The operating system between server and clients: the listening socket,  *)
(* one TCP connection per client and the bytes on it, counted in packets   *)
(* (external: written from the socket calls of ServerNetwork.cpp and       *)
(* ClientNetwork.cpp).                                                     *)
(*                                                                         *)
(* A member of Clients is one connection, so one that is closed stays      *)
(* closed: a player who comes back is another client.  Nothing is lost or  *)
(* reordered while both ends live.  What a closed end still had in flight  *)
(* may never be read: the other end then learns of the close through an    *)
(* error of recv instead of its end-of-file, at any moment.                *)
(***************************************************************************)
EXTENDS Naturals, Sequences

CONSTANT Clients

VARIABLES
  link,       \* link[c]: "idle", "open", or "closed" by the client
  backlog,    \* connections waiting in the listen queue, oldest first
  toServer,   \* toServer[c]: arrived at the server's socket, not yet read
  toClient    \* toClient[c]: sent by the server, not yet read by the client

linkVars == <<link, backlog, toServer, toClient>>

InitLinks ==
  /\ link = [c \in Clients |-> "idle"]
  /\ backlog = <<>>
  /\ toServer = [c \in Clients |-> <<>>]
  /\ toClient = [c \in Clients |-> <<>>]

\* connect() succeeds as soon as the kernel has queued the connection.
OpenLink(c) ==
  /\ link[c] = "idle"
  /\ link' = [link EXCEPT ![c] = "open"]
  /\ backlog' = Append(backlog, c)
  /\ UNCHANGED <<toServer, toClient>>

\* What the client has not read is gone with its socket.
CloseLink(c) ==
  /\ link[c] = "open"
  /\ link' = [link EXCEPT ![c] = "closed"]
  /\ toClient' = [toClient EXCEPT ![c] = <<>>]
  /\ UNCHANGED <<backlog, toServer>>

PutToServer(c, packet) ==
  /\ link[c] = "open"
  /\ toServer' = [toServer EXCEPT ![c] = Append(@, packet)]
  /\ UNCHANGED <<link, backlog, toClient>>

TakeFromServer(c) ==
  /\ link[c] = "open"
  /\ toClient[c] # <<>>
  /\ toClient' = [toClient EXCEPT ![c] = Tail(@)]
  /\ UNCHANGED <<link, backlog, toServer>>

=============================================================================
