----------------------------- MODULE GameClient -----------------------------
(***************************************************************************)
(* The client process, GameClient over ClientNetwork, and the server it    *)
(* plays on.  One thread waits in connect() for its id and then runs ticks *)
(* of four steps: input, receive, send, show; `step' is where it is.  What *)
(* ends the parsing, or the sending, is the first move of the next step.   *)
(*                                                                         *)
(* A packet leaves the socket when it is parsed: between the recv and the  *)
(* parsing nobody else can tell the difference.  The two latency buffers   *)
(* are delay lines.  The hello of connect(), which the server ignores, is  *)
(* left out; what reconcile and addSnapshot make of a world state is in    *)
(* Prediction and Interpolation.                                           *)
(***************************************************************************)
EXTENDS GameServer

CONSTANTS
  MAX_ATTEMPTS,   \* polls of connect(), 100 in the code
  MaxInputs,      \* bound: inputs of one client
  MaxHeld         \* bound: world states the client's latency buffer holds

ASSUME ClientAssumption ==
  MAX_ATTEMPTS \in Nat \ {0} /\ MaxInputs \in Nat /\ MaxHeld \in Nat \ {0}

VARIABLES
  client,     \* client[c]: the process, see Fresh
  wire,       \* wire[c]: what the kernel knows of the server's end
  assigned,   \* assigned[c]: assignedPlayerId_, 0 before the welcome
  seen,       \* history: tick of the last world state c read, or NoTick
  sent        \* history: c's inputs that reached the server's socket

procVars == <<client, wire>>
clientVars == <<procVars, assigned, seen, sent>>

vars == <<serverVars, linkVars, clientVars>>

NoTick == -1

\* A client that has not been started.
Fresh ==
  [stage     |-> "off",    \* "joining" in connect(), "running", "over"
   step      |-> "recv",
   attempts  |-> 0,        \* polls of connect() so far
   connected |-> FALSE,    \* connected_
   myId      |-> 0,        \* myPlayerId_
   predicted |-> 0,        \* sequence id of the last predicted input
   outbox    |-> <<>>,     \* outgoingBuffer_
   incoming  |-> <<>>,     \* incomingWorldStates_
   shown     |-> NoTick,   \* lastReceivedTick_
   remotes   |-> {}]       \* players given to the interpolation engine

Init ==
  /\ InitServer /\ InitLinks
  /\ client = [c \in Clients |-> Fresh]
  /\ wire = [c \in Clients |-> "up"]
  /\ assigned = [c \in Clients |-> 0]
  /\ seen = [c \in Clients |-> NoTick]
  /\ sent = [c \in Clients |-> <<>>]

Down == phase \in {"stopped", "dead"}

At(c, steps) ==
  client[c].stage \in {"joining", "running"} /\ client[c].step \in steps

\* update() has read what it will, and may have sent some packets.
Sending(c) == At(c, {"parse", "send"})

\* update() is over.
Updated(c) == At(c, {"parse", "send", "show"})

-----------------------------------------------------------------------------
(* Slips, never used by the specification.                                 *)

WelcomeUnchecked(c) == TRUE

NewestHeld(c) == client[c].incoming[Len(client[c].incoming)]

ReceivesAlways(c) == TRUE

ErrorForever(c) == wire[c] \in {"up", "error", "broken"}

PollsOnceMore(c) == client[c].attempts = MAX_ATTEMPTS

NumberedTwice(c) == IF client[c].predicted = 0 THEN 1 ELSE client[c].predicted

-----------------------------------------------------------------------------
(* The server's end closes with its process (external).                    *)

\* The server's kernel answers with a reset when nobody read, or will read,
\* what the client sent; without such data the client sees the end of file.
Unwanted(c) == toServer[c] # <<>> \/ c \in Members(backlog)

EndOfFileArrives(c) ==
  /\ Down /\ link[c] = "open" /\ wire[c] = "up" /\ ~Unwanted(c)
  /\ wire' = [wire EXCEPT ![c] = "eof"]
  /\ UNCHANGED <<serverVars, linkVars, client, assigned, seen, sent>>

\* A reset is reported once, as an error, and then the connection is broken;
\* after an end of file it is broken at once.
ResetArrives(c) ==
  /\ Down /\ link[c] = "open" /\ wire[c] \in {"up", "eof"} /\ Unwanted(c)
  /\ wire' = [wire EXCEPT ![c] = IF @ = "up" THEN "error" ELSE "broken"]
  /\ UNCHANGED <<serverVars, linkVars, client, assigned, seen, sent>>

-----------------------------------------------------------------------------
(* connect().                                                              *)

Start(c) ==
  /\ client[c].stage = "off" /\ ~Down
  /\ OpenLink(c)
  /\ client' = [client EXCEPT ![c].stage = "joining", ![c].connected = TRUE]
  /\ UNCHANGED <<serverVars, wire, assigned, seen, sent>>

\* update() returns at once when the connection is lost.
Receives(c) == client[c].connected

HasId(c) == assigned[c] # 0

LastAttempt(c) == client[c].attempts + 1 = MAX_ATTEMPTS

\* The wait is over.
FindId(c) ==
  /\ client[c].stage = "joining" /\ Updated(c)
  /\ HasId(c)
  /\ client' = [client EXCEPT ![c].stage = "running", ![c].step = "input",
                              ![c].myId = assigned[c]]
  /\ UNCHANGED <<serverVars, linkVars, wire, assigned, seen, sent>>

PollAgain(c) ==
  /\ client[c].stage = "joining" /\ Updated(c)
  /\ ~HasId(c) /\ ~LastAttempt(c)
  /\ client' = [client EXCEPT ![c].attempts = @ + 1,
                              ![c].step = IF Receives(c) THEN "recv" ELSE "show"]
  /\ UNCHANGED <<serverVars, linkVars, wire, assigned, seen, sent>>

\* The process is gone, and with it its memory and the socket.
Ends(c) ==
  /\ CloseLink(c)
  /\ client' = [client EXCEPT ![c] = [Fresh EXCEPT !.stage = "over"]]

\* main() returns.
GiveUp(c) ==
  /\ client[c].stage = "joining" /\ Updated(c)
  /\ ~HasId(c) /\ LastAttempt(c)
  /\ Ends(c)
  /\ UNCHANGED <<serverVars, wire, assigned, seen, sent>>

\* The window is closed, or the process is killed.
Exit(c) ==
  /\ client[c].stage \in {"joining", "running"}
  /\ Ends(c)
  /\ UNCHANGED <<serverVars, wire, assigned, seen, sent>>

-----------------------------------------------------------------------------
(* ClientNetwork::update().                                                *)

\* A world state goes into the latency buffer, an id into assignedPlayerId_.
ReadPacket(c) ==
  /\ At(c, {"recv", "parse"})
  /\ TakeFromServer(c)
  /\ LET m == Head(toClient[c]) IN
       IF m.kind = "welcome"
         THEN /\ assigned' = [assigned EXCEPT ![c] = m.id]
              /\ client' = [client EXCEPT ![c].step = "parse"]
              /\ UNCHANGED seen
         ELSE /\ Len(client[c].incoming) < MaxHeld
              /\ seen' = [seen EXCEPT ![c] = m.tick]
              /\ client' = [client EXCEPT ![c].step = "parse",
                                          ![c].incoming = Append(@, m)]
              /\ UNCHANGED assigned
  /\ UNCHANGED <<serverVars, wire, sent>>

\* MaxHeld bounds what a recv takes.
ReadLater(c) ==
  /\ At(c, {"recv"}) /\ toClient[c] # <<>>
  /\ Len(client[c].incoming) = MaxHeld
  /\ client' = [client EXCEPT ![c].step = "send"]
  /\ UNCHANGED <<serverVars, linkVars, wire, assigned, seen, sent>>

\* recv returned no data: 0 is the end of the connection, an error is not
\* looked at, whether it is EWOULDBLOCK or a reset.
RecvFails(c) == wire[c] \in {"up", "error"}

ReadNothing(c) ==
  /\ At(c, {"recv"}) /\ toClient[c] = <<>>
  /\ client' = [client EXCEPT ![c].step = "send", ![c].connected = RecvFails(c)]
  /\ wire' = [wire EXCEPT ![c] = IF @ = "error" THEN "broken" ELSE @]
  /\ UNCHANGED <<serverVars, linkVars, assigned, seen, sent>>

LeadsTo(c, input) ==
  LET n == Len(sent[c])
  IN  ApplyInput(IF n = 0 THEN pstate[c].position ELSE sent[c][n].leadsTo, input)

\* The oldest packet of outgoingBuffer_ is ready and goes to the socket.
SendReady(c) ==
  /\ Sending(c) /\ client[c].outbox # <<>>
  /\ LET packet == Head(client[c].outbox) IN
       /\ wire[c] \in {"up", "eof"}
       /\ PutToServer(c, packet)
       /\ sent' = [sent EXCEPT ![c] = Append(@,
            [input |-> packet.input, leadsTo |-> LeadsTo(c, packet.input)])]
  /\ client' = [client EXCEPT ![c].outbox = Tail(@), ![c].step = "send"]
  /\ UNCHANGED <<serverVars, wire, assigned, seen>>

\* send reports the reset, which nobody looks at; the packet is lost.
SendReset(c) ==
  /\ Sending(c) /\ client[c].outbox # <<>> /\ wire[c] = "error"
  /\ client' = [client EXCEPT ![c].outbox = Tail(@), ![c].step = "send"]
  /\ wire' = [wire EXCEPT ![c] = "broken"]
  /\ UNCHANGED <<serverVars, linkVars, assigned, seen, sent>>

\* Writing to a broken connection raises SIGPIPE, which nothing handles.
ClientKilledBySigpipe(c) ==
  /\ Sending(c) /\ client[c].outbox # <<>> /\ wire[c] = "broken"
  /\ Ends(c)
  /\ UNCHANGED <<serverVars, wire, assigned, seen, sent>>

-----------------------------------------------------------------------------
(* GameClient::run().                                                      *)

NextSequenceId(c) == client[c].predicted + 1

\* processInput with the focus: the input is predicted and queued, connected
\* or not.
TickWithInput(c) ==
  /\ At(c, {"input"}) /\ client[c].predicted < MaxInputs
  /\ \E input \in Inputs :
       client' = [client EXCEPT
         ![c].predicted = @ + 1,
         ![c].outbox = Append(@, [seq |-> NextSequenceId(c), input |-> input]),
         ![c].step = IF Receives(c) THEN "recv" ELSE "show"]
  /\ UNCHANGED <<serverVars, linkVars, wire, assigned, seen, sent>>

TickWithoutInput(c) ==
  /\ At(c, {"input"})
  /\ client' = [client EXCEPT ![c].step = IF Receives(c) THEN "recv" ELSE "show"]
  /\ UNCHANGED <<serverVars, linkVars, wire, assigned, seen, sent>>

OldestHeld(c) == Head(client[c].incoming)

\* popWorldState releases one: the own player goes to reconcile, the others
\* to the interpolation engine.
ShowWorldState(c) ==
  /\ client[c].stage = "running" /\ Updated(c)
  /\ client[c].incoming # <<>>
  /\ client' = [client EXCEPT
       ![c].step = "input",
       ![c].incoming = Tail(@),
       ![c].shown = OldestHeld(c).tick,
       ![c].remotes = @ \cup (OldestHeld(c).ids \ {client[c].myId})]
  /\ UNCHANGED <<serverVars, linkVars, wire, assigned, seen, sent>>

ShowNothing(c) ==
  /\ client[c].stage = "running" /\ Updated(c)
  /\ client' = [client EXCEPT ![c].step = "input"]
  /\ UNCHANGED <<serverVars, linkVars, wire, assigned, seen, sent>>

-----------------------------------------------------------------------------
\* What the client's thread does when it is scheduled.
ClientLoop(c) ==
  \/ FindId(c) \/ PollAgain(c) \/ GiveUp(c)
  \/ ReadPacket(c) \/ ReadLater(c) \/ ReadNothing(c)
  \/ SendReady(c) \/ SendReset(c) \/ ClientKilledBySigpipe(c)
  \/ TickWithInput(c) \/ TickWithoutInput(c)
  \/ ShowWorldState(c) \/ ShowNothing(c)

NewsArrives(c) == EndOfFileArrives(c) \/ ResetArrives(c)

Server == (ServerStep \/ KilledBySigpipe \/ Signal) /\ UNCHANGED clientVars

Next ==
  \/ Server
  \/ \E c \in Clients : Start(c) \/ Exit(c) \/ ClientLoop(c) \/ NewsArrives(c)

Spec == Init /\ [][Next]_vars

InputReleased(c) ==
  ProcessInputs /\ inbuf'[c] # inbuf[c] /\ UNCHANGED clientVars

\* Both threads are scheduled again and again, the network delivers, and what
\* has waited in a latency buffer long enough is ready whenever it is asked
\* for.  Nobody has to start, press a key or leave.
FairSpec ==
  /\ Spec
  /\ WF_vars(ServerStep /\ UNCHANGED clientVars)
  /\ \A c \in Clients :
       /\ WF_vars(ClientLoop(c)) /\ WF_vars(NewsArrives(c))
       /\ SF_vars(InputReleased(c)) /\ SF_vars(ShowWorldState(c))

-----------------------------------------------------------------------------
WorldStates ==
  [kind : {"world"}, tick : 0 .. TICK_MOD - 1,
   ids : SUBSET (1 .. nextPlayerId - 1)]

Process ==
  [stage : {"off", "joining", "running", "over"},
   step : {"recv", "parse", "send", "show", "input"},
   attempts : 0 .. MAX_ATTEMPTS - 1, connected : BOOLEAN,
   myId : 0 .. nextPlayerId - 1, predicted : 0 .. MaxInputs,
   outbox : Seq([seq : 1 .. MaxInputs, input : Inputs]),
   incoming : Seq(WorldStates),
   shown : {NoTick} \cup 0 .. TICK_MOD - 1,
   remotes : SUBSET (1 .. nextPlayerId - 1)]

TypeOK ==
  /\ client \in [Clients -> Process]
  /\ wire \in [Clients -> {"up", "eof", "error", "broken"}]
  /\ assigned \in [Clients -> 0 .. nextPlayerId - 1]

\* The player is never handed to the interpolation engine as somebody else:
\* it is drawn once, where it is predicted.
OwnPlayerIsLocal ==
  \A c \in Clients : pid[c] # 0 => pid[c] \notin client[c].remotes

\* The tick broadcast after tick t.
NextBroadcast(t) == IF t + 3 < TICK_MOD THEN t + 3 ELSE 0

\* World states take effect in the order they were broadcast and none is
\* skipped, however the reads bunch them.
ShownInOrder ==
  [][\A c \in Clients :
       ShowWorldState(c) /\ client[c].shown # NoTick
         => client'[c].shown = NextBroadcast(client[c].shown)]_vars

\* A lost connection stays lost: when the update that noticed it is over the
\* client never reads or sends again, whatever it still queues.
LostIsFinal ==
  [][\A c \in Clients :
       client[c].stage \in {"joining", "running"} /\ ~client[c].connected
         => \/ client'[c].stage = "over"
            \/ /\ ~client'[c].connected
               /\ UNCHANGED <<assigned[c], seen[c]>>
               /\ client[c].step # "send" =>
                    client'[c].step # "send" /\ UNCHANGED sent[c]]_vars

\* The client notices that the server is gone, though it takes an error of
\* recv for silence, or it is gone as well.
NoticesShutdown ==
  \A c \in Clients :
    (Down /\ link[c] = "open")
      ~> (client[c].stage = "over" \/ ~client[c].connected)

Session == INSTANCE ServerSession

\* To the server this client is the one of ServerSession: it sends inputs
\* numbered from 1 after its welcome and reads whatever arrives.
IsSession == Session!Spec

=============================================================================
