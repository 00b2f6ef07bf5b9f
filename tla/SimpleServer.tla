---------------------------- MODULE SimpleServer ----------------------------
(***************************************************************************)
(* SimpleServer (jni/minicap/SimpleServer.cpp), the sends of pumps() in    *)
(* minicap.cpp and, outside the program, the clients.                      *)
(*                                                                         *)
(* A client stands for one connection it makes.  A message is the banner   *)
(* or a frame; how a message is cut into bytes and chunks is not seen      *)
(* here.  A message is a number: the banner 0, a frame the number of the   *)
(* screen content it shows.                                                *)
(***************************************************************************)
EXTENDS Integers, Sequences

CONSTANTS
  Clients,    \* the connections that may be made
  Backlog,    \* connections listen() keeps waiting
  SockCap     \* messages a socket buffers before send() blocks

ASSUME ServerAssumption ==
  /\ Backlog \in Nat \ {0}
  /\ SockCap \in Nat \ {0}

Banner == 0
Nothing == -1

VARIABLES
  mFd,       \* 1: the listening socket is in place; 0: mFd was never set
  backlog,   \* connections that wait to be accepted
  conn,      \* each connection: not made, open, left by its client, closed
  fds,       \* connections the process holds a descriptor of
  sock,      \* messages sent and not yet read
  got        \* the last message each client has read

serverVars == <<mFd, backlog, conn, fds, sock, got>>

ServerInit ==
  /\ mFd = 0
  /\ backlog = <<>>
  /\ conn = [c \in Clients |-> "new"]
  /\ fds = {}
  /\ sock = [c \in Clients |-> <<>>]
  /\ got = [c \in Clients |-> Nothing]

\* send() on c's socket blocks: the client is there and does not read.
SendBlocks(c) == conn[c] = "open" /\ Len(sock[c]) >= SockCap

-----------------------------------------------------------------------------

\* start(): it returns the descriptor, 0 if that is its number, or -1 when a
\* call of it fails.  mFd is set only on success and is 0 before.
Start(r) ==
  /\ r \in {-1, 0, 1}
  /\ mFd' = IF r > 0 THEN r ELSE 0
  /\ UNCHANGED <<backlog, conn, fds, sock, got>>

\* accept() that returns the connection of client c
AcceptClient(c) ==
  /\ mFd = 1
  /\ backlog # <<>>
  /\ c = Head(backlog)
  /\ backlog' = Tail(backlog)
  /\ fds' = fds \cup {c}
  /\ UNCHANGED <<mFd, conn, sock, got>>

\* pumps() that writes all of message m
Send(c, m) ==
  /\ conn[c] = "open"
  /\ Len(sock[c]) < SockCap
  /\ sock' = [sock EXCEPT ![c] = Append(@, m)]
  /\ UNCHANGED <<mFd, backlog, conn, fds, got>>

\* pumps() that fails: the client has left, send() returns EPIPE
SendFails(c) ==
  /\ conn[c] = "left"
  /\ UNCHANGED serverVars

\* close(fd)
CloseClient(c) ==
  /\ conn' = [conn EXCEPT ![c] = IF @ = "open" THEN "closed" ELSE @]
  /\ fds' = fds \ {c}
  /\ UNCHANGED <<mFd, backlog, sock, got>>

-----------------------------------------------------------------------------
(* The clients, outside the program.                                       *)

Connect(c) ==
  /\ mFd = 1
  /\ conn[c] = "new"
  /\ Len(backlog) < Backlog
  /\ conn' = [conn EXCEPT ![c] = "open"]
  /\ backlog' = Append(backlog, c)
  /\ UNCHANGED <<mFd, fds, sock, got>>

Leave(c) ==
  /\ conn[c] = "open"
  /\ conn' = [conn EXCEPT ![c] = "left"]
  /\ UNCHANGED <<mFd, backlog, fds, sock, got>>

\* A message stays readable after the server has closed the connection.
Read(c) ==
  /\ conn[c] \in {"open", "closed"}
  /\ sock[c] # <<>>
  /\ got' = [got EXCEPT ![c] = Head(sock[c])]
  /\ sock' = [sock EXCEPT ![c] = Tail(@)]
  /\ UNCHANGED <<mFd, backlog, conn, fds>>

=============================================================================
