----------------------------- MODULE Lifecycle -----------------------------
(***************************************************************************)
(* What the proxy process promises about its own life (spec section 6, the *)
(* proxy command): it starts, binds exactly one endpoint, says once where  *)
(* it serves, and then serves; or it exits before it serves.  It never      *)
(* hangs on the way.                                                       *)
(*                                                                         *)
(* The promise about the socket path: a Unix socket is used only with the  *)
(* default port, it is created owner-only, and a file at the path that is  *)
(* not a socket is never replaced.  Startup implements this module under   *)
(* the mapping in MCStartup.                                               *)
(***************************************************************************)
EXTENDS Naturals

CONSTANTS
  DefaultPort,   \* the port a Unix socket may be combined with
  Ports,         \* values of --port
  Modes,         \* the umasks a file at the path may have been created under
  OwnerOnly      \* the umask a socket the proxy creates is created under

VARIABLES
  port, unix,    \* the --port flag and whether --unix-socket was given
  phase,         \* "starting", "listening", "serving" or "exited"
  endpoint,      \* "none", "tcp" or "unix"
  announced,     \* how many times the bound address was printed
  pathFile,      \* "none", "socket" or "regular" at the socket path
  sockMode       \* umask the file at the path was created under

vars == <<port, unix, phase, endpoint, announced, pathFile, sockMode>>

Init ==
  /\ port \in Ports /\ unix \in BOOLEAN
  /\ phase = "starting"
  /\ endpoint = "none"
  /\ announced = 0
  /\ pathFile \in IF unix THEN {"none", "socket", "regular"} ELSE {"none"}
  /\ sockMode \in Modes

\* Any error before serving ends the process; nothing at the path changes.
Exit ==
  /\ phase \in {"starting", "listening"}
  /\ phase' = "exited"
  /\ UNCHANGED <<port, unix, endpoint, announced, pathFile, sockMode>>

BindTCP ==
  /\ phase = "starting" /\ ~unix
  /\ phase' = "listening" /\ endpoint' = "tcp"
  /\ UNCHANGED <<port, unix, announced, pathFile, sockMode>>

\* Only with the default port, only over no file or a stale socket.
BindUnix ==
  /\ phase = "starting" /\ unix /\ port = DefaultPort
  /\ pathFile # "regular"
  /\ phase' = "listening" /\ endpoint' = "unix"
  /\ pathFile' = "socket" /\ sockMode' = OwnerOnly
  /\ UNCHANGED <<port, unix, announced>>

AnnounceOnce ==
  /\ phase = "listening" /\ announced = 0
  /\ announced' = 1
  /\ UNCHANGED <<port, unix, phase, endpoint, pathFile, sockMode>>

Serve ==
  /\ phase = "listening" /\ announced = 1
  /\ phase' = "serving"
  /\ UNCHANGED <<port, unix, endpoint, announced, pathFile, sockMode>>

Next == Exit \/ BindTCP \/ BindUnix \/ AnnounceOnce \/ Serve

\* Startup is not left half-way: the process serves or exits.
Spec == Init /\ [][Next]_vars /\ WF_vars(Next)

=============================================================================
