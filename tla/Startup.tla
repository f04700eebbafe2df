------------------------------ MODULE Startup ------------------------------
(***************************************************************************)
(* Server bootstrap: RunProxy (pkg/kubefed2/proxy.go) and the Server        *)
(* methods it calls in pkg/kubefed2/proxy/proxy_server.go (NewServer,      *)
(* getCentralRegistryConfig, Listen, ListenUnix, ServeOnListener).         *)
(*                                                                         *)
(* One goroutine runs these steps in order; each step is an action.  The   *)
(* flags and the environment (what the local and central clusters hold,    *)
(* the file at the socket path, whether the port binds, the certificate    *)
(* files) are fixed at start and chosen in Init: every action is then a    *)
(* function of them, as the straight-line code is.                         *)
(***************************************************************************)
EXTENDS Naturals, Sequences

CONSTANTS
  DefaultPort,     \* defaultPort = 8001
  Ports,           \* values given to --port
  Prefixes,        \* --api-prefix and --www-prefix as [segs, slash]:
                   \* "/x" is [<<"x">>, FALSE]
  InitialUmask,    \* the process umask before ListenUnix
  OwnerOnly,       \* umask(0077)
  NoServer         \* the nil *Server

\* www: --www names a static file directory (the flag is not empty).
Flags == [port : Ports, unix : BOOLEAN, disableFilter : BOOLEAN,
          apiPrefix : Prefixes, www : BOOLEAN, wwwPrefix : Prefixes]

\* inCluster: rest.InClusterConfig succeeds; kubeconfig: ~/.kube/config
\*   loads;
\* regexps: every comma-separated part of the four filter flags compiles;
\* localSecret: federation-system/kubeconfig-central exists on the local
\*   cluster and holds a kubeconfig;
\* centralSecret: default/kubeconfig-central exists on the central cluster;
\* bind: the TCP address is free; ca, cert: the minikube CA and the server
\*   certificate and key load.
Envs == [inCluster : BOOLEAN, kubeconfig : BOOLEAN, regexps : BOOLEAN, localSecret : BOOLEAN,
         centralSecret : BOOLEAN, bind : BOOLEAN, ca : BOOLEAN,
         cert : BOOLEAN]

FileKinds == {"none", "socket", "regular"}

VARIABLES
  flags, env,
  pathFile,      \* what is at the --unix-socket path
  initialFile,   \* what was there when the process started
  sockMode,      \* umask the socket at the path was created under
  umask,
  pc,
  exit,          \* "none", "fatal" (glog.Fatal*) or "panic"
  apiProxyPrefix, staticPrefix, filter, warned,
  server,        \* NoServer or the mux: [prefix, filter, static]
  listener,      \* "none", "tcp" or "unix"
  out            \* lines written to stdout, as the listener they name

vars == <<flags, env, pathFile, initialFile, sockMode, umask, pc, exit,
          apiProxyPrefix, staticPrefix, filter, warned, server, listener, out>>

Init ==
  /\ flags \in Flags
  /\ env \in Envs
  /\ pathFile \in IF flags.unix THEN FileKinds ELSE {"none"}
  /\ initialFile = pathFile
  /\ sockMode = IF pathFile = "none" THEN "none" ELSE InitialUmask
  /\ umask = InitialUmask
  /\ pc = "start"
  /\ exit = "none"
  /\ apiProxyPrefix = flags.apiPrefix
  /\ staticPrefix = flags.wwwPrefix
  /\ filter = "unset"
  /\ warned = FALSE
  /\ server = NoServer
  /\ listener = "none"
  /\ out = <<>>

Fatal == pc' = "exited" /\ exit' = "fatal"

\* Mutant: the flag check dropped.
ConflictingListenersNever(f) == FALSE

\* if port != defaultPort && path != "": both listeners were asked for.
ConflictingListeners(f) == f.port # DefaultPort /\ f.unix

\* getDefaultRESTConfig: the in-cluster config, else the file under $HOME.
getDefaultRESTConfig == env.inCluster \/ env.kubeconfig

\* RunProxy: --unix-socket and a non-default --port exclude each other;
\* then getDefaultRESTConfig.  An error returned here reaches
\* glog.Fatalf in NewCmdProxy.
CheckFlags ==
  /\ pc = "start"
  /\ IF ConflictingListeners(flags) \/ ~getDefaultRESTConfig
       THEN Fatal
       ELSE pc' = "configure" /\ UNCHANGED exit
  /\ UNCHANGED <<flags, env, pathFile, initialFile, sockMode, umask,
                 apiProxyPrefix, staticPrefix, filter, warned, server, listener, out>>

\* Mutant: --api-prefix used as given.
AsGiven(prefix) == prefix

\* if !strings.HasSuffix(apiProxyPrefix, "/") { apiProxyPrefix += "/" }
WithTrailingSlash(prefix) == [prefix EXCEPT !.slash = TRUE]

\* MakeRegexpArray splits a flag on "," and compiles each part, returning
\* the first compile error; the parts themselves only matter to the filter.
RegexpsCompile == env.regexps

\* Prefix coercion and the filter: MakeRegexpArrayOrDie exits on a bad
\* regexp even when --disable-filter then drops the filter; the XSRF
\* warning is logged only for a TCP listener.  The --www directory is
\* only stat'ed for a warning: a missing one does not stop the process.
Configure ==
  /\ pc = "configure"
  /\ staticPrefix' = WithTrailingSlash(staticPrefix)
  /\ apiProxyPrefix' = WithTrailingSlash(apiProxyPrefix)
  /\ IF ~RegexpsCompile
       THEN Fatal /\ UNCHANGED <<filter, warned>>
       ELSE /\ pc' = "newServer"
            /\ filter' = IF flags.disableFilter THEN "nil" ELSE "default"
            /\ warned' = (flags.disableFilter /\ ~flags.unix)
            /\ UNCHANGED exit
  /\ UNCHANGED <<flags, env, pathFile, initialFile, sockMode, umask,
                 server, listener, out>>

\* getCentralRegistryConfig reads federation-system/kubeconfig-central
\* through the local config; NewServer then Gets default/kubeconfig-central
\* through the central client (and discards it) before building the mux.
\* Either failure returns (nil, err), and RunProxy never reads err.  The
\* mux maps apiProxyPrefix to the top handler and, when --www is given,
\* staticPrefix to http.StripPrefix over a file server (newFileHandler);
\* ServeMux.Handle panics on a pattern registered twice.
Mux == [prefix |-> apiProxyPrefix, filter |-> filter,
        static |-> IF flags.www THEN {staticPrefix} ELSE {}]

NewServer ==
  /\ pc = "newServer"
  /\ IF ~(env.localSecret /\ env.centralSecret)
       THEN server' = NoServer /\ pc' = "listen" /\ UNCHANGED exit
     ELSE IF flags.www /\ staticPrefix = apiProxyPrefix
       THEN pc' = "exited" /\ exit' = "panic" /\ UNCHANGED server
     ELSE server' = Mux /\ pc' = "listen" /\ UNCHANGED exit
  /\ UNCHANGED <<flags, env, pathFile, initialFile, sockMode, umask,
                 apiProxyPrefix, staticPrefix, filter, warned, listener, out>>

\* Mutant: the stale-file check dropped, so any file is removed.
RemovesAnyFile(f) == f # "none"

\* ListenUnix removes the file only when its mode has os.ModeSocket.
RemovesStaleSocket(f) == f = "socket"

(***************************************************************************)
(* Listen / ListenUnix, and glog.Fatal on their error.  ListenUnix removes *)
(* a socket, sets umask 0077, binds (which fails on any file left at the   *)
(* path) and restores the old umask.  Neither method reads its receiver,   *)
(* so a nil *Server listens as well as a real one.                          *)
(***************************************************************************)
\* Listen: net.Listen("tcp", address:port); port 0 lets the OS choose.
Listen(port) == env.bind \/ port = 0

ListenTCP ==
  /\ pc = "listen"
  /\ ~flags.unix
  /\ IF Listen(flags.port)
       THEN listener' = "tcp" /\ pc' = "announce" /\ UNCHANGED exit
       ELSE Fatal /\ UNCHANGED listener
  /\ UNCHANGED <<flags, env, pathFile, initialFile, sockMode, umask,
                 apiProxyPrefix, staticPrefix, filter, warned, server, out>>

\* Mutant: umask(oldmask) restored before net.Listen creates the socket.
MaskAtListenRestored(oldmask) == oldmask

\* oldmask, _ := umask(0077) runs before net.Listen("unix", path), and
\* umask(oldmask) after it: the socket is created under 0077.
MaskAtListen(oldmask) == OwnerOnly

ListenUnix ==
  /\ pc = "listen"
  /\ flags.unix
  /\ LET left == IF RemovesStaleSocket(pathFile) THEN "none" ELSE pathFile
     IN IF left = "none"
          THEN /\ pathFile' = "socket" /\ sockMode' = MaskAtListen(umask)
               /\ listener' = "unix" /\ pc' = "announce"
               /\ UNCHANGED exit
          ELSE /\ pathFile' = left /\ Fatal
               /\ UNCHANGED <<sockMode, listener>>
  /\ umask' = umask
  /\ UNCHANGED <<flags, env, initialFile, apiProxyPrefix, staticPrefix, filter, warned,
                 server, out>>

\* fmt.Fprintf(out, "Starting to serve on %s\n", l.Addr()).
Announce ==
  /\ pc = "announce"
  /\ out' = Append(out, listener)
  /\ pc' = "serve"
  /\ UNCHANGED <<flags, env, pathFile, initialFile, sockMode, umask, exit,
                 apiProxyPrefix, staticPrefix, filter, warned, server, listener>>

\* ServeOnListener: the CA pool is loaded first (its error goes to
\* glog.Fatal), then s.handler is read, which panics on a nil server, then
\* ServeTLS loads the certificate and key and serves until it fails.
ServeOnListener ==
  /\ pc = "serve"
  /\ CASE ~env.ca            -> Fatal
       [] server = NoServer  -> pc' = "exited" /\ exit' = "panic"
       [] ~env.cert          -> Fatal
       [] OTHER              -> pc' = "serving" /\ UNCHANGED exit
  /\ UNCHANGED <<flags, env, pathFile, initialFile, sockMode, umask,
                 apiProxyPrefix, staticPrefix, filter, warned, server, listener, out>>

\* The process serves forever or has exited: no step is left.
Next ==
  \/ CheckFlags \/ Configure \/ NewServer \/ ListenTCP \/ ListenUnix
  \/ Announce \/ ServeOnListener

\* One goroutine runs the steps back to back: none waits on another actor.
Spec == Init /\ [][Next]_vars /\ WF_vars(Next)

-----------------------------------------------------------------------------

TypeOK ==
  /\ flags \in Flags /\ env \in Envs
  /\ pathFile \in FileKinds /\ initialFile \in FileKinds
  /\ sockMode \in {"none", InitialUmask, OwnerOnly}
  /\ umask \in {InitialUmask, OwnerOnly}
  /\ pc \in {"start", "configure", "newServer", "listen", "announce",
             "serve", "serving", "exited"}
  /\ exit \in {"none", "fatal", "panic"}
  /\ (pc = "exited") = (exit # "none")
  /\ filter \in {"unset", "nil", "default"}
  /\ warned \in BOOLEAN
  /\ server \in {NoServer} \cup
       [prefix : {[p EXCEPT !.slash = TRUE] : p \in Prefixes},
        filter : {"nil", "default"},
        static : SUBSET {[p EXCEPT !.slash = TRUE] : p \in Prefixes}]
  /\ listener \in {"none", "tcp", "unix"}
  /\ out \in Seq({"tcp", "unix"})

\* "Starting to serve on <addr>" is printed only by a process that has a
\* server to serve with: RunProxy ignores the error NewServer returns.
AnnouncedHasServer == Len(out) > 0 => server # NoServer

(***************************************************************************)
(* Startup implements the process life cycle of Lifecycle: the steps      *)
(* before a listener exists are "starting", a bound listener not yet       *)
(* serving is "listening", and the printed lines count the announcements.  *)
(***************************************************************************)
Phase ==
  CASE pc \in {"start", "configure", "newServer", "listen"} -> "starting"
    [] pc \in {"announce", "serve"}                         -> "listening"
    [] OTHER                                                -> pc

Life == INSTANCE Lifecycle
          WITH port <- flags.port, unix <- flags.unix, phase <- Phase,
               endpoint <- listener, announced <- Len(out),
               Modes <- {"none", InitialUmask, OwnerOnly}

\* RunProxy, Listen/ListenUnix and ServeOnListener keep the promise of
\* Lifecycle: one endpoint, a Unix socket only with the default port and
\* over no file or a stale socket, one announcement before serving, and
\* the process serves or exits.
ImplementsLifecycle == Life!Spec
=============================================================================
