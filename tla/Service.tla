-------------------------------- MODULE Service --------------------------------
(***************************************************************************)
(* vlr-service.cpp: main, from the configuration to the destruction of the *)
(* globals, in processes that are started, stopped and started again on    *)
(* one host.  They share the pid file, whose name is fixed, and the ports  *)
(* of the host, of which Server::Initialize binds the one configured.      *)
(*                                                                         *)
(* The pool is the number of its device connections and of its worker      *)
(* threads; ConnectionPool, Gateway and LogWriter model what goes on while *)
(* the program runs.                                                       *)
(***************************************************************************)
EXTENDS Config, FiniteSets

CONSTANTS
  Processes,   \* the starts of the program
  Lines,       \* the lines that a configuration file may have
  Ephemeral,   \* the ports that bind chooses from when it is given none
  Nobody       \* no process

ASSUME NobodyAssumption == Nobody \notin Processes

(* What stoul makes of a number. *)
ASSUME LinesAssumption ==
  \A line \in Lines : line.option \in Numbers => line.value \in Nat \cup {NotANumber}

NoPort == 0

ASSUME EphemeralAssumption == Ephemeral \subseteq UShorts \ {NoPort}

VARIABLES
  pc,           \* where main is, or exit(), or what follows main
  config,
  workers,      \* the pool's threads, each with a logged-in connector
  handling,     \* the processes that handle SIGINT and SIGTERM
  shutdownInProgress,
  pidFile,      \* the process that the pid file names
  bound,        \* the port that a process's listening socket is bound to, or NoPort
  configured,   \* history: each number as the last line that has it gives it
  overlapped,   \* history: the processes that have not been alone
  clean         \* history: the processes that came to the end of main

processVars == <<pc, config, workers, handling, shutdownInProgress>>
hostVars    == <<pidFile, bound>>
historyVars == <<configured, overlapped, clean>>
vars == <<processVars, hostVars, historyVars>>

Stages == {"config", "pid", "log", "pool", "bind", "handlers", "enter", "run",
           "blocked", "destroyPool", "closing", "destroyServer", "destroyLog"}

Alive == {p \in Processes : pc[p] \in Stages}

Init ==
  /\ pc = [p \in Processes |-> "none"]
  /\ config = [p \in Processes |-> Defaults]
  /\ workers = [p \in Processes |-> 0]
  /\ handling = {}
  /\ shutdownInProgress = [p \in Processes |-> FALSE]
  /\ pidFile = Nobody
  /\ bound = [p \in Processes |-> NoPort]
  /\ configured = [p \in Processes |-> [number \in Numbers |-> Defaults[number]]]
  /\ overlapped = {} /\ clean = {}

-----------------------------------------------------------------------------
Goto(p, from, to) ==
  /\ pc[p] = from
  /\ pc' = [pc EXCEPT ![p] = to]

Launch(p) ==
  /\ Goto(p, "none", "config")
  /\ overlapped' = IF Alive = {} THEN overlapped ELSE overlapped \cup Alive \cup {p}
  /\ UNCHANGED <<config, workers, handling, shutdownInProgress, hostVars, configured, clean>>

(* exit() on a failure, at any stage, goes on with the globals' destructors. *)
Exit(p, from) == Goto(p, from, "destroyServer")

(* ReadConfigFile, a line at a time.  A file that cannot be opened, or none   *)
(* named, ends the program as well.                                           *)
ReadLine(p) ==
  /\ \/ \E line \in Lines :
          /\ ~Throws(line)
          /\ pc[p] = "config"
          /\ config' = [config EXCEPT ![p] = Set(config[p], line)]
          /\ configured' = IF line.option \in Numbers
                           THEN [configured EXCEPT ![p][line.option] = line.value]
                           ELSE configured
          /\ UNCHANGED pc
     \/ /\ Exit(p, "config")
        /\ UNCHANGED <<config, configured>>
  /\ UNCHANGED <<workers, handling, shutdownInProgress, hostVars, overlapped, clean>>

(* The file has no more lines. *)
ValidateParams(p) ==
  /\ IF Valid(config[p]) THEN Goto(p, "config", "pid") ELSE Exit(p, "config")
  /\ UNCHANGED <<config, workers, handling, shutdownInProgress, hostVars, historyVars>>

(* The file is written over, whoever it names.  /var/run is taken to be      *)
(* writable: main goes on without a word if it is not.                        *)
WritePid(p) ==
  /\ Goto(p, "pid", "log")
  /\ pidFile' = p
  /\ UNCHANGED <<config, workers, handling, shutdownInProgress, bound, historyVars>>

(* A log file that cannot be opened throws; main catches and goes to its end. *)
InitializeLog(p) ==
  /\ \/ Goto(p, "log", "pool")
     \/ Goto(p, "log", "closing")
  /\ UNCHANGED <<config, workers, handling, shutdownInProgress, hostVars, historyVars>>

Count(p) == config[p]["CONNECTION_COUNT"]

(* Fault for mutation: <= for < in the loop over the connections. *)
InitializePoolOneMore(p) ==
  /\ \/ /\ workers[p] <= Count(p)
        /\ pc[p] = "pool"
        /\ workers' = [workers EXCEPT ![p] = @ + 1]
        /\ UNCHANGED pc
     \/ /\ workers[p] > Count(p)
        /\ Goto(p, "pool", "bind")
        /\ UNCHANGED workers
  /\ UNCHANGED <<config, handling, shutdownInProgress, hostVars, historyVars>>

(* ConnectionPool::Initialize: one connector after the other logs in and gets *)
(* its thread; the first that fails ends the program.                         *)
InitializePool(p) ==
  /\ \/ /\ workers[p] < Count(p)
        /\ pc[p] = "pool"
        /\ workers' = [workers EXCEPT ![p] = @ + 1]
        /\ UNCHANGED pc
     \/ /\ workers[p] < Count(p)
        /\ Exit(p, "pool")
        /\ UNCHANGED workers
     \/ /\ workers[p] = Count(p)
        /\ Goto(p, "pool", "bind")
        /\ UNCHANGED workers
  /\ UNCHANGED <<config, handling, shutdownInProgress, hostVars, historyVars>>

Port(p) == config[p]["SERVER_PORT"]

(* The ports that a bind of the configured one may end with. *)
Bindable(p) ==
  (IF Port(p) = NoPort THEN Ephemeral ELSE {Port(p)}) \ {bound[q] : q \in Processes}

(* Fault for mutation: what bind and listen return is not looked at. *)
InitializeServerBlindly(p) ==
  /\ Goto(p, "bind", "handlers")
  /\ \/ \E port \in Bindable(p) : bound' = [bound EXCEPT ![p] = port]
     \/ UNCHANGED bound
  /\ UNCHANGED <<config, workers, handling, shutdownInProgress, pidFile, historyVars>>

(* Server::Initialize: bind or listen fails as long as somebody listens on    *)
(* the port, and may fail for other reasons.                                  *)
InitializeServer(p) ==
  /\ \/ /\ Goto(p, "bind", "handlers")
        /\ \E port \in Bindable(p) : bound' = [bound EXCEPT ![p] = port]
     \/ /\ Exit(p, "bind")
        /\ UNCHANGED bound
  /\ UNCHANGED <<config, workers, handling, shutdownInProgress, pidFile, historyVars>>

InstallHandlers(p) ==
  /\ Goto(p, "handlers", "enter")
  /\ handling' = handling \cup {p}
  /\ UNCHANGED <<config, workers, shutdownInProgress, hostVars, historyVars>>

(* Fault for mutation: Run clears the flag that the constructor cleared. *)
RunClearsFlag(p) ==
  /\ Goto(p, "enter", "run")
  /\ shutdownInProgress' = [shutdownInProgress EXCEPT ![p] = FALSE]
  /\ UNCHANGED <<config, workers, handling, hostVars, historyVars>>

(* A signal may come before Server::Run is called. *)
CallRun(p) ==
  /\ Goto(p, "enter", "run")
  /\ UNCHANGED <<config, workers, handling, shutdownInProgress, hostVars, historyVars>>

(* A send to a client that does not read blocks Run, which looks at           *)
(* shutdownInProgress only when it is back from it: when the client reads     *)
(* again or goes, or when a signal interrupts the send.                       *)
RunBlocks(p) ==
  /\ Goto(p, "run", "blocked")
  /\ UNCHANGED <<config, workers, handling, shutdownInProgress, hostVars, historyVars>>

RunUnblocks(p) ==
  /\ Goto(p, "blocked", "run")
  /\ UNCHANGED <<config, workers, handling, shutdownInProgress, hostVars, historyVars>>

RunReturns(p) ==
  /\ shutdownInProgress[p]
  /\ Goto(p, "run", "destroyPool")
  /\ UNCHANGED <<config, workers, handling, shutdownInProgress, hostVars, historyVars>>

(* The pool leaves its scope: its threads are joined, if join returns. *)
DestroyPool(p) ==
  /\ Goto(p, "destroyPool", "closing")
  /\ workers' = [workers EXCEPT ![p] = 0]
  /\ UNCHANGED <<config, handling, shutdownInProgress, hostVars, historyVars>>

(* Fault for mutation: the pid file stays. *)
KeepPid(p) ==
  /\ Goto(p, "closing", "destroyServer")
  /\ clean' = clean \cup {p}
  /\ UNCHANGED <<config, workers, handling, shutdownInProgress, hostVars, configured, overlapped>>

(* The end of main: the file is removed, whoever it names. *)
RemovePid(p) ==
  /\ Goto(p, "closing", "destroyServer")
  /\ pidFile' = Nobody
  /\ clean' = clean \cup {p}
  /\ UNCHANGED <<config, workers, handling, shutdownInProgress, bound, configured, overlapped>>

(* The globals go in the reverse order of their construction. *)
DestroyServer(p) ==
  /\ Goto(p, "destroyServer", "destroyLog")
  /\ bound' = [bound EXCEPT ![p] = NoPort]
  /\ UNCHANGED <<config, workers, handling, shutdownInProgress, pidFile, historyVars>>

(* The write thread is joined and the process ends, with any threads left. *)
DestroyLog(p) ==
  /\ Goto(p, "destroyLog", "gone")
  /\ workers' = [workers EXCEPT ![p] = 0]
  /\ UNCHANGED <<config, handling, shutdownInProgress, hostVars, historyVars>>

(* SIGINT or SIGTERM: a process that does not handle them is killed.         *)
Signal(p) ==
  /\ p \in Alive
  /\ \/ /\ p \in handling
        /\ shutdownInProgress' = [shutdownInProgress EXCEPT ![p] = TRUE]
        /\ UNCHANGED <<pc, workers, bound>>
     \/ /\ p \notin handling
        /\ pc' = [pc EXCEPT ![p] = "gone"]
        /\ workers' = [workers EXCEPT ![p] = 0]
        /\ bound' = [bound EXCEPT ![p] = NoPort]
        /\ UNCHANGED shutdownInProgress
  /\ UNCHANGED <<config, handling, pidFile, historyVars>>

-----------------------------------------------------------------------------
Step(p) ==
  \/ ReadLine(p) \/ ValidateParams(p) \/ WritePid(p) \/ InitializeLog(p) \/ InitializePool(p)
  \/ InitializeServer(p) \/ InstallHandlers(p) \/ CallRun(p)
  \/ RunBlocks(p) \/ RunUnblocks(p) \/ RunReturns(p) \/ DestroyPool(p) \/ RemovePid(p)
  \/ DestroyServer(p) \/ DestroyLog(p)

Next == \E p \in Processes : Launch(p) \/ Step(p) \/ Signal(p)

Spec == Init /\ [][Next]_vars

(* Nobody owes main the start that a signal cannot wait for, the end of a     *)
(* blocked send or the end of the pool's destructor, which may join for ever  *)
(* (ShutdownCompletes).  The rest of main runs on, and as a scan sends to     *)
(* finitely many clients, Run comes back to its test of shutdownInProgress    *)
(* unless a send keeps it.                                                    *)
RunsOn(p) == CallRun(p) \/ RemovePid(p) \/ DestroyServer(p) \/ DestroyLog(p)

FairSpec ==
  Spec /\ \A p \in Processes : WF_vars(RunsOn(p)) /\ SF_vars(RunReturns(p))

-----------------------------------------------------------------------------
TypeOK ==
  /\ pc \in [Processes -> Stages \cup {"none", "gone"}]
  /\ DOMAIN config = Processes
  /\ \A p \in Processes :
       /\ DOMAIN config[p] = Options
       /\ \A option \in Numbers : config[p][option] \in UShorts
       /\ config[p]["LOG_LEVEL"] \in Levels
  /\ workers \in [Processes -> 0 .. maxConnCount]
  /\ handling \subseteq Processes
  /\ shutdownInProgress \in [Processes -> BOOLEAN]
  /\ pidFile \in Processes \cup {Nobody}
  /\ bound \in [Processes -> UShorts]
  /\ configured \in [Processes -> [Numbers -> Nat]]
  /\ overlapped \subseteq Processes
  /\ clean \subseteq Processes

(* A program that serves has as many sessions with the device as the last     *)
(* word of its configuration file says, if that fits in 16 bits.              *)
SessionsAsConfigured ==
  \A p \in Processes :
    pc[p] \in {"run", "blocked"} =>
      LET count == configured[p]["CONNECTION_COUNT"]
      IN /\ workers[p] \in minConnCount .. maxConnCount
         /\ count \in UShorts => workers[p] = count

(* From the bind to the end of the server's list. *)
Serving == {"handlers", "enter", "run", "blocked", "destroyPool"}

(* A program serves on the port that its configuration file says last, if     *)
(* that is a port, and no two serve on one port, however they are configured, *)
(* started and stopped: two whose files name the same port, or numbers with   *)
(* the same low 16 bits, never serve at once.                                 *)
ServesWhereConfigured ==
  \A p \in Processes :
    pc[p] \in Serving =>
      LET port == configured[p]["SERVER_PORT"]
      IN /\ bound[p] # NoPort
         /\ port \in UShorts \ {NoPort} => bound[p] = port
         /\ \A q \in Processes \ {p} : pc[q] \in Serving => bound[q] # bound[p]

(* The pid file names the program that serves, and no program that came to    *)
(* its end, unless two were alive together: then the one that starts takes it *)
(* from the other even if it fails, and the one that stops removes it.        *)
PidFileTellsTruth ==
  \A p \in Processes \ overlapped :
    /\ pc[p] \in {"run", "blocked"} => pidFile = p
    /\ pc[p] = "gone" /\ p \in clean => pidFile # p

(* A signal that is handled is not lost, before or after Run is called: the   *)
(* program ends and its port is free for the next one, unless it waits for    *)
(* ever in a send to a client that does not read, or for its pool's threads.  *)
StopFreesPort ==
  \A p \in Processes :
    [](shutdownInProgress[p] =>
         \/ <>(pc[p] = "gone" /\ bound[p] = NoPort)
         \/ <>[](pc[p] = "blocked")
         \/ <>[](pc[p] = "destroyPool"))

=============================================================================
