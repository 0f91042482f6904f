----------------------------- MODULE ServiceProofs -----------------------------
(***************************************************************************)
(* Proofs about Service, for any number of processes and any configuration *)
(* files, however the processes are started, fail, are signalled and stop: *)
(* a program that serves has the sessions and the port configured, the     *)
(* latter to itself, and the pid file is wrong only if two were alive together.      *)
(***************************************************************************)
EXTENDS Service, TLAPS

(* The inductive invariant, in named parts. *)

(* From the validation to the end of main the count is within its limits. *)
CountInLimits ==
  \A p \in Processes :
    pc[p] \in {"pid", "log", "pool", "bind", "handlers", "enter", "run",
              "blocked", "destroyPool"} =>
      Count(p) \in minConnCount .. maxConnCount

(* What is kept of a number is what fits in 16 bits. *)
NumbersAreConfigured ==
  \A p \in Processes : \A number \in Numbers :
    config[p][number] = ToUShort(configured[p][number])

(* No thread before the pool, then one for each of the sessions counted. *)
PoolGrows ==
  \A p \in Processes :
    /\ pc[p] \in {"none", "config", "pid", "log"} => workers[p] = 0
    /\ pc[p] = "pool" => workers[p] <= Count(p)
    /\ pc[p] \in {"bind", "handlers", "enter", "run", "blocked", "destroyPool"} =>
         workers[p] = Count(p)

(* A program that serves has the port configured, or one that bind chose, and *)
(* a port is bound only by a program that has come to bind and not yet to its *)
(* end.                                                                       *)
PortIsBound ==
  \A p \in Processes :
    /\ pc[p] \in Serving =>
         bound[p] \in (IF Port(p) = NoPort THEN Ephemeral ELSE {Port(p)})
    /\ bound[p] # NoPort => pc[p] \in Serving \cup {"closing", "destroyServer"}

(* A port is bound by one program. *)
PortIsOwned ==
  \A p, q \in Processes : bound[p] = bound[q] /\ bound[p] # NoPort => p = q

(* A process that has always been alone is alone. *)
AloneIsAlone ==
  \A p \in Processes \ overlapped : \A q \in Processes :
    pc[p] \in Stages /\ pc[q] \in Stages => p = q

(* From the pid file's writing to its removal, and after it. *)
Owning == {"log", "pool", "bind", "closing"} \cup Serving
Over   == {"destroyServer", "destroyLog", "gone"}

(* The pid file is with such a process from its start to the end of main. *)
PidFileIsOwned ==
  \A p \in Processes \ overlapped :
    /\ pc[p] \in Owning => pidFile = p
    /\ p \in clean => pidFile # p

CleanIsOver ==
  \A p \in clean : pc[p] \in Over

Sessions == CountInLimits /\ NumbersAreConfigured /\ PoolGrows
Ports    == PortIsBound /\ PortIsOwned
PidFile  == AloneIsAlone /\ PidFileIsOwned /\ CleanIsOver
IInv == TypeOK /\ Sessions /\ Ports /\ PidFile

-----------------------------------------------------------------------------
(* Config. *)

(* The constructor's parameters are of the types that config's members have. *)
LEMMA DefaultsFit ==
  /\ DOMAIN Defaults = Options
  /\ \A option \in Numbers : Defaults[option] \in UShorts
  /\ Defaults["CONNECTION_COUNT"] = 2 /\ Defaults["LOG_LEVEL"] = "notice"
<1>1. /\ Numbers \subseteq Options /\ Numbers \cap Texts = {}
      /\ "LOG_LEVEL" \in Options /\ "LOG_LEVEL" \notin Texts
  BY DEF Options, Numbers, Texts
<1>2. Numbers = {"VLR_PORT", "SERVER_PORT", "CONNECTION_COUNT"}
  BY DEF Numbers
<1>3. DOMAIN Defaults = Options
  BY DEF Defaults
<1>4. Defaults["VLR_PORT"] = 5000
  BY <1>1, <1>2 DEF Defaults
<1>5. Defaults["SERVER_PORT"] = 5200
  BY <1>1, <1>2 DEF Defaults
<1>6. Defaults["CONNECTION_COUNT"] = 2
  BY <1>1, <1>2 DEF Defaults
<1>7. Defaults["LOG_LEVEL"] = "notice"
  BY <1>1 DEF Defaults
<1>8. ASSUME NEW option \in Numbers
      PROVE  Defaults[option] \in UShorts
  <2>1. 5000 \in UShorts /\ 5200 \in UShorts /\ 2 \in UShorts
    BY DEF UShorts, UShortWidth
  <2> QED
    BY <1>2, <1>4, <1>5, <1>6, <2>1
<1> QED
  BY <1>3, <1>6, <1>7, <1>8

(* What is kept of a number fits, and it is the number if that fits. *)
LEMMA ToUShortFits ==
  /\ \A n \in Nat : ToUShort(n) \in UShorts
  /\ \A n \in UShorts : ToUShort(n) = n
  /\ NoPort \in UShorts
<1>1. ASSUME NEW n \in Nat
      PROVE  ToUShort(n) \in UShorts
  <2>1. UShortWidth \in Nat /\ n % UShortWidth \in Nat /\ n % UShortWidth < UShortWidth
    BY DEF UShortWidth
  <2> QED
    BY <2>1 DEF ToUShort, UShorts
<1>2. ASSUME NEW n \in UShorts
      PROVE  ToUShort(n) = n
  <2>1. n \in Nat /\ n < 65536
    BY DEF UShorts, UShortWidth
  <2> QED
    BY <2>1 DEF ToUShort, UShortWidth
<1>3. NoPort \in UShorts
  BY DEF NoPort, UShorts, UShortWidth
<1> QED
  BY <1>1, <1>2, <1>3

(* What a line makes of parameters that fit their types: they still do, and   *)
(* the number, if it gives one, is that one cut to its width.                 *)
LEMMA SetFits ==
  ASSUME NEW params, DOMAIN params = Options,
         \A option \in Numbers : params[option] \in UShorts,
         params["LOG_LEVEL"] \in Levels,
         NEW line \in Lines, ~Throws(line)
  PROVE  /\ DOMAIN Set(params, line) = Options
         /\ \A option \in Numbers : Set(params, line)[option] \in UShorts
         /\ Set(params, line)["LOG_LEVEL"] \in Levels
         /\ line.option \in Numbers => line.value \in Nat
         /\ \A option \in Numbers :
              Set(params, line)[option] = IF option = line.option
                                          THEN ToUShort(line.value) ELSE params[option]
<1>1. CASE line.option = None
  <2>1. line.option \notin Numbers
    BY <1>1 DEF None, Numbers
  <2> QED
    BY <1>1, <2>1 DEF Set
<1>2. CASE line.option # None
  <2> DEFINE value == IF line.option \in Numbers THEN ToUShort(line.value) ELSE line.value
  <2>1. Set(params, line) = [params EXCEPT ![line.option] = value]
    BY <1>2 DEF Set
  <2>2. line.option \in Options
    BY <1>2 DEF Throws
  <2>3. line.option \in Numbers => line.value \in Nat
    BY LinesAssumption DEF Throws
  <2>4. line.option \in Numbers =>
          value = ToUShort(line.value) /\ value \in UShorts
    BY <2>3, ToUShortFits
  <2>5. "LOG_LEVEL" \in Options /\ "LOG_LEVEL" \notin Numbers /\ Numbers \subseteq Options
    BY DEF Options, Numbers
  <2>6. line.option = "LOG_LEVEL" => value \in Levels
    BY <2>5 DEF Throws
  <2> HIDE DEF value
  <2>7. /\ DOMAIN Set(params, line) = Options
        /\ \A option \in Options :
             Set(params, line)[option] = IF option = line.option THEN value ELSE params[option]
    BY <2>1, <2>2
  <2> QED
    BY <2>2, <2>3, <2>4, <2>5, <2>6, <2>7
<1> QED
  BY <1>1, <1>2

-----------------------------------------------------------------------------
LEMMA InitIInv == Init => IInv
<1> SUFFICES ASSUME Init
             PROVE  IInv
  OBVIOUS
<1>1. TypeOK
  <2>1. 0 \in UShorts /\ 0 \in 0 .. maxConnCount /\ UShorts \subseteq Nat
    BY DEF UShorts, UShortWidth, maxConnCount
  <2> QED
    BY <2>1, DefaultsFit DEF Init, TypeOK, Stages, NoPort, Levels
<1>2. NumbersAreConfigured
  <2>1. \A number \in Numbers : Defaults[number] = ToUShort(Defaults[number])
    BY DefaultsFit, ToUShortFits
  <2> QED
    BY <2>1 DEF Init, NumbersAreConfigured
<1>3. Sessions
  BY <1>2, DefaultsFit DEF Init, Sessions, CountInLimits, PoolGrows, Count
<1>4. Ports /\ PidFile
  BY DEF Init, Ports, PortIsBound, PortIsOwned, PidFile, AloneIsAlone, PidFileIsOwned,
         CleanIsOver, Stages, Serving, Owning, Over
<1> QED
  BY <1>1, <1>3, <1>4 DEF IInv

-----------------------------------------------------------------------------
(* ReadConfigFile: what a line leaves fits its types, and the count is what    *)
(* the line gave, cut to its width.                                           *)
LEMMA ReadLineNext ==
  ASSUME IInv, NEW p \in Processes, ReadLine(p)
  PROVE  TypeOK' /\ Sessions'
<1>0. TypeOK /\ Sessions
  BY DEF IInv
<1>1. /\ pc[p] = "config" /\ pc' \in [Processes -> Stages \cup {"none", "gone"}]
      /\ UNCHANGED <<workers, handling, shutdownInProgress, hostVars, overlapped, clean>>
  BY <1>0 DEF ReadLine, Exit, Goto, TypeOK, Stages
<1>2. ASSUME NEW line \in Lines, ~Throws(line), UNCHANGED pc,
             config' = [config EXCEPT ![p] = Set(config[p], line)],
             configured' = IF line.option \in Numbers
                           THEN [configured EXCEPT ![p][line.option] = line.value]
                           ELSE configured
      PROVE  TypeOK' /\ Sessions'
  <2> DEFINE params == Set(config[p], line)
             given  == [configured[p] EXCEPT ![line.option] = line.value]
  <2>1. /\ DOMAIN params = Options
        /\ \A option \in Numbers : params[option] \in UShorts
        /\ params["LOG_LEVEL"] \in Levels
        /\ line.option \in Numbers => line.value \in Nat
        /\ \A option \in Numbers :
             params[option] = IF option = line.option THEN ToUShort(line.value)
                              ELSE config[p][option]
    BY <1>0, <1>2, SetFits DEF TypeOK
  <2>2. config' = [config EXCEPT ![p] = params]
    BY <1>2
  <2>3. configured' = IF line.option \in Numbers THEN [configured EXCEPT ![p] = given]
                      ELSE configured
    BY <1>0, <1>2 DEF TypeOK
  <2>4. line.option \in Numbers =>
          /\ given \in [Numbers -> Nat]
          /\ \A number \in Numbers :
               given[number] = IF number = line.option THEN line.value
                               ELSE configured[p][number]
    BY <1>0, <2>1 DEF TypeOK
  <2> HIDE DEF params, given
  <2>5. configured' \in [Processes -> [Numbers -> Nat]]
    BY <1>0, <2>3, <2>4 DEF TypeOK
  <2>6. TypeOK'
    BY <1>0, <1>1, <1>2, <2>1, <2>2, <2>5 DEF TypeOK, hostVars
  <2>7. NumbersAreConfigured'
    <3> SUFFICES ASSUME NEW q \in Processes, NEW number \in Numbers
                 PROVE  config'[q][number] = ToUShort(configured'[q][number])
      BY DEF NumbersAreConfigured
    <3>1. config[q][number] = ToUShort(configured[q][number])
      BY <1>0 DEF Sessions, NumbersAreConfigured
    <3>2. CASE q # p
      <4>1. config'[q] = config[q] /\ configured'[q] = configured[q]
        BY <1>0, <2>2, <2>3, <3>2 DEF TypeOK
      <4> QED
        BY <3>1, <4>1
    <3>3. CASE q = p
      <4>1. config'[q] = params
        BY <1>0, <2>2, <3>3 DEF TypeOK
      <4>2. configured'[q] = IF line.option \in Numbers THEN given ELSE configured[p]
        BY <1>0, <2>3, <3>3 DEF TypeOK
      <4> QED
        BY <2>1, <2>4, <3>1, <3>3, <4>1, <4>2
    <3> QED
      BY <3>2, <3>3
  <2>8. CountInLimits' /\ PoolGrows'
    <3>1. \A q \in Processes : q # p => Count(q)' = Count(q)
      BY <1>0, <2>2 DEF TypeOK, Count
    <3> QED
      BY <1>0, <1>1, <1>2, <3>1 DEF TypeOK, Sessions, CountInLimits, PoolGrows, hostVars
  <2> QED
    BY <2>6, <2>7, <2>8 DEF Sessions
<1>3. CASE Exit(p, "config") /\ UNCHANGED <<config, configured>>
  BY <1>0, <1>1, <1>3 DEF Exit, Goto, TypeOK, Sessions, CountInLimits,
     NumbersAreConfigured, PoolGrows, Stages, Count, hostVars
<1> QED
  BY <1>2, <1>3 DEF ReadLine

(* What bind is given is a port and nobody's. *)
LEMMA BindableArePorts ==
  ASSUME TypeOK, NEW p \in Processes, NEW port \in Bindable(p)
  PROVE  /\ port \in UShorts \ {NoPort}
         /\ port \in (IF Port(p) = NoPort THEN Ephemeral ELSE {Port(p)})
         /\ \A q \in Processes : bound[q] # port
<1>1. Port(p) \in UShorts
  BY DEF TypeOK, Port, Numbers
<1>2. /\ port \in (IF Port(p) = NoPort THEN Ephemeral ELSE {Port(p)})
      /\ \A q \in Processes : bound[q] # port
  BY DEF Bindable
<1>3. port \in UShorts \ {NoPort}
  BY <1>1, <1>2, EphemeralAssumption
<1> QED
  BY <1>2, <1>3

(* Types: the pool never has more threads than the count allows. *)
LEMMA TypeNext == ASSUME IInv, [Next]_vars PROVE TypeOK'
<1>0. TypeOK /\ Sessions /\ Ports /\ PidFile
  BY DEF IInv
<1>1. CASE UNCHANGED vars
  BY <1>0, <1>1 DEF vars, processVars, hostVars, historyVars, TypeOK, Stages, Count
<1>2. ASSUME NEW p \in Processes, Launch(p) \/ Step(p) \/ Signal(p)
      PROVE  TypeOK'
  <2>1. CASE Launch(p)
    BY <1>0, <2>1 DEF Launch, Goto, Alive, TypeOK, Stages, Count, processVars, hostVars,
       historyVars
  <2>2. CASE ReadLine(p)
    BY <2>2, ReadLineNext
  <2>3. CASE ValidateParams(p)
    BY <1>0, <2>3 DEF ValidateParams, Exit, Goto, TypeOK, Stages, Count, processVars,
       hostVars, historyVars
  <2>4. CASE WritePid(p)
    BY <1>0, <2>4 DEF WritePid, Goto, TypeOK, Stages, Count, processVars, hostVars,
       historyVars
  <2>5. CASE InitializeLog(p)
    BY <1>0, <2>5 DEF InitializeLog, Goto, TypeOK, Stages, Count, processVars, hostVars,
       historyVars
  <2>6. CASE InitializePool(p)
    <3>1. pc[p] = "pool" /\ Count(p) \in minConnCount .. maxConnCount
      BY <1>0, <2>6 DEF InitializePool, Exit, Goto, Sessions, CountInLimits
    <3>2. workers' \in [Processes -> 0 .. maxConnCount]
      BY <1>0, <3>1, <2>6 DEF InitializePool, TypeOK, maxConnCount, minConnCount
    <3> QED
      BY <1>0, <3>2, <2>6 DEF InitializePool, Exit, Goto, TypeOK, Stages, Count,
         hostVars, historyVars
  <2>7. CASE InitializeServer(p)
    <3>1. bound' \in [Processes -> UShorts]
      BY <1>0, <2>7, BindableArePorts DEF InitializeServer, TypeOK
    <3> QED
      BY <1>0, <3>1, <2>7 DEF InitializeServer, Exit, Goto, TypeOK, Stages, historyVars
  <2>8. CASE InstallHandlers(p)
    BY <1>0, <2>8 DEF InstallHandlers, Goto, TypeOK, Stages, Count, processVars,
       hostVars, historyVars
  <2>9. CASE CallRun(p)
    BY <1>0, <2>9 DEF CallRun, Goto, TypeOK, Stages, Count, processVars, hostVars,
       historyVars
  <2>10. CASE RunReturns(p)
    BY <1>0, <2>10 DEF RunReturns, Goto, TypeOK, Stages, Count, processVars, hostVars,
       historyVars
  <2>11. CASE DestroyPool(p)
    BY <1>0, <2>11 DEF DestroyPool, Goto, TypeOK, Stages, Count, maxConnCount,
       processVars, hostVars, historyVars
  <2>12. CASE RemovePid(p)
    BY <1>0, <2>12 DEF RemovePid, Goto, TypeOK, Stages, Count, processVars, hostVars,
       historyVars
  <2>13. CASE DestroyServer(p)
    BY <1>0, <2>13, ToUShortFits DEF DestroyServer, Goto, TypeOK, Stages, Count,
       processVars, hostVars, historyVars
  <2>14. CASE DestroyLog(p)
    BY <1>0, <2>14 DEF DestroyLog, Goto, TypeOK, Stages, Count, maxConnCount,
       processVars, hostVars, historyVars
  <2>15. CASE Signal(p)
    <3>1. pc' \in [Processes -> Stages \cup {"none", "gone"}]
      BY <1>0, <2>15 DEF Signal, TypeOK
    <3>2. shutdownInProgress' \in [Processes -> BOOLEAN]
      BY <1>0, <2>15 DEF Signal, TypeOK
    <3>3. workers' \in [Processes -> 0 .. maxConnCount]
      BY <1>0, <2>15 DEF Signal, TypeOK, maxConnCount
    <3>4. bound' \in [Processes -> UShorts]
      BY <1>0, <2>15, ToUShortFits DEF Signal, TypeOK
    <3> QED
      BY <1>0, <3>1, <3>2, <3>3, <3>4, <2>15 DEF Signal, TypeOK, Count, historyVars
  <2>16. CASE RunBlocks(p)
    BY <1>0, <2>16 DEF RunBlocks, Goto, TypeOK, Stages, processVars, hostVars, historyVars
  <2>17. CASE RunUnblocks(p)
    BY <1>0, <2>17 DEF RunUnblocks, Goto, TypeOK, Stages, processVars, hostVars, historyVars
  <2> QED
    BY <1>2, <2>1, <2>2, <2>3, <2>4, <2>5, <2>6, <2>7, <2>8, <2>9, <2>10, <2>11, <2>12,
       <2>13, <2>14, <2>15, <2>16, <2>17 DEF Step
<1> QED
  BY <1>1, <1>2 DEF Next

(* The sessions: the pool is built of what was validated. *)
LEMMA SessionsNext == ASSUME IInv, [Next]_vars PROVE Sessions'
<1>0. TypeOK /\ Sessions /\ Ports /\ PidFile
  BY DEF IInv
<1>1. CASE UNCHANGED vars
  BY <1>0, <1>1 DEF vars, processVars, hostVars, historyVars, TypeOK, Sessions,
     CountInLimits, NumbersAreConfigured, PoolGrows, Count
<1>2. ASSUME NEW p \in Processes, Launch(p) \/ Step(p) \/ Signal(p)
      PROVE  Sessions'
  <2>1. CASE Launch(p)
    BY <1>0, <2>1 DEF Launch, Goto, Alive, TypeOK, Sessions, CountInLimits,
       NumbersAreConfigured, PoolGrows, Count, processVars, hostVars, historyVars
  <2>2. CASE ReadLine(p)
    BY <2>2, ReadLineNext
  <2>3. CASE ValidateParams(p)
    <3>1. /\ pc[p] = "config" /\ pc \in [Processes -> Stages \cup {"none", "gone"}]
          /\ UNCHANGED <<config, workers, configured>>
          /\ \/ pc' = [pc EXCEPT ![p] = "pid"] /\ Count(p) \in minConnCount .. maxConnCount
             \/ pc' = [pc EXCEPT ![p] = "destroyServer"]
      BY <1>0, <2>3 DEF ValidateParams, Valid, Exit, Goto, TypeOK, Count, historyVars
    <3> QED
      BY <1>0, <3>1 DEF Sessions, CountInLimits, NumbersAreConfigured, PoolGrows, Count
  <2>4. CASE WritePid(p)
    BY <1>0, <2>4 DEF WritePid, Goto, TypeOK, Sessions, CountInLimits,
       NumbersAreConfigured, PoolGrows, Count, processVars, hostVars, historyVars
  <2>5. CASE InitializeLog(p)
    BY <1>0, <2>5 DEF InitializeLog, Goto, TypeOK, Sessions, CountInLimits,
       NumbersAreConfigured, PoolGrows, Count, minConnCount, processVars, hostVars,
       historyVars
  <2>6. CASE InitializePool(p)
    BY <1>0, <2>6 DEF InitializePool, Exit, Goto, TypeOK, Sessions, CountInLimits,
       NumbersAreConfigured, PoolGrows, Count, processVars, hostVars, historyVars
  <2>7. CASE InitializeServer(p)
    BY <1>0, <2>7 DEF InitializeServer, Exit, Goto, TypeOK, Sessions, CountInLimits,
       NumbersAreConfigured, PoolGrows, Count, processVars, hostVars, historyVars
  <2>8. CASE InstallHandlers(p)
    BY <1>0, <2>8 DEF InstallHandlers, Goto, TypeOK, Sessions, CountInLimits,
       NumbersAreConfigured, PoolGrows, Count, processVars, hostVars, historyVars
  <2>9. CASE CallRun(p)
    BY <1>0, <2>9 DEF CallRun, Goto, TypeOK, Sessions, CountInLimits, NumbersAreConfigured,
       PoolGrows, Count, processVars, hostVars, historyVars
  <2>10. CASE RunReturns(p)
    BY <1>0, <2>10 DEF RunReturns, Goto, TypeOK, Sessions, CountInLimits,
       NumbersAreConfigured, PoolGrows, Count, processVars, hostVars, historyVars
  <2>11. CASE DestroyPool(p)
    BY <1>0, <2>11 DEF DestroyPool, Goto, TypeOK, Sessions, CountInLimits,
       NumbersAreConfigured, PoolGrows, Count, processVars, hostVars, historyVars
  <2>12. CASE RemovePid(p)
    BY <1>0, <2>12 DEF RemovePid, Goto, TypeOK, Sessions, CountInLimits,
       NumbersAreConfigured, PoolGrows, Count, processVars, hostVars, historyVars
  <2>13. CASE DestroyServer(p)
    BY <1>0, <2>13 DEF DestroyServer, Goto, TypeOK, Sessions, CountInLimits,
       NumbersAreConfigured, PoolGrows, Count, processVars, hostVars, historyVars
  <2>14. CASE DestroyLog(p)
    BY <1>0, <2>14 DEF DestroyLog, Goto, TypeOK, Sessions, CountInLimits,
       NumbersAreConfigured, PoolGrows, Count, processVars, hostVars, historyVars
  <2>15. CASE Signal(p)
    BY <1>0, <2>15 DEF Signal, Alive, TypeOK, Sessions, CountInLimits,
       NumbersAreConfigured, PoolGrows, Count, processVars, hostVars, historyVars
  <2>16. CASE RunBlocks(p)
    BY <1>0, <2>16 DEF RunBlocks, Goto, TypeOK, Sessions, CountInLimits, NumbersAreConfigured,
                       PoolGrows, Count, processVars, hostVars, historyVars
  <2>17. CASE RunUnblocks(p)
    BY <1>0, <2>17 DEF RunUnblocks, Goto, TypeOK, Sessions, CountInLimits, NumbersAreConfigured,
                       PoolGrows, Count, processVars, hostVars, historyVars
  <2> QED
    BY <1>2, <2>1, <2>2, <2>3, <2>4, <2>5, <2>6, <2>7, <2>8, <2>9, <2>10, <2>11, <2>12,
       <2>13, <2>14, <2>15, <2>16, <2>17 DEF Step
<1> QED
  BY <1>1, <1>2 DEF Next

(* The ports: bind takes one only from nobody, and it is the configured one,   *)
(* which nothing sets after the file is read.                                 *)
LEMMA PortsNext == ASSUME IInv, [Next]_vars PROVE Ports'
<1>0. TypeOK /\ Ports
  BY DEF IInv
<1>1. CASE UNCHANGED vars
  BY <1>0, <1>1 DEF vars, Ports, PortIsBound, PortIsOwned, Port, Serving, processVars, hostVars,
                    historyVars
<1>2. ASSUME NEW p \in Processes, Launch(p) \/ Step(p) \/ Signal(p)
      PROVE  Ports'
  <2>1. CASE ReadLine(p)
    <3>1. /\ pc[p] = "config" /\ bound' = bound
          /\ pc' = pc \/ pc' = [pc EXCEPT ![p] = "destroyServer"]
      BY <2>1 DEF ReadLine, Exit, Goto, hostVars
    <3>2. \A q \in Processes : q # p => Port(q)' = Port(q)
      BY <1>0, <2>1 DEF ReadLine, TypeOK, Port
    <3> QED
      BY <1>0, <3>1, <3>2 DEF TypeOK, Ports, PortIsBound, PortIsOwned, Serving
  <2>2. CASE InitializeServer(p)
    <3>1. UNCHANGED config
      BY <2>2 DEF InitializeServer
    <3>2. ASSUME NEW port \in Bindable(p), Goto(p, "bind", "handlers"),
                 bound' = [bound EXCEPT ![p] = port]
          PROVE  Ports'
      BY <1>0, <3>1, <3>2, BindableArePorts
         DEF Goto, TypeOK, Ports, PortIsBound, PortIsOwned, Port, Serving
    <3>3. CASE Exit(p, "bind") /\ UNCHANGED bound
      BY <1>0, <3>1, <3>3
         DEF Exit, Goto, TypeOK, Ports, PortIsBound, PortIsOwned, Port, Serving
    <3> QED
      BY <2>2, <3>2, <3>3 DEF InitializeServer
  <2>3. CASE Launch(p)
    BY <1>0, <2>3 DEF Launch, Goto, Alive, TypeOK, Ports, PortIsBound, PortIsOwned, Port,
                      Serving, processVars, hostVars, historyVars
  <2>4. CASE ValidateParams(p)
    BY <1>0, <2>4 DEF ValidateParams, Exit, Goto, TypeOK, Ports, PortIsBound, PortIsOwned, Port,
                      Serving, processVars, hostVars, historyVars
  <2>5. CASE WritePid(p)
    BY <1>0, <2>5 DEF WritePid, Goto, TypeOK, Ports, PortIsBound, PortIsOwned, Port, Serving,
                      processVars, hostVars, historyVars
  <2>6. CASE InitializeLog(p)
    BY <1>0, <2>6 DEF InitializeLog, Goto, TypeOK, Ports, PortIsBound, PortIsOwned, Port,
                      Serving, processVars, hostVars, historyVars
  <2>7. CASE InitializePool(p)
    BY <1>0, <2>7 DEF InitializePool, Exit, Goto, TypeOK, Ports, PortIsBound, PortIsOwned, Port,
                      Serving, processVars, hostVars, historyVars
  <2>8. CASE InstallHandlers(p)
    BY <1>0, <2>8 DEF InstallHandlers, Goto, TypeOK, Ports, PortIsBound, PortIsOwned, Port,
                      Serving, processVars, hostVars, historyVars
  <2>9. CASE CallRun(p)
    BY <1>0, <2>9 DEF CallRun, Goto, TypeOK, Ports, PortIsBound, PortIsOwned, Port, Serving,
                      processVars, hostVars, historyVars
  <2>10. CASE RunBlocks(p)
    BY <1>0, <2>10 DEF RunBlocks, Goto, TypeOK, Ports, PortIsBound, PortIsOwned, Port, Serving,
                       processVars, hostVars, historyVars
  <2>11. CASE RunUnblocks(p)
    BY <1>0, <2>11 DEF RunUnblocks, Goto, TypeOK, Ports, PortIsBound, PortIsOwned, Port,
                       Serving, processVars, hostVars, historyVars
  <2>12. CASE RunReturns(p)
    BY <1>0, <2>12 DEF RunReturns, Goto, TypeOK, Ports, PortIsBound, PortIsOwned, Port, Serving,
                       processVars, hostVars, historyVars
  <2>13. CASE DestroyPool(p)
    BY <1>0, <2>13 DEF DestroyPool, Goto, TypeOK, Ports, PortIsBound, PortIsOwned, Port,
                       Serving, processVars, hostVars, historyVars
  <2>14. CASE RemovePid(p)
    BY <1>0, <2>14 DEF RemovePid, Goto, TypeOK, Ports, PortIsBound, PortIsOwned, Port, Serving,
                       processVars, hostVars, historyVars
  <2>15. CASE DestroyServer(p)
    BY <1>0, <2>15 DEF DestroyServer, Goto, TypeOK, Ports, PortIsBound, PortIsOwned, Port,
                       Serving, processVars, hostVars, historyVars
  <2>16. CASE DestroyLog(p)
    BY <1>0, <2>16 DEF DestroyLog, Goto, TypeOK, Ports, PortIsBound, PortIsOwned, Port, Serving,
                       processVars, hostVars, historyVars
  <2>17. CASE Signal(p)
    <3>1. UNCHANGED config
      BY <2>17 DEF Signal
    <3>2. CASE UNCHANGED <<pc, bound>>
      BY <1>0, <3>1, <3>2 DEF Ports, PortIsBound, PortIsOwned, Port
    <3>3. CASE /\ pc' = [pc EXCEPT ![p] = "gone"]
               /\ bound' = [bound EXCEPT ![p] = NoPort]
      BY <1>0, <3>1, <3>3 DEF TypeOK, Ports, PortIsBound, PortIsOwned, Port, Serving
    <3> QED
      BY <2>17, <3>2, <3>3 DEF Signal
  <2> QED
    BY <1>2, <2>1, <2>2, <2>3, <2>4, <2>5, <2>6, <2>7, <2>8, <2>9, <2>10, <2>11, <2>12, <2>13, <2>14, <2>15, <2>16, <2>17 DEF 
        
        
        
        
        
        Step
<1> QED
  BY <1>1, <1>2 DEF Next

(* A step of a live process leaves the pid file right that does not touch it, *)
(* does not take the process to where it should own it, and does not take it  *)
(* back to before the end of main.                                            *)
LEMMA GoesOn ==
  ASSUME pc \in [Processes -> Stages \cup {"none", "gone"}], clean \subseteq Processes, PidFile,
         NEW p \in Processes, NEW to, pc[p] \in Stages, pc' = [pc EXCEPT ![p] = to],
         to \in Owning => pc[p] \in Owning, pc[p] \in Over => to \in Over,
         UNCHANGED <<pidFile, overlapped, clean>>
  PROVE  PidFile'
BY DEF PidFile, AloneIsAlone, PidFileIsOwned, CleanIsOver

(* The pid file: only a process that is not alone writes or removes another's. *)
LEMMA PidFileNext == ASSUME IInv, [Next]_vars PROVE PidFile'
<1>0. pc \in [Processes -> Stages \cup {"none", "gone"}] /\ clean \subseteq Processes /\ PidFile
  BY DEF IInv, TypeOK
<1>1. CASE UNCHANGED <<pc, pidFile, overlapped, clean>>
  BY <1>0, <1>1 DEF PidFile, AloneIsAlone, PidFileIsOwned, CleanIsOver
<1>2. ASSUME NEW p \in Processes, Launch(p) \/ Step(p) \/ Signal(p)
      PROVE  PidFile'
  <2>1. CASE Launch(p)
    BY <1>0, <2>1 DEF Launch, Goto, Alive, PidFile, AloneIsAlone, PidFileIsOwned, CleanIsOver,
                      Serving, Owning, Over, Stages, processVars, hostVars, historyVars
  <2>2. CASE WritePid(p)
    BY <1>0, <2>2 DEF WritePid, Goto, PidFile, AloneIsAlone, PidFileIsOwned, CleanIsOver,
                      Serving, Owning, Over, Stages, processVars, hostVars, historyVars
  <2>3. CASE RemovePid(p)
    BY <1>0, <2>3, NobodyAssumption DEF RemovePid, Goto, PidFile, AloneIsAlone, PidFileIsOwned,
                                        CleanIsOver, Serving, Owning, Over, Stages, processVars,
                                        hostVars, historyVars
  <2>4. CASE ReadLine(p)
    <3>1. /\ pc[p] = "config"
          /\ \/ UNCHANGED pc
             \/ pc' = [pc EXCEPT ![p] = "destroyServer"]
          /\ UNCHANGED <<pidFile, overlapped, clean>>
      BY <2>4 DEF ReadLine, Exit, Goto, hostVars, historyVars
    <3>2. /\ pc[p] \in Stages
          /\ "destroyServer" \in Owning => pc[p] \in Owning
          /\ pc[p] \in Over => "destroyServer" \in Over
      BY <3>1 DEF Serving, Owning, Over, Stages
    <3> QED
      BY <1>0, <1>1, <3>1, <3>2, GoesOn
  <2>5. CASE ValidateParams(p)
    <3>1. /\ pc[p] = "config"
          /\ \/ pc' = [pc EXCEPT ![p] = "pid"]
             \/ pc' = [pc EXCEPT ![p] = "destroyServer"]
          /\ UNCHANGED <<pidFile, overlapped, clean>>
      BY <2>5 DEF ValidateParams, Exit, Goto, hostVars, historyVars
    <3>2. /\ pc[p] \in Stages
          /\ "pid" \in Owning => pc[p] \in Owning
          /\ pc[p] \in Over => "pid" \in Over
          /\ "destroyServer" \in Owning => pc[p] \in Owning
          /\ pc[p] \in Over => "destroyServer" \in Over
      BY <3>1 DEF Serving, Owning, Over, Stages
    <3> QED
      BY <1>0, <3>1, <3>2, GoesOn
  <2>6. CASE InitializeLog(p)
    <3>1. /\ pc[p] = "log"
          /\ \/ pc' = [pc EXCEPT ![p] = "pool"]
             \/ pc' = [pc EXCEPT ![p] = "closing"]
          /\ UNCHANGED <<pidFile, overlapped, clean>>
      BY <2>6 DEF InitializeLog, Goto, hostVars, historyVars
    <3>2. /\ pc[p] \in Stages
          /\ "pool" \in Owning => pc[p] \in Owning
          /\ pc[p] \in Over => "pool" \in Over
          /\ "closing" \in Owning => pc[p] \in Owning
          /\ pc[p] \in Over => "closing" \in Over
      BY <3>1 DEF Serving, Owning, Over, Stages
    <3> QED
      BY <1>0, <3>1, <3>2, GoesOn
  <2>7. CASE InitializePool(p)
    <3>1. /\ pc[p] = "pool"
          /\ \/ UNCHANGED pc
             \/ pc' = [pc EXCEPT ![p] = "bind"]
             \/ pc' = [pc EXCEPT ![p] = "destroyServer"]
          /\ UNCHANGED <<pidFile, overlapped, clean>>
      BY <2>7 DEF InitializePool, Exit, Goto, hostVars, historyVars
    <3>2. /\ pc[p] \in Stages
          /\ "bind" \in Owning => pc[p] \in Owning
          /\ pc[p] \in Over => "bind" \in Over
          /\ "destroyServer" \in Owning => pc[p] \in Owning
          /\ pc[p] \in Over => "destroyServer" \in Over
      BY <3>1 DEF Serving, Owning, Over, Stages
    <3> QED
      BY <1>0, <1>1, <3>1, <3>2, GoesOn
  <2>8. CASE InitializeServer(p)
    <3>1. /\ pc[p] = "bind"
          /\ \/ pc' = [pc EXCEPT ![p] = "handlers"]
             \/ pc' = [pc EXCEPT ![p] = "destroyServer"]
          /\ UNCHANGED <<pidFile, overlapped, clean>>
      BY <2>8 DEF InitializeServer, Exit, Goto, hostVars, historyVars
    <3>2. /\ pc[p] \in Stages
          /\ "handlers" \in Owning => pc[p] \in Owning
          /\ pc[p] \in Over => "handlers" \in Over
          /\ "destroyServer" \in Owning => pc[p] \in Owning
          /\ pc[p] \in Over => "destroyServer" \in Over
      BY <3>1 DEF Serving, Owning, Over, Stages
    <3> QED
      BY <1>0, <3>1, <3>2, GoesOn
  <2>9. CASE InstallHandlers(p)
    <3>1. /\ pc[p] = "handlers"
          /\ pc' = [pc EXCEPT ![p] = "enter"]
          /\ UNCHANGED <<pidFile, overlapped, clean>>
      BY <2>9 DEF InstallHandlers, Goto, hostVars, historyVars
    <3>2. /\ pc[p] \in Stages
          /\ "enter" \in Owning => pc[p] \in Owning
          /\ pc[p] \in Over => "enter" \in Over
      BY <3>1 DEF Serving, Owning, Over, Stages
    <3> QED
      BY <1>0, <3>1, <3>2, GoesOn
  <2>10. CASE CallRun(p)
    <3>1. /\ pc[p] = "enter"
          /\ pc' = [pc EXCEPT ![p] = "run"]
          /\ UNCHANGED <<pidFile, overlapped, clean>>
      BY <2>10 DEF CallRun, Goto, hostVars, historyVars
    <3>2. /\ pc[p] \in Stages
          /\ "run" \in Owning => pc[p] \in Owning
          /\ pc[p] \in Over => "run" \in Over
      BY <3>1 DEF Serving, Owning, Over, Stages
    <3> QED
      BY <1>0, <3>1, <3>2, GoesOn
  <2>11. CASE RunBlocks(p)
    <3>1. /\ pc[p] = "run"
          /\ pc' = [pc EXCEPT ![p] = "blocked"]
          /\ UNCHANGED <<pidFile, overlapped, clean>>
      BY <2>11 DEF RunBlocks, Goto, hostVars, historyVars
    <3>2. /\ pc[p] \in Stages
          /\ "blocked" \in Owning => pc[p] \in Owning
          /\ pc[p] \in Over => "blocked" \in Over
      BY <3>1 DEF Serving, Owning, Over, Stages
    <3> QED
      BY <1>0, <3>1, <3>2, GoesOn
  <2>12. CASE RunUnblocks(p)
    <3>1. /\ pc[p] = "blocked"
          /\ pc' = [pc EXCEPT ![p] = "run"]
          /\ UNCHANGED <<pidFile, overlapped, clean>>
      BY <2>12 DEF RunUnblocks, Goto, hostVars, historyVars
    <3>2. /\ pc[p] \in Stages
          /\ "run" \in Owning => pc[p] \in Owning
          /\ pc[p] \in Over => "run" \in Over
      BY <3>1 DEF Serving, Owning, Over, Stages
    <3> QED
      BY <1>0, <3>1, <3>2, GoesOn
  <2>13. CASE RunReturns(p)
    <3>1. /\ pc[p] = "run"
          /\ pc' = [pc EXCEPT ![p] = "destroyPool"]
          /\ UNCHANGED <<pidFile, overlapped, clean>>
      BY <2>13 DEF RunReturns, Goto, hostVars, historyVars
    <3>2. /\ pc[p] \in Stages
          /\ "destroyPool" \in Owning => pc[p] \in Owning
          /\ pc[p] \in Over => "destroyPool" \in Over
      BY <3>1 DEF Serving, Owning, Over, Stages
    <3> QED
      BY <1>0, <3>1, <3>2, GoesOn
  <2>14. CASE DestroyPool(p)
    <3>1. /\ pc[p] = "destroyPool"
          /\ pc' = [pc EXCEPT ![p] = "closing"]
          /\ UNCHANGED <<pidFile, overlapped, clean>>
      BY <2>14 DEF DestroyPool, Goto, hostVars, historyVars
    <3>2. /\ pc[p] \in Stages
          /\ "closing" \in Owning => pc[p] \in Owning
          /\ pc[p] \in Over => "closing" \in Over
      BY <3>1 DEF Serving, Owning, Over, Stages
    <3> QED
      BY <1>0, <3>1, <3>2, GoesOn
  <2>15. CASE DestroyServer(p)
    <3>1. /\ pc[p] = "destroyServer"
          /\ pc' = [pc EXCEPT ![p] = "destroyLog"]
          /\ UNCHANGED <<pidFile, overlapped, clean>>
      BY <2>15 DEF DestroyServer, Goto, hostVars, historyVars
    <3>2. /\ pc[p] \in Stages
          /\ "destroyLog" \in Owning => pc[p] \in Owning
          /\ pc[p] \in Over => "destroyLog" \in Over
      BY <3>1 DEF Serving, Owning, Over, Stages
    <3> QED
      BY <1>0, <3>1, <3>2, GoesOn
  <2>16. CASE DestroyLog(p)
    <3>1. /\ pc[p] = "destroyLog"
          /\ pc' = [pc EXCEPT ![p] = "gone"]
          /\ UNCHANGED <<pidFile, overlapped, clean>>
      BY <2>16 DEF DestroyLog, Goto, hostVars, historyVars
    <3>2. /\ pc[p] \in Stages
          /\ "gone" \in Owning => pc[p] \in Owning
          /\ pc[p] \in Over => "gone" \in Over
      BY <3>1 DEF Serving, Owning, Over, Stages
    <3> QED
      BY <1>0, <3>1, <3>2, GoesOn
  <2>17. CASE Signal(p)
    <3>1. /\ pc[p] \in Stages
          /\ \/ UNCHANGED pc
             \/ pc' = [pc EXCEPT ![p] = "gone"]
          /\ UNCHANGED <<pidFile, overlapped, clean>>
      BY <2>17 DEF Signal, Alive, hostVars, historyVars
    <3>2. "gone" \notin Owning /\ "gone" \in Over
      BY DEF Serving, Owning, Over
    <3> QED
      BY <1>0, <1>1, <3>1, <3>2, GoesOn
  <2> QED
    BY <1>2, <2>1, <2>2, <2>3, <2>4, <2>5, <2>6, <2>7, <2>8, <2>9, <2>10, <2>11, <2>12, <2>13, <2>14, <2>15, <2>16, <2>17 DEF 
        
        Step
<1>3. CASE UNCHANGED vars
  BY <1>1, <1>3 DEF vars, processVars, hostVars, historyVars
<1> QED
  BY <1>2, <1>3 DEF Next

LEMMA IInvAlways == Spec => []IInv
<1>1. IInv /\ [Next]_vars => IInv'
  BY TypeNext, SessionsNext, PortsNext, PidFileNext DEF IInv
<1> QED
  BY <1>1, InitIInv, PTL DEF Spec

(* The process's and the host's variables keep their types: no pool grows     *)
(* beyond maxConnCount, whatever the configuration file says.                 *)
THEOREM TypeCorrect == Spec => []TypeOK
<1>1. IInv => TypeOK
  BY DEF IInv
<1> QED
  BY <1>1, IInvAlways, PTL

(* A program in Server::Run has the pool that its configuration file asked    *)
(* for, if the count fits in connectionCount's 16 bits, and within the limits *)
(* if not: no file makes ReadConfigFile and ValidateParams accept another.    *)
THEOREM SessionsFit == Spec => []SessionsAsConfigured
<1>1. ASSUME IInv
      PROVE  SessionsAsConfigured
  <2> DEFINE count(p) == configured[p]["CONNECTION_COUNT"]
  <2> SUFFICES ASSUME NEW p \in Processes, pc[p] \in {"run", "blocked"}
               PROVE  /\ workers[p] \in minConnCount .. maxConnCount
                      /\ count(p) \in UShorts => workers[p] = count(p)
    BY DEF SessionsAsConfigured
  <2>1. workers[p] = Count(p) /\ Count(p) \in minConnCount .. maxConnCount
    BY <1>1 DEF IInv, Sessions, PoolGrows, CountInLimits
  <2>2. Count(p) = ToUShort(count(p)) /\ count(p) \in Nat
    BY <1>1 DEF IInv, TypeOK, Sessions, NumbersAreConfigured, Count, Numbers
  <2> QED
    BY <2>1, <2>2, ToUShortFits
<1> QED
  BY <1>1, IInvAlways, PTL

(* A program between bind and the end of the server's list is bound to the    *)
(* port that its file gives last, if that is a port, and to no other such     *)
(* program's: the kernel gives a port to one, and only its owner frees it.    *)
THEOREM PortIsAsConfigured == Spec => []ServesWhereConfigured
<1>1. ASSUME IInv
      PROVE  ServesWhereConfigured
  <2> DEFINE port(p) == configured[p]["SERVER_PORT"]
  <2> SUFFICES ASSUME NEW p \in Processes, pc[p] \in Serving
               PROVE  /\ bound[p] # NoPort
                      /\ port(p) \in UShorts \ {NoPort} => bound[p] = port(p)
                      /\ \A q \in Processes \ {p} : pc[q] \in Serving => bound[q] # bound[p]
    BY DEF ServesWhereConfigured
  <2>1. /\ bound[p] \in (IF Port(p) = NoPort THEN Ephemeral ELSE {Port(p)})
        /\ \A q \in Processes : bound[p] = bound[q] /\ bound[p] # NoPort => p = q
    BY <1>1 DEF IInv, Ports, PortIsBound, PortIsOwned
  <2>2. Port(p) = ToUShort(port(p)) /\ port(p) \in Nat
    BY <1>1 DEF IInv, TypeOK, Sessions, NumbersAreConfigured, Port, Numbers
  <2>3. bound[p] # NoPort
    BY <2>1, EphemeralAssumption
  <2>4. ASSUME port(p) \in UShorts \ {NoPort}
        PROVE  Port(p) = port(p) /\ Port(p) # NoPort
    BY <2>2, <2>4, ToUShortFits
  <2> QED
    BY <2>1, <2>3, <2>4
<1> QED
  BY <1>1, IInvAlways, PTL

(* main writes and removes the pid file unread: it tells the truth about any  *)
(* process that has always been the only one.                                 *)
THEOREM PidFileIsTrue == Spec => []PidFileTellsTruth
<1>1. IInv => PidFileTellsTruth
  BY DEF IInv, PidFile, PidFileIsOwned, PidFileTellsTruth, Serving, Owning
<1> QED
  BY <1>1, IInvAlways, PTL

=============================================================================
