--------------------------------- MODULE App ---------------------------------
(***************************************************************************)
(* The life of the process (appStart in cmd/proxygate/app.go): loading the *)
(* settings, starting the services and undoing that when one of them fails, *)
(* the three reasons to stop, the steps of the shutdown, and what follows: *)
(* an exit, or the same program executed again.  Requests of the web       *)
(* interface are under way meanwhile, and the process may be killed at any *)
(* step.  Files and the sessions in the users' browsers outlive it.        *)
(***************************************************************************)
EXTENDS ConfigStore, Sequences

CONSTANTS
  Kills,                  \* whether the process may be killed
  MaxBoots, MaxRestarts   \* bounds on the boots and on service restarts

ASSUME AppAssumption == Kills \in BOOLEAN /\ MaxBoots \in Nat /\ MaxRestarts \in Nat

VARIABLES
  proc,        \* where appStart is
  boots,
  started,     \* how many of the services are in appStart's list
  up,          \* services started and not stopped; also one that has ended by itself
  background,  \* the two goroutines that appStart waits for
  manager, db, \* whether they are open
  restarting,  \* Server.restarting
  restart,     \* a request is in the channel
  reason,      \* why appStart leaves
  failed,      \* a step of the shutdown has failed
  call,        \* the request to restart a service that a user has under way
  restarts

Services == <<"socks5", "speedtest", "healthcheck">>
ServiceNames == {Services[i] : i \in DOMAIN Services}
owned == <<started, up, background, manager, db>>
ending == <<restarting, restart, reason, failed>>
calls == <<call, restarts>>
vars == <<store, proc, boots, owned, ending, calls>>

NoCall == [step |-> "none", service |-> Services[1]]

Init ==
  /\ StoreInit
  /\ proc = "down" /\ boots = 0 /\ started = 0 /\ up = {} /\ background = {}
  /\ manager = FALSE /\ db = FALSE
  /\ restarting = FALSE /\ restart = FALSE /\ reason = "none" /\ failed = FALSE
  /\ call = [u \in Users |-> NoCall] /\ restarts = 0

Goto(place) == proc' = place
-----------------------------------------------------------------------------
(* From the start of the process to the select.                             *)

Boot ==
  /\ proc = "down" /\ boots < MaxBoots
  /\ boots' = boots + 1 /\ Goto("load")
  /\ UNCHANGED <<store, owned, ending, calls>>

\* load: settings that cannot be decoded end the process; without a file, the
\* defaults are saved first.
Load ==
  /\ proc = "load"
  /\ Goto(CASE file = Absent -> "first" [] file = Torn -> "end" [] OTHER -> "open")
  /\ memory' = IF file \in Settings THEN file ELSE memory
  /\ IF file = Absent THEN At(Main, "save") ELSE UNCHANGED <<put, draft>>
  /\ UNCHANGED <<disk, puts, cookie, reported, boots, owned, ending, calls>>

FirstRun ==
  /\ proc = "first"
  /\ \/ Save(Main) /\ UNCHANGED proc
     \/ put[Main] = "idle" /\ Goto(IF memory = Absent THEN "end" ELSE "open") /\ UNCHANGED store
  /\ UNCHANGED <<boots, owned, ending, calls>>

\* store.Open and executablePath, each of which may fail; NewManager.
OpenDatabase ==
  /\ proc = "open"
  /\ \/ Goto("start") /\ db' = TRUE /\ manager' = TRUE
     \/ Goto("end") /\ UNCHANGED <<db, manager>>
  /\ UNCHANGED <<store, boots, started, up, background, ending, calls>>

\* The services start in their order; when one fails, those in the list are
\* stopped again.  Then the goroutines and the web server start.
StartService ==
  /\ proc = "start"
  /\ \/ /\ started < Len(Services)
        /\ \/ /\ up' = up \cup {Services[started + 1]} /\ started' = started + 1
              /\ UNCHANGED <<proc, reason>>
           \/ Goto("services") /\ reason' = "start" /\ UNCHANGED <<started, up>>
        /\ UNCHANGED background
     \/ /\ started = Len(Services) /\ Goto("run")
        /\ background' = {"connect", "refresh"} /\ UNCHANGED <<started, up, reason>>
  /\ UNCHANGED <<store, boots, manager, db, restarting, restart, failed, calls>>
-----------------------------------------------------------------------------
(* What goes on while the process runs.                                     *)

\* Requests to the web interface; none is accepted after the server stops.
Request(u) ==
  /\ proc = "run" /\ (Login(u) \/ Logout(u) \/ PutConfig(u))
  /\ UNCHANGED <<proc, boots, owned, ending, calls>>

HandlePut(u) ==
  /\ Save(u)
  /\ UNCHANGED <<proc, boots, owned, ending, calls>>

\* restartService: Stop, which may run into its timeout, then Start, which may
\* fail.
RestartService(u) ==
  /\ proc = "run" /\ call[u] = NoCall /\ put[u] = "idle" /\ Verify(cookie[u])
  /\ restarts < MaxRestarts /\ restarts' = restarts + 1
  /\ \E s \in ServiceNames : call' = [call EXCEPT ![u] = [step |-> "stop", service |-> s]]
  /\ UNCHANGED <<store, proc, boots, owned, ending>>

HandleRestart(u) ==
  /\ \/ /\ call[u].step = "stop" /\ up' = up \ {call[u].service}
        /\ call' = [call EXCEPT ![u].step = "start"]
     \/ /\ call[u].step = "start" /\ up' = up \cup {call[u].service}
        /\ call' = [call EXCEPT ![u] = NoCall]
     \/ call[u] # NoCall /\ call' = [call EXCEPT ![u] = NoCall] /\ UNCHANGED up
  /\ UNCHANGED <<store, proc, boots, started, background, manager, db, ending, restarts>>

\* manager.Start returns when it has connected or failed, refresher.Run when
\* the context is done.
BackgroundEnds(b) ==
  /\ b \in background /\ (b = "connect" \/ proc # "run")
  /\ background' = background \ {b}
  /\ UNCHANGED <<store, proc, boots, started, up, manager, db, ending, calls>>

\* restartApplication.  The channel has room: nobody resets the flag, so only
\* one request gets this far.
RestartApplication(u) ==
  /\ proc = "run" /\ Verify(cookie[u]) /\ ~restarting /\ boots < MaxBoots
  /\ restarting' = TRUE /\ restart' = TRUE /\ boots' = boots + 1
  /\ UNCHANGED <<store, proc, owned, reason, failed, calls>>
-----------------------------------------------------------------------------
(* The shutdown.                                                            *)

\* The select takes one of what is ready.
TakeRestart ==
  /\ proc = "run" /\ restart
  /\ Goto("http") /\ restart' = FALSE /\ reason' = "restart"
  /\ UNCHANGED <<store, boots, owned, restarting, failed, calls>>

\* A signal, or the web server has stopped; they differ in the exit status.
Leave ==
  /\ proc = "run"
  /\ Goto("http") /\ reason' = "leave"
  /\ UNCHANGED <<store, boots, owned, restarting, restart, failed, calls>>

Handling == {u \in Users : put[u] # "idle" \/ call[u] # NoCall}

\* Mutant: the server is told to stop, and nobody waits for its requests.
StopHttpAtOnce ==
  /\ proc = "http" /\ Goto("services") /\ UNCHANGED failed
  /\ UNCHANGED <<store, boots, owned, restarting, restart, reason, calls>>

\* Mutant: the requests are awaited without a timeout.
StopHttpPatiently ==
  /\ proc = "http" /\ Goto("services") /\ Handling = {} /\ UNCHANGED failed
  /\ UNCHANGED <<store, boots, owned, restarting, restart, reason, calls>>

\* The web server lets the requests end, or gives up when the time is over.
StopHttp ==
  /\ proc = "http" /\ Goto("services")
  /\ \/ Handling = {} /\ UNCHANGED failed
     \/ failed' = TRUE
  /\ UNCHANGED <<store, boots, owned, restarting, restart, reason, calls>>

\* stopServices, in reverse order; a service that fails to stop in time does not
\* keep the others.  After a failed start there is no timeout.
StopService ==
  /\ proc = "services"
  /\ IF started = 0
     THEN Goto("background") /\ UNCHANGED <<started, up, failed>>
     ELSE /\ started' = started - 1
          /\ \/ up' = up \ {Services[started]} /\ UNCHANGED failed
             \/ reason # "start" /\ failed' = TRUE /\ UNCHANGED up
          /\ UNCHANGED proc
  /\ UNCHANGED <<store, boots, background, manager, db, restarting, restart, reason, calls>>

\* background.Wait, or the time is over.
WaitBackground ==
  /\ proc = "background" /\ Goto("manager")
  /\ \/ background = {} /\ UNCHANGED failed
     \/ reason # "start" /\ failed' = TRUE
  /\ UNCHANGED <<store, boots, owned, restarting, restart, reason, calls>>

\* manager.Close and database.Close.
CloseManager ==
  /\ proc = "manager" /\ Goto("database")
  /\ manager' = FALSE /\ failed' \in {failed, TRUE}
  /\ UNCHANGED <<store, boots, started, up, background, db, restarting, restart, reason, calls>>

CloseDatabase ==
  /\ proc = "database" /\ Goto("end")
  /\ db' = FALSE /\ failed' \in {failed, TRUE}
  /\ UNCHANGED <<store, boots, started, up, background, manager, restarting, restart, reason,
                 calls>>

\* The memory of the process is gone.  A Save that is cut off after its rename
\* has taken effect without being reported.
Vanish ==
  /\ memory' = Absent /\ fd' = [w \in Writers |-> "none"] /\ put' = [w \in Writers |-> "idle"]
  /\ IF \E w \in Writers : put[w] = "publish"
     THEN by' = Main /\ acked' \in {draft[w] : w \in {v \in Writers : put[v] = "publish"}}
     ELSE UNCHANGED reported
  /\ draft' = [w \in Writers |-> Default]
  /\ started' = 0 /\ up' = {} /\ background' = {} /\ manager' = FALSE /\ db' = FALSE
  /\ restarting' = FALSE /\ restart' = FALSE /\ reason' = "none" /\ failed' = FALSE
  /\ call' = [u \in Users |-> NoCall]
  /\ UNCHANGED <<file, tmp, puts, cookie, boots, restarts>>

\* The program is executed again, unless something failed; or the process ends.
End ==
  /\ proc = "end"
  /\ IF reason = "restart" /\ ~failed THEN proc' \in {"load", "down"} ELSE Goto("down")
  /\ Vanish

\* The process is killed.
Crash == Kills /\ proc \notin {"down", "end"} /\ Goto("down") /\ Vanish

AppStart ==
  \/ Load \/ FirstRun \/ OpenDatabase \/ StartService \/ TakeRestart \/ StopHttp
  \/ StopService \/ WaitBackground \/ CloseManager \/ CloseDatabase \/ End

Next ==
  \/ Boot \/ AppStart \/ Leave \/ Crash
  \/ \E u \in Users :
       Request(u) \/ HandlePut(u) \/ RestartService(u) \/ HandleRestart(u) \/ RestartApplication(u)
  \/ \E b \in background : BackgroundEnds(b)

Spec == Init /\ [][Next]_vars

\* appStart goes on by itself: every wait of the shutdown has a timeout.
FairSpec == Spec /\ WF_vars(AppStart)
-----------------------------------------------------------------------------
TypeOK ==
  /\ StoreTypeOK
  /\ proc \in {"down", "load", "first", "open", "start", "run", "http", "services",
               "background", "manager", "database", "end"}
  /\ boots \in 0..MaxBoots /\ started \in 0..Len(Services) /\ up \subseteq ServiceNames
  /\ background \subseteq {"connect", "refresh"} /\ manager \in BOOLEAN /\ db \in BOOLEAN
  /\ restarting \in BOOLEAN /\ restart \in BOOLEAN /\ failed \in BOOLEAN
  /\ reason \in {"none", "start", "restart", "leave"}
  /\ call \in [Users -> [step : {"none", "stop", "start"}, service : ServiceNames]]
  /\ restarts \in 0..MaxRestarts

\* Store.Save, putConfig: settings that were reported as saved are the ones in
\* the file and the ones in force, in this process and in the next, whenever no
\* save is under way.
SavedSurvives ==
  acked # Absent /\ (\A w \in Writers : put[w] = "idle") =>
    file = acked /\ memory \in {acked, Absent}

\* Store.Save, load: that, and whatever a kill of the process interrupts, the
\* next process finds settings it can decode, or none.
SettingsDurable == SavedSurvives /\ file # Torn

\* putConfig, verifySession: whoever has changed the settings is still signed
\* in, also under a new user name and after a restart.
StaysSignedIn ==
  \A u \in Users :
    by = u /\ cookie[u] # Absent /\ memory # Absent /\ (\A w \in Writers : put[w] = "idle") =>
      Verify(cookie[u])

\* appStart: when the manager and the database are closed without an error, no
\* service, no background task and no request is left that could use them, and
\* no save of the settings is under way; a failed start leaves as little.
ClosedLast ==
  /\ proc \in {"database", "end"} /\ ~failed => up = {} /\ background = {} /\ Handling = {}
  /\ proc = "end" => ~manager /\ ~db /\ started = 0

\* appStart, restartApplication: a restart that was accepted brings the process
\* to its end, whatever requests and services do meanwhile.
RestartCompletes == restarting ~> ~restarting
=============================================================================
