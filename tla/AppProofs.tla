------------------------------ MODULE AppProofs ------------------------------
(***************************************************************************)
(* The life of the process, for any users, settings and bounds: what is    *)
(* left at each step of the shutdown, and what the settings file holds as  *)
(* long as no two saves overlap.                                           *)
(***************************************************************************)
EXTENDS App, TLAPS

Serving == {"run", "http"}
Starting == {"down", "load", "first", "open", "start"}

\* The services at the front of the list.
First(n) == {Services[i] : i \in 1..n}

\* What exists at each step.  Requests, and services that a request may start
\* again, are found after the web server has stopped only if that failed.
OrderInv ==
  /\ proc \in Serving => started = Len(Services)
  /\ proc \notin Serving \cup {"start", "services"} => started = 0
  /\ proc \notin Serving /\ ~failed => up \subseteq First(started) /\ Handling = {}
  /\ proc \in Starting \cup {"manager", "database", "end"} /\ ~failed => background = {}
  /\ proc \in Starting => ~failed
  /\ manager => proc \in Serving \cup {"start", "services", "background", "manager"}
  /\ db => proc \in Serving \cup {"start", "services", "background", "manager", "database"}
  /\ put[Main] # "idle" => proc = "first"

AppInv == TypeOK /\ OrderInv

\* No two goroutines are in Save at once.
OneWriter == \A v, w \in Writers : put[v] # "idle" /\ put[w] # "idle" => v = w

\* The temporary file is that of the goroutine in Save; the file holds what was
\* last reported, or what is about to be.
SavedInv ==
  /\ \A w \in Writers :
       /\ fd[w] # "none" => put[w] = "write"
       /\ put[w] = "write" => tmp = Torn /\ fd[w] = "tmp"
       /\ put[w] = "rename" => tmp = draft[w]
       /\ put[w] = "publish" => file = draft[w]
  /\ (\A w \in Writers : put[w] # "publish") => file = acked
  /\ file # Torn /\ memory \in {acked, Absent}

\* The user who saved the settings has a session for the name in them.
SignedInv ==
  \A u \in Users : by = u /\ cookie[u] # Absent /\ acked # Absent => cookie[u] = acked.name
-----------------------------------------------------------------------------
(* What the steps are made of.                                              *)

LEMMA ServiceList ==
  /\ Len(Services) = 3 /\ ServiceNames = {"socks5", "speedtest", "healthcheck"}
  /\ First(0) = {} /\ First(3) = ServiceNames
  /\ \A n \in 0..2 : /\ Services[n + 1] \in ServiceNames
                     /\ First(n + 1) = First(n) \cup {Services[n + 1]}
<1>1. /\ Len(Services) = 3 /\ DOMAIN Services = {1, 2, 3}
      /\ Services[1] = "socks5" /\ Services[2] = "speedtest" /\ Services[3] = "healthcheck"
  BY DEF Services
<1>2. ServiceNames = {"socks5", "speedtest", "healthcheck"}
  BY <1>1 DEF ServiceNames
<1>3. First(0) = {} /\ \A n \in 0..2 : First(n + 1) = First(n) \cup {Services[n + 1]}
  <2>1. ASSUME NEW n \in 0..2 PROVE 1..(n + 1) = (1..n) \cup {n + 1}
    OBVIOUS
  <2>2. 1..0 = {}
    OBVIOUS
  <2>. QED  BY <2>1, <2>2 DEF First
<1>4. 1..3 = {1, 2, 3}
  OBVIOUS
<1>5. First(3) = ServiceNames
  BY <1>1, <1>2, <1>4 DEF First
<1>6. ASSUME NEW n \in 0..2 PROVE Services[n + 1] \in ServiceNames
  <2>1. n = 0 \/ n = 1 \/ n = 2
    OBVIOUS
  <2>. QED  BY <1>1, <1>2, <2>1
<1>. QED  BY <1>1, <1>2, <1>3, <1>5, <1>6

\* The settings of one goroutine that is in Save.
LEMMA SaveTypes ==
  ASSUME StoreTypeOK, NEW w \in Writers, Save(w) PROVE StoreTypeOK'
<1>. USE SettingsAssumption DEF StoreTypeOK
<1>0. draft[w] \in Settings /\ Users \subseteq Writers
  BY DEF Writers
<1>1. ASSUME Done(w)
      PROVE  /\ put' \in [Writers -> {"idle", "save", "write", "rename", "remove", "publish"}]
             /\ draft' \in [Writers -> Settings]
  BY <1>1 DEF Done
<1>2. ASSUME NEW l \in {"write", "rename", "remove", "publish"}, At(w, l)
      PROVE  /\ put' \in [Writers -> {"idle", "save", "write", "rename", "remove", "publish"}]
             /\ draft' \in [Writers -> Settings]
  BY <1>2 DEF At
<1>3. CASE Reject(w)
  BY <1>1, <1>3 DEF Reject, disk, reported
<1>4. CASE OpenTmp(w)
  BY <1>2, <1>4 DEF OpenTmp, reported
<1>5. CASE WriteTmp(w)
  <2>1. Written(w, "tmp", tmp) \subseteq Settings \cup {Absent, Torn}
        /\ Written(w, "file", file) \subseteq Settings \cup {Absent, Torn}
    BY <1>0 DEF Written
  <2>. QED  BY <1>1, <1>2, <1>5, <2>1 DEF WriteTmp, reported
<1>6. CASE Rename(w)
  <2>1. Renamed \in [Writers -> {"none", "tmp", "file", "unlinked"}]
    BY DEF Renamed
  <2>. QED  BY <1>2, <1>6, <2>1 DEF Rename, disk, reported
<1>7. CASE Remove(w)
  <2>1. Removed \in [Writers -> {"none", "tmp", "file", "unlinked"}]
    BY DEF Removed
  <2>. QED  BY <1>1, <1>7, <2>1 DEF Remove, reported
<1>8. CASE Publish(w)
  <2>1. cookie' \in [Users -> Names \cup {Absent}]
    BY <1>0, <1>8 DEF Publish, Settings
  <2>. QED  BY <1>0, <1>1, <1>8, <2>1 DEF Publish, disk
<1>. QED  BY <1>3, <1>4, <1>5, <1>6, <1>7, <1>8 DEF Save

\* Requests that only read the settings, or begin to replace them.
LEMMA RequestTypes ==
  ASSUME StoreTypeOK, NEW u \in Users, Login(u) \/ Logout(u) \/ PutConfig(u) PROVE StoreTypeOK'
<1>. USE SettingsAssumption DEF StoreTypeOK, disk, reported
<1>0. u \in Writers
  BY DEF Writers
<1>1. CASE Login(u)
  BY <1>1 DEF Login, Settings
<1>2. CASE Logout(u)
  BY <1>2 DEF Logout
<1>3. CASE PutConfig(u)
  <2>1. PICK name \in Names, password \in Passwords \cup {Absent} :
          draft' = [draft EXCEPT ![u] =
            [name |-> name, password |-> IF password = Absent THEN memory.password ELSE password]]
    BY <1>3 DEF PutConfig
  <2>2. memory \in Settings
    BY <1>3 DEF PutConfig, Verify
  <2>3. [name |-> name, password |-> IF password = Absent THEN memory.password ELSE password] \in Settings
    BY <2>2 DEF Settings
  <2>4. draft' \in [Writers -> Settings]
    BY <1>0, <2>1, <2>3
  <2>. QED  BY <1>0, <1>3, <2>4 DEF PutConfig
<1>. QED  BY <1>1, <1>2, <1>3

\* The end of the process.
LEMMA VanishTypes ==
  ASSUME TypeOK, Vanish, proc' \in {"load", "down"} PROVE TypeOK'
<1>. USE SettingsAssumption DEF TypeOK, StoreTypeOK
<1>1. acked' \in Settings \cup {Absent} /\ by' \in Writers
  BY DEF Vanish, reported, Writers
<1>2. call' \in [Users -> [step : {"none", "stop", "start"}, service : ServiceNames]]
  BY ServiceList DEF Vanish, NoCall
<1>3. Len(Services) = 3
  BY ServiceList
<1>4. StoreTypeOK'
  <2>1. /\ fd' \in [Writers -> {"none", "tmp", "file", "unlinked"}]
        /\ put' \in [Writers -> {"idle", "save", "write", "rename", "remove", "publish"}]
        /\ draft' \in [Writers -> Settings]
    BY DEF Vanish
  <2>. QED  BY <1>1, <2>1 DEF Vanish
<1>5. /\ started' \in 0..Len(Services) /\ up' \subseteq ServiceNames
      /\ background' \subseteq {"connect", "refresh"}
  BY <1>3 DEF Vanish
<1>. QED  BY <1>2, <1>4, <1>5 DEF Vanish
-----------------------------------------------------------------------------
(* Types.                                                                   *)

\* Every step of the specification preserves the types.
LEMMA TypeStep == TypeOK /\ [Next]_vars => TypeOK'
<1>. SUFFICES ASSUME TypeOK, [Next]_vars PROVE TypeOK'
  OBVIOUS
<1>. USE SettingsAssumption, AppAssumption DEF TypeOK, Goto
<1>a. StoreTypeOK /\ UNCHANGED store => StoreTypeOK'
  BY DEF StoreTypeOK, store, disk, reported
<1>b. /\ Len(Services) = 3 /\ \A n \in 0..2 : Services[n + 1] \in ServiceNames
      /\ Services[1] \in ServiceNames
  BY ServiceList
<1>1. CASE Boot
  BY <1>1, <1>a DEF Boot, owned, ending, calls
<1>2. CASE Load
  <2>1. StoreTypeOK'
    BY <1>2 DEF Load, StoreTypeOK, disk, reported, At, Writers
  <2>. QED  BY <1>2, <2>1 DEF Load, owned, ending, calls
<1>3. CASE FirstRun
  <2>1. StoreTypeOK'
    BY <1>3, <1>a, SaveTypes DEF FirstRun, Writers
  <2>. QED  BY <1>3, <2>1 DEF FirstRun, owned, ending, calls
<1>4. CASE OpenDatabase
  BY <1>4, <1>a DEF OpenDatabase, ending, calls
<1>5. CASE StartService
  <2>0. background' \subseteq {"connect", "refresh"}
    BY <1>5 DEF StartService
  <2>1. started' \in 0..Len(Services) /\ up' \subseteq ServiceNames
    <3>1. CASE UNCHANGED <<started, up>>
      BY <3>1
    <3>2. CASE ~UNCHANGED <<started, up>>
      <4>1. started \in 0..2 /\ up' = up \cup {Services[started + 1]} /\ started' = started + 1
        BY <1>5, <1>b, <3>2 DEF StartService
      <4>. QED  BY <1>b, <4>1
    <3>. QED  BY <3>1, <3>2
  <2>. QED  BY <1>5, <1>a, <2>0, <2>1 DEF StartService, calls
<1>6. CASE TakeRestart \/ Leave \/ StopHttp
  BY <1>6, <1>a DEF TakeRestart, Leave, StopHttp, owned, calls
<1>7. CASE StopService
  <2>1. started' \in 0..Len(Services)
    BY <1>7, <1>b DEF StopService
  <2>2. up' \subseteq ServiceNames /\ failed' \in BOOLEAN /\ proc' \in {"background", proc}
    BY <1>7 DEF StopService
  <2>. QED  BY <1>7, <1>a, <2>1, <2>2 DEF StopService, calls
<1>8. CASE WaitBackground \/ CloseManager \/ CloseDatabase
  BY <1>8, <1>a DEF WaitBackground, CloseManager, CloseDatabase, owned, calls
<1>9. CASE End \/ Crash
  BY <1>9, VanishTypes DEF End, Crash
<1>10. ASSUME NEW u \in Users, Request(u) \/ HandlePut(u) PROVE TypeOK'
  <2>1. StoreTypeOK'
    BY <1>10, RequestTypes, SaveTypes DEF Request, HandlePut, Writers
  <2>. QED  BY <1>10, <2>1 DEF Request, HandlePut, owned, ending, calls
<1>11. ASSUME NEW u \in Users, RestartService(u) \/ HandleRestart(u) \/ RestartApplication(u)
      PROVE  TypeOK'
  <2>1. call' \in [Users -> [step : {"none", "stop", "start"}, service : ServiceNames]]
    BY <1>11, <1>b DEF RestartService, HandleRestart, RestartApplication, calls, NoCall
  <2>2. call[u].service \in ServiceNames
    OBVIOUS
  <2>3. up' \subseteq ServiceNames
    BY <1>11, <2>2 DEF RestartService, HandleRestart, RestartApplication, owned
  <2>4. restarts' \in 0..MaxRestarts /\ boots' \in 0..MaxBoots
    BY <1>11 DEF RestartService, HandleRestart, RestartApplication, calls
  <2>5. restarting' \in BOOLEAN /\ restart' \in BOOLEAN
    BY <1>11 DEF RestartService, HandleRestart, RestartApplication, ending
  <2>6. UNCHANGED <<store, proc, started, background, manager, db, reason, failed>>
    BY <1>11 DEF RestartService, HandleRestart, RestartApplication, owned, ending
  <2>. QED  BY <1>a, <2>1, <2>3, <2>4, <2>5, <2>6
<1>12. ASSUME NEW b \in background, BackgroundEnds(b) PROVE TypeOK'
  BY <1>12, <1>a DEF BackgroundEnds, ending, calls
<1>13. CASE UNCHANGED vars
  BY <1>13, <1>a DEF vars, owned, ending, calls
<1>. QED
  BY <1>1, <1>2, <1>3, <1>4, <1>5, <1>6, <1>7, <1>8, <1>9, <1>10, <1>11, <1>12, <1>13
     DEF Next, AppStart

\* What exists at each step follows the order of appStart.
LEMMA OrderStep == TypeOK /\ OrderInv /\ [Next]_vars => OrderInv'
<1>. SUFFICES ASSUME TypeOK, OrderInv, [Next]_vars PROVE OrderInv'
  OBVIOUS
<1>. USE SettingsAssumption DEF OrderInv, Goto, Serving, Starting
<1>0. /\ started \in 0..3 /\ Len(Services) = 3 /\ up \subseteq First(3) /\ First(0) = {}
      /\ \A n \in 0..2 : First(n + 1) = First(n) \cup {Services[n + 1]}
      /\ Main \in Writers /\ Users \subseteq Writers
      /\ put \in [Writers -> {"idle", "save", "write", "rename", "remove", "publish"}]
  BY ServiceList DEF TypeOK, StoreTypeOK, Writers
<1>a. UNCHANGED <<put, call>> => UNCHANGED Handling
  BY DEF Handling
<1>b. ASSUME NEW w \in Writers, Save(w)
      PROVE  /\ put[w] # "idle" /\ \A v \in Writers \ {w} : put'[v] = put[v]
    BY <1>0, <1>b DEF Save, Reject, OpenTmp, WriteTmp, Rename, Remove, Publish, Done, At
<1>1. CASE Boot
  BY <1>1, <1>a DEF Boot, store, owned, ending, calls
<1>2. CASE Load
  <2>1. Handling' = Handling
    BY <1>0, <1>2 DEF Load, Handling, At, calls
  <2>. QED  BY <1>0, <1>2, <2>1 DEF Load, owned, ending, calls, At
<1>3. CASE FirstRun
  <2>1. Handling' = Handling
    BY <1>0, <1>3, <1>b DEF FirstRun, Handling, calls, store
  <2>. QED  BY <1>0, <1>3, <2>1 DEF FirstRun, owned, ending, calls, store
<1>4. CASE OpenDatabase
  BY <1>4, <1>a DEF OpenDatabase, store, ending, calls
<1>5. CASE StartService
  BY <1>0, <1>5, <1>a DEF StartService, store, calls
<1>6. CASE TakeRestart \/ Leave \/ StopHttp
  BY <1>0, <1>6, <1>a DEF TakeRestart, Leave, StopHttp, store, owned, calls
<1>7. CASE StopService
  BY <1>0, <1>7, <1>a DEF StopService, store, calls
<1>8. CASE WaitBackground \/ CloseManager \/ CloseDatabase
  <2>1. UNCHANGED <<put, call, started, up, background>>
    BY <1>8 DEF WaitBackground, CloseManager, CloseDatabase, store, owned, calls
  <2>2. CASE WaitBackground
    BY <1>a, <2>1, <2>2 DEF WaitBackground, owned
  <2>3. CASE CloseManager
    BY <1>a, <2>1, <2>3 DEF CloseManager
  <2>4. CASE CloseDatabase
    BY <1>a, <2>1, <2>4 DEF CloseDatabase
  <2>. QED  BY <1>8, <2>2, <2>3, <2>4
<1>9. CASE End \/ Crash
  <2>1. Vanish /\ proc' \in {"load", "down"}
    BY <1>9 DEF End, Crash
  <2>2. Handling' = {}
    BY <1>0, <2>1 DEF Vanish, Handling
  <2>. QED  BY <1>0, <2>1, <2>2 DEF Vanish
<1>10. ASSUME NEW u \in Users, Request(u) PROVE OrderInv'
  <2>1. put'[Main] = put[Main] /\ proc = "run" /\ UNCHANGED <<proc, owned, ending>>
    BY <1>0, <1>10 DEF Request, Login, Logout, PutConfig
  <2>. QED  BY <2>1 DEF owned, ending
<1>11. ASSUME NEW u \in Users, HandlePut(u) PROVE OrderInv'
  <2>1. put'[Main] = put[Main] /\ u \in Handling /\ UNCHANGED <<proc, owned, ending, call>>
    BY <1>0, <1>11, <1>b DEF HandlePut, Handling, calls
  <2>. QED  BY <2>1 DEF owned, ending
<1>12. ASSUME NEW u \in Users, RestartService(u) \/ RestartApplication(u) PROVE OrderInv'
  BY <1>12 DEF RestartService, RestartApplication, store, owned, ending, calls
<1>13. ASSUME NEW u \in Users, HandleRestart(u) PROVE OrderInv'
  <2>1. call[u] # NoCall
    BY <1>13 DEF HandleRestart, NoCall
  <2>2. u \in Handling /\ UNCHANGED <<proc, started, background, manager, db, failed, put>>
    BY <1>13, <2>1 DEF HandleRestart, Handling, store, ending
  <2>. QED  BY <2>2
<1>14. ASSUME NEW b \in background, BackgroundEnds(b) PROVE OrderInv'
  BY <1>14, <1>a DEF BackgroundEnds, store, ending, calls
<1>15. CASE UNCHANGED vars
  BY <1>15, <1>a DEF vars, store, owned, ending, calls
<1>. QED
  BY <1>1, <1>2, <1>3, <1>4, <1>5, <1>6, <1>7, <1>8, <1>9, <1>10, <1>11, <1>12, <1>13, <1>14, <1>15
     DEF Next, AppStart
-----------------------------------------------------------------------------
(* The settings.                                                            *)

\* A step of the goroutine that is in Save, alone.
LEMMA SaveKeeps ==
  ASSUME StoreTypeOK, OneWriter, SavedInv, NEW w \in Writers, Save(w) PROVE SavedInv'
<1>. USE SettingsAssumption
<1>0. /\ put[w] # "idle" /\ \A v \in Writers \ {w} : put[v] = "idle" /\ fd[v] = "none"
      /\ put \in [Writers -> {"idle", "save", "write", "rename", "remove", "publish"}]
      /\ fd \in [Writers -> {"none", "tmp", "file", "unlinked"}] /\ draft \in [Writers -> Settings]
      /\ draft[w] \notin {Torn, Absent}
  BY DEF Save, Reject, OpenTmp, WriteTmp, Rename, Remove, Publish, OneWriter, SavedInv, StoreTypeOK
<1>a. ASSUME \E l : At(w, l)
      PROVE  UNCHANGED draft /\ \A v \in Writers \ {w} : put'[v] = "idle"
  BY <1>0, <1>a DEF At
<1>b. ASSUME Done(w) PROVE \A v \in Writers : put'[v] = "idle"
  BY <1>0, <1>b DEF Done
<1>1. CASE Reject(w)
  BY <1>0, <1>1, <1>b DEF Reject, disk, reported, SavedInv
<1>2. CASE OpenTmp(w)
  <2>1. put'[w] = "write" /\ fd'[w] = "tmp" /\ \A v \in Writers \ {w} : fd'[v] = "none"
    BY <1>0, <1>2 DEF OpenTmp, At
  <2>. QED  BY <1>0, <1>2, <1>a, <2>1 DEF OpenTmp, reported, SavedInv
<1>3. CASE WriteTmp(w)
  <2>1. tmp = Torn /\ fd[w] = "tmp" /\ \A v \in Writers : fd'[v] = "none"
    BY <1>0, <1>3 DEF WriteTmp, SavedInv
  <2>2. CASE Done(w) /\ UNCHANGED <<file, tmp>>
    BY <1>0, <1>3, <1>b, <2>1, <2>2 DEF WriteTmp, reported, SavedInv
  <2>3. CASE At(w, "rename") /\ tmp' \in Written(w, "tmp", tmp) /\ file' \in Written(w, "file", file)
    <3>0. put'[w] = "rename"
      BY <1>0, <2>3 DEF At
    <3>1. Written(w, "tmp", tmp) = {draft[w]} /\ Written(w, "file", file) = {file}
      BY <2>1 DEF Written
    <3>. QED  BY <1>0, <1>3, <1>a, <2>1, <2>3, <3>0, <3>1 DEF WriteTmp, reported, SavedInv
  <2>. QED  BY <1>3, <2>2, <2>3 DEF WriteTmp
<1>4. CASE Rename(w)
  <2>1. put[w] = "rename" /\ tmp = draft[w] /\ \A v \in Writers : fd[v] = "none"
    BY <1>0, <1>4 DEF Rename, SavedInv
  <2>2. CASE At(w, "remove") /\ UNCHANGED disk
    <3>1. put'[w] = "remove"
      BY <1>0, <2>2 DEF At
    <3>. QED  BY <1>0, <1>4, <1>a, <2>1, <2>2, <3>1 DEF Rename, disk, reported, SavedInv
  <2>3. CASE At(w, "publish") /\ file' = tmp /\ fd' = Renamed
    <3>1. put'[w] = "publish" /\ \A v \in Writers : fd'[v] = "none"
      BY <1>0, <2>1, <2>3 DEF At, Renamed
    <3>. QED  BY <1>0, <1>4, <1>a, <2>1, <2>3, <3>1 DEF Rename, reported, SavedInv
  <2>. QED  BY <1>4, <2>2, <2>3 DEF Rename
<1>5. CASE Remove(w)
  <2>1. \A v \in Writers : fd'[v] = "none"
    BY <1>0, <1>5 DEF Remove, Removed, SavedInv
  <2>. QED  BY <1>0, <1>5, <1>b, <2>1 DEF Remove, reported, SavedInv
<1>6. CASE Publish(w)
  BY <1>0, <1>6, <1>b DEF Publish, disk, SavedInv
<1>. QED  BY <1>1, <1>2, <1>3, <1>4, <1>5, <1>6 DEF Save

\* As long as saves do not overlap, every step keeps the file good.
LEMMA SavedStep == AppInv /\ OneWriter /\ SavedInv /\ [Next]_vars => SavedInv'
<1>. SUFFICES ASSUME AppInv, OneWriter, SavedInv, [Next]_vars PROVE SavedInv'
  OBVIOUS
<1>0. StoreTypeOK /\ Users \subseteq Writers /\ Main \in Writers
  BY DEF AppInv, TypeOK, Writers
<1>a. ASSUME UNCHANGED store PROVE SavedInv'
  BY <1>a DEF store, disk, reported, SavedInv
<1>1. ASSUME NEW w \in Writers, Save(w) PROVE SavedInv'
  BY <1>0, <1>1, SaveKeeps
<1>2. ASSUME NEW u \in Users, Login(u) \/ Logout(u) \/ PutConfig(u) PROVE SavedInv'
  <2>1. UNCHANGED <<memory, disk, reported>>
    BY <1>2 DEF Login, Logout, PutConfig
  <2>2. \/ UNCHANGED <<put, draft>>
        \/ /\ put[u] = "idle" /\ put'[u] = "save"
           /\ \A v \in Writers \ {u} : put'[v] = put[v] /\ draft'[v] = draft[v]
    BY <1>0, <1>2 DEF Login, Logout, PutConfig, StoreTypeOK
  <2>. QED  BY <1>0, <2>1, <2>2 DEF disk, reported, SavedInv
<1>3. CASE Load
  <2>1. \A w \in Writers : put[w] = "idle"
    BY <1>3 DEF Load, AppInv, OrderInv, Serving, Starting, Handling, Writers
  <2>2. \A w \in Writers : put'[w] \in {"idle", "save"}
    BY <1>0, <1>3, <2>1 DEF Load, At, StoreTypeOK
  <2>3. file = acked /\ \A w \in Writers : fd[w] = "none"
    BY <2>1 DEF SavedInv
  <2>4. UNCHANGED <<file, tmp, fd, acked>> /\ memory' \in {file, memory}
    BY <1>3 DEF Load, disk, reported
  <2>. QED  BY <2>2, <2>3, <2>4 DEF SavedInv
<1>4. CASE End \/ Crash
  <2>1. Vanish
    BY <1>4 DEF End, Crash
  <2>2. \A w \in Writers : put'[w] = "idle" /\ fd'[w] = "none"
    BY <2>1 DEF Vanish
  <2>3. file' = file /\ memory' = Absent /\ acked' = file
    BY <2>1 DEF Vanish, reported, SavedInv
  <2>. QED  BY <2>2, <2>3 DEF SavedInv
<1>5. ASSUME NEW u \in Users, RestartService(u) \/ HandleRestart(u) \/ RestartApplication(u)
      PROVE  SavedInv'
  BY <1>5, <1>a DEF RestartService, HandleRestart, RestartApplication
<1>. QED
  BY <1>0, <1>a, <1>1, <1>2, <1>3, <1>4, <1>5
     DEF Next, AppStart, Boot, FirstRun, OpenDatabase, StartService, TakeRestart, Leave, StopHttp,
         StopService, WaitBackground, CloseManager, CloseDatabase, BackgroundEnds, Request, HandlePut, vars

\* The session of whoever saved the settings goes with them.
LEMMA SignedStep == AppInv /\ SavedInv /\ SignedInv /\ [Next]_vars => SignedInv'
<1>. SUFFICES ASSUME AppInv, SavedInv, SignedInv, [Next]_vars PROVE SignedInv'
  OBVIOUS
<1>. USE SettingsAssumption
<1>0. StoreTypeOK /\ memory \in {acked, Absent} /\ Main \notin Users
  BY DEF AppInv, TypeOK, SavedInv
<1>a. ASSUME UNCHANGED <<cookie, reported>> PROVE SignedInv'
  BY <1>a DEF reported, SignedInv
<1>1. ASSUME NEW u \in Users, Login(u) \/ Logout(u) \/ PutConfig(u) PROVE SignedInv'
  <2>1. UNCHANGED reported /\ \A v \in Users : cookie'[v] \in {cookie[v], Absent} \/ cookie'[v] = acked.name
    BY <1>0, <1>1 DEF Login, Logout, PutConfig, StoreTypeOK
  <2>. QED  BY <2>1 DEF SignedInv, reported
<1>2. ASSUME NEW w \in Writers, Save(w) PROVE SignedInv'
  <2>1. CASE UNCHANGED <<cookie, reported>>
    BY <1>a, <2>1
  <2>2. CASE Publish(w)
    <3>1. acked' = draft[w] /\ by' = w /\ (w \in Users => cookie'[w] = draft[w].name)
      BY <1>0, <2>2 DEF Publish, StoreTypeOK
    <3>. QED  BY <3>1 DEF SignedInv
  <2>. QED  BY <1>2, <2>1, <2>2 DEF Save, Reject, OpenTmp, WriteTmp, Rename, Remove
<1>3. CASE End \/ Crash
  <2>1. Vanish
    BY <1>3 DEF End, Crash
  <2>2. UNCHANGED cookie /\ (UNCHANGED reported \/ by' = Main)
    BY <2>1 DEF Vanish
  <2>. QED  BY <1>0, <1>a, <2>2 DEF SignedInv
<1>4. ASSUME NEW u \in Users, RestartService(u) \/ HandleRestart(u) \/ RestartApplication(u)
      PROVE  SignedInv'
  BY <1>4, <1>a DEF RestartService, HandleRestart, RestartApplication, store
<1>5. CASE Load
  BY <1>5, <1>a DEF Load
<1>. QED
  BY <1>a, <1>1, <1>2, <1>3, <1>4, <1>5
     DEF Next, AppStart, Boot, FirstRun, OpenDatabase, StartService, TakeRestart, Leave, StopHttp,
         StopService, WaitBackground, CloseManager, CloseDatabase, BackgroundEnds, Request, HandlePut, vars,
         store, Writers

\* All of it holds when nothing has run yet.
LEMMA AppInit == Init => AppInv /\ SavedInv /\ SignedInv
<1>. SUFFICES ASSUME Init PROVE AppInv /\ SavedInv /\ SignedInv
  OBVIOUS
<1>. USE SettingsAssumption, AppAssumption DEF Init, StoreInit
<1>1. TypeOK
  <2>1. call \in [Users -> [step : {"none", "stop", "start"}, service : ServiceNames]]
    BY ServiceList DEF NoCall
  <2>2. started \in 0..Len(Services)
    BY ServiceList
  <2>3. StoreTypeOK
    BY DEF StoreTypeOK, Writers
  <2>4. boots \in 0..MaxBoots /\ restarts \in 0..MaxRestarts
    OBVIOUS
  <2>5. reason = "none" /\ proc = "down" /\ up = {} /\ background = {}
        /\ manager = FALSE /\ db = FALSE /\ restarting = FALSE /\ restart = FALSE /\ failed = FALSE
    OBVIOUS
  <2>. QED  BY <2>1, <2>2, <2>3, <2>4, <2>5 DEF TypeOK
<1>2. OrderInv
  <2>1. Main \in Writers /\ Users \subseteq Writers
    BY DEF Writers
  <2>2. Handling = {}
    BY <2>1 DEF Handling
  <2>. QED  BY <2>1, <2>2 DEF OrderInv, Serving, Starting
<1>3. SavedInv /\ SignedInv
  BY DEF SavedInv, SignedInv
<1>. QED  BY <1>1, <1>2, <1>3 DEF AppInv

LEMMA AppInvariant == Spec => []AppInv
<1>1. Init => AppInv
  BY AppInit
<1>2. AppInv /\ [Next]_vars => AppInv'
  BY TypeStep, OrderStep DEF AppInv
<1>. QED  BY <1>1, <1>2, PTL DEF Spec

LEMMA SettingsInvariant == Spec /\ []OneWriter => [](AppInv /\ SavedInv /\ SignedInv)
<1>1. Init => SavedInv /\ SignedInv
  BY AppInit
<1>2. AppInv /\ OneWriter /\ SavedInv /\ SignedInv /\ [Next]_vars => (SavedInv /\ SignedInv)'
  BY SavedStep, SignedStep
<1>. QED  BY AppInvariant, <1>1, <1>2, PTL DEF Spec
-----------------------------------------------------------------------------
(* The theorems.                                                            *)

\* Every variable of appStart and of the settings has its type.
THEOREM TypeCorrect == Spec => []TypeOK
<1>1. AppInv => TypeOK
  BY DEF AppInv
<1>. QED  BY AppInvariant, <1>1, PTL

\* appStart closes the manager and the database when nothing is left that could
\* use them, also after a failed start, unless a step of the shutdown failed.
THEOREM ClosesLast == Spec => []ClosedLast
<1>1. AppInv => ClosedLast
  BY ServiceList DEF AppInv, OrderInv, ClosedLast, Serving, Starting
<1>. QED  BY AppInvariant, <1>1, PTL

\* Store.Save: whatever a kill interrupts, the file holds what was reported as
\* saved, as long as no two saves overlap, which no lock in the code prevents.
THEOREM SavesLast == Spec /\ []OneWriter => []SettingsDurable
<1>1. SavedInv => SettingsDurable
  BY DEF SavedInv, SettingsDurable, SavedSurvives
<1>. QED  BY SettingsInvariant, <1>1, PTL

\* The first run has saved the defaults before the web server takes requests:
\* with a single user no two saves overlap.
THEOREM SavesLastAlone ==
  ASSUME NEW u, Users = {u} PROVE Spec => []SettingsDurable
<1>1. AppInv => OneWriter
  BY DEF AppInv, OrderInv, OneWriter, Writers, Serving, Starting, Handling
<1>. QED  BY AppInvariant, SavesLast, <1>1, PTL

\* putConfig answers with a session for the new user name: whoever saved the
\* settings stays signed in, if no name contains the separator of a token.
THEOREM StaysIn ==
  ASSUME PipedNames = {} PROVE Spec /\ []OneWriter => []StaysSignedIn
<1>1. AppInv /\ SavedInv /\ SignedInv => StaysSignedIn
  BY SettingsAssumption DEF SavedInv, SignedInv, StaysSignedIn, Verify
<1>. QED  BY SettingsInvariant, <1>1, PTL
=============================================================================
