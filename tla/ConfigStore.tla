----------------------------- MODULE ConfigStore -----------------------------
(***************************************************************************)
(* The settings: config.Store (internal/config/config.go) with the file it *)
(* keeps them in, and the requests that read and replace them (putConfig,  *)
(* login and auth in internal/server).  Of the settings, only the web user *)
(* name and the password are told apart.                                   *)
(*                                                                         *)
(* Save writes <path>.tmp and renames it.  The file system is seen as Save *)
(* sees it: opening truncates the file behind the name, a rename moves the *)
(* file with whatever is in it, and a goroutine that has opened it goes on *)
(* writing to it wherever it is.                                           *)
(***************************************************************************)
EXTENDS Naturals

CONSTANTS
  Users,       \* goroutines of requests to the settings page
  Main,        \* the goroutine that loads the settings
  Names, Passwords, Default,
  PipedNames,  \* user names that contain the separator of a session token
  Absent,      \* no such file, no session, no new password
  Torn,        \* a file with a part of its contents
  MaxPuts      \* bound on the requests to change the settings

Settings == [name : Names, password : Passwords]

ASSUME SettingsAssumption ==
  /\ Default \in Settings /\ PipedNames \subseteq Names /\ MaxPuts \in Nat
  /\ Main \notin Users /\ Absent \notin Names \cup Passwords
  /\ Torn \notin Settings /\ Absent \notin Settings /\ Torn # Absent

VARIABLES
  memory,     \* Store.config, Absent before it is loaded
  file, tmp,  \* contents of the two names
  fd,         \* which of them a goroutine that is writing has open
  put,        \* where each goroutine is in Save
  draft,      \* the settings it saves
  puts,
  cookie,     \* the user name that each user's session token is signed for
  acked, by   \* history: the settings last reported as saved, and by whom

disk == <<file, tmp, fd>>
reported == <<acked, by>>
store == <<memory, disk, put, draft, puts, cookie, reported>>
Writers == Users \cup {Main}

StoreInit ==
  /\ memory = Absent /\ file = Absent /\ tmp = Absent
  /\ fd = [w \in Writers |-> "none"] /\ put = [w \in Writers |-> "idle"]
  /\ draft = [w \in Writers |-> Default] /\ puts = 0
  /\ cookie = [u \in Users |-> Absent] /\ acked = Absent /\ by = Main

StoreTypeOK ==
  /\ memory \in Settings \cup {Absent} /\ acked \in Settings \cup {Absent}
  /\ file \in Settings \cup {Absent, Torn} /\ tmp \in Settings \cup {Absent, Torn}
  /\ fd \in [Writers -> {"none", "tmp", "file", "unlinked"}]
  /\ put \in [Writers -> {"idle", "save", "write", "rename", "remove", "publish"}]
  /\ draft \in [Writers -> Settings] /\ puts \in 0..MaxPuts
  /\ cookie \in [Users -> Names \cup {Absent}] /\ by \in Writers

\* verifySession: the token is signed for the current user name; a name that
\* contains the separator is never recognised.
Verify(name) == memory # Absent /\ name = memory.name /\ name \notin PipedNames

\* login: the password is compared with the settings read at the start.
Login(u) ==
  /\ memory # Absent
  /\ cookie' = [cookie EXCEPT ![u] = memory.name]
  /\ UNCHANGED <<memory, disk, put, draft, puts, reported>>

\* logout, or twelve hours have passed.
Logout(u) ==
  /\ cookie[u] # Absent /\ put[u] = "idle"
  /\ cookie' = [cookie EXCEPT ![u] = Absent]
  /\ UNCHANGED <<memory, disk, put, draft, puts, reported>>

\* Mutant: an empty new password replaces the current one.
PutConfigEmpties(u) ==
  /\ put[u] = "idle" /\ Verify(cookie[u]) /\ puts < MaxPuts
  /\ puts' = puts + 1
  /\ \E name \in Names, password \in Passwords \cup {Absent} :
       draft' = [draft EXCEPT ![u] = [name |-> name, password |-> password]]
  /\ put' = [put EXCEPT ![u] = "save"]
  /\ UNCHANGED <<memory, disk, cookie, reported>>

\* putConfig reads the current settings; without a new password it keeps the
\* one it has read.
PutConfig(u) ==
  /\ put[u] = "idle" /\ Verify(cookie[u]) /\ puts < MaxPuts
  /\ puts' = puts + 1
  /\ \E name \in Names, password \in Passwords \cup {Absent} :
       draft' = [draft EXCEPT ![u] =
         [name |-> name, password |-> IF password = Absent THEN memory.password ELSE password]]
  /\ put' = [put EXCEPT ![u] = "save"]
  /\ UNCHANGED <<memory, disk, cookie, reported>>

At(w, place) == put' = [put EXCEPT ![w] = place] /\ UNCHANGED draft
Done(w) == put' = [put EXCEPT ![w] = "idle"] /\ draft' = [draft EXCEPT ![w] = Default]

\* The settings do not validate, or the directory cannot be made.
Reject(w) ==
  /\ put[w] = "save" /\ Done(w)
  /\ UNCHANGED <<memory, disk, puts, cookie, reported>>

\* Mutant: the settings are written in place.
OpenInPlace(w) ==
  /\ put[w] = "save" /\ At(w, "write")
  /\ file' = Torn /\ tmp' = draft[w] /\ fd' = [fd EXCEPT ![w] = "file"]
  /\ UNCHANGED <<memory, puts, cookie, reported>>

\* os.WriteFile creates or truncates the temporary file...
OpenTmp(w) ==
  /\ put[w] = "save" /\ At(w, "write")
  /\ tmp' = Torn /\ fd' = [fd EXCEPT ![w] = "tmp"]
  /\ UNCHANGED <<memory, file, puts, cookie, reported>>

\* What may be in the file with this name when w has written: what another
\* goroutine wrote to the same file meanwhile may stick out at the end.
Written(w, name, contents) ==
  CASE fd[w] # name                    -> {contents}
    [] fd[w] = name /\ contents = Torn  -> {draft[w]}
    [] fd[w] = name /\ contents # Torn  -> {draft[w], Torn}

\* ...and writes it, or fails in the middle.
WriteTmp(w) ==
  /\ put[w] = "write"
  /\ \/ /\ At(w, "rename")
        /\ tmp' \in Written(w, "tmp", tmp) /\ file' \in Written(w, "file", file)
     \/ Done(w) /\ UNCHANGED <<file, tmp>>
  /\ fd' = [fd EXCEPT ![w] = "none"]
  /\ UNCHANGED <<memory, puts, cookie, reported>>

\* The goroutines that had the file behind a name open when it changed.
Renamed == [w \in Writers |-> CASE fd[w] = "tmp" -> "file" [] fd[w] = "file" -> "unlinked"
                                [] OTHER -> fd[w]]
Removed == [w \in Writers |-> IF fd[w] = "tmp" THEN "unlinked" ELSE fd[w]]

Rename(w) ==
  /\ put[w] = "rename"
  /\ \/ /\ tmp # Absent
        /\ file' = tmp /\ tmp' = Absent /\ fd' = Renamed /\ At(w, "publish")
     \/ At(w, "remove") /\ UNCHANGED disk
  /\ UNCHANGED <<memory, puts, cookie, reported>>

\* A failed rename removes the temporary file, whoever wrote it.
Remove(w) ==
  /\ put[w] = "remove" /\ Done(w)
  /\ tmp' = Absent /\ fd' = Removed
  /\ UNCHANGED <<memory, file, puts, cookie, reported>>

\* Mutant: the answer carries no new session.
PublishOldSession(w) ==
  /\ put[w] = "publish" /\ Done(w)
  /\ memory' = draft[w] /\ acked' = draft[w] /\ by' = w
  /\ UNCHANGED <<disk, puts, cookie>>

\* The settings come into force and putConfig answers, with a session for the
\* user name it has saved.
Publish(w) ==
  /\ put[w] = "publish" /\ Done(w)
  /\ memory' = draft[w] /\ acked' = draft[w] /\ by' = w
  /\ cookie' = IF w \in Users THEN [cookie EXCEPT ![w] = draft[w].name] ELSE cookie
  /\ UNCHANGED <<disk, puts>>

Save(w) ==
  Reject(w) \/ OpenTmp(w) \/ WriteTmp(w) \/ Rename(w) \/ Remove(w) \/ Publish(w)
=============================================================================
