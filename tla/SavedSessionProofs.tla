------------------------- MODULE SavedSessionProofs -------------------------
(***************************************************************************)
(* What SavedSession keeps for every number of programs, ids, states and   *)
(* logins: its types, with them that no two clients have one id, that the  *)
(* saved session is never a mixture of two saves, and that the states its  *)
(* files name are spared when an older session is discarded.               *)
(***************************************************************************)
EXTENDS SavedSession, TLAPS, FiniteSetTheorems

Steps == {"down", "running", "ending", "save", "clear", "unlink", "rmdir", "rename",
          "clear_new", "unlink_new", "rmdir_new", "exit"}

ManagerType == manager \in Steps /\ login_window \in BOOLEAN /\ autosave \in BOOLEAN

Clients == [conn : {"none", "open", "registered"}, id : Ids \union {0},
            state : States \union {0}, restart : BOOLEAN]
ProgramType == program \in [Programs -> Clients]

Directories == [there : BOOLEAN, files : SUBSET File]
FilesType ==
  /\ apps \subseteq File /\ clearing \subseteq File /\ remaining \subseteq File
  /\ saved \in Directories /\ new \in Directories

CountersType ==
  /\ states \subseteq 1..(nextState - 1) /\ excused \subseteq States
  /\ todo \subseteq Programs /\ discard_hash \subseteq States
  /\ nextId \in 1..(MaxIds + 1) /\ nextState \in 1..(MaxStates + 1) /\ logins \in 0..MaxLogins

Typing == ManagerType /\ ProgramType /\ FilesType /\ CountersType

IdsAreUnique == \A p, q \in Connected : program[p].id = program[q].id => p = q

\* A save has a login before it, no connection outlives the session manager, and
\* its loop visits clients only.
SessionIsThere ==
  /\ manager = "down" => program = [p \in Programs |-> Gone]
  /\ manager # "down" => logins # 0
  /\ manager = "save" => todo \subseteq Connected

Saving == manager \in {"save", "clear", "unlink", "rmdir", "rename"}

\* The states a file may name: on disk, or known to have been discarded.
Known == states \union excused \union {0}

FileOf(p) == [id |-> program[p].id, state |-> program[p].state, save |-> logins]

\* The file between its discard command and its removal.
ClearingIsOne ==
  /\ manager \notin {"unlink", "unlink_new"} => clearing = {}
  /\ manager \in {"unlink", "unlink_new"} => \E file \in File : clearing = {file}

\* What is still to be visited of the old session is there, and is not visited.
RemainingIsOld ==
  /\ manager \in {"clear", "unlink"} => remaining \subseteq saved.files
  /\ manager = "unlink" => clearing \intersect remaining = {}

\* What is generated next has never been used.
NextIsFresh ==
  /\ \A p \in Connected : program[p].id \in 1..(nextId - 1) /\ program[p].state \in 0..(nextState - 1)
  /\ \A f \in saved.files \union apps : f.id \in 1..(nextId - 1) /\ f.state \in 0..(nextState - 1)

\* No two clients, no two files, and no client and another's file share a state.
StatesHaveOneOwner ==
  /\ \A p, q \in Connected : program[p].state = program[q].state /\ program[p].state # 0 => p = q
  /\ \A p \in Connected, f \in apps : program[p].state = f.state /\ f.state # 0 => program[p].id = f.id
  /\ \A f, g \in apps : f.state = g.state /\ f.state # 0 => f = g
  /\ \A f, g \in saved.files : f.state = g.state /\ f.state # 0 => f = g

\* The new directory holds files of the clients that have been visited.
NewIsOfThisSave ==
  Saving => \A f \in new.files : \E p \in Connected : f = FileOf(p)

KeptStates ==
  /\ \A f \in saved.files :
       f.state \in Known \/ (manager = "unlink" /\ f \in clearing /\ f.state \notin discard_hash)
  /\ manager \in {"running", "ending", "save"} =>
       /\ \A p \in Connected : program[p].state \in Known
       /\ \A f \in apps : f.state \in Known
  /\ Saving => \A f \in new.files : f.state \in Known
  /\ manager \in {"save", "clear", "unlink"} =>
       \A f \in new.files : f.state \in discard_hash \union {0}

Inv ==
  /\ Typing /\ SessionIsThere /\ ClearingIsOne /\ RemainingIsOld /\ IdsAreUnique /\ NextIsFresh
  /\ StatesHaveOneOwner /\ NewIsOfThisSave /\ KeptStates /\ SessionIsOfOneSave

-----------------------------------------------------------------------------
\* The steps of the session manager.
LEMMA ManagerTypeStays ==
  ASSUME Inv, BoundsAssumption, [Next]_vars
  PROVE  ManagerType'
<1>1. CASE Login
  <2>1. PICK failsafe, window \in BOOLEAN : login_window' = window
    BY <1>1, Zenon DEF Login
  <2> QED BY <1>1, <2>1 DEF Inv, Typing, ManagerType, Steps, Login
<1>2. CASE SettingChanges \/ Logout \/ CancelLogout \/ EndPhase
  BY <1>2 DEF Inv, Typing, ManagerType, Steps, SettingChanges, Logout, CancelLogout,
      EndPhase
<1>3. CASE \/ AllSaved \/ UnlinkOne \/ Cleared \/ RemoveOldDir \/ RenameNewDir
           \/ UnlinkNew \/ RemoveNewDir \/ Exit \/ Crash
  BY <1>3 DEF Inv, Typing, ManagerType, Steps, AllSaved, UnlinkOne, Cleared,
      RemoveOldDir, RenameNewDir, UnlinkNew, RemoveNewDir, Exit, Crash, Down
<1>4. CASE \/ \E p \in Programs : Start(p)
           \/ \E p \in Programs : RegisterNew(p)
           \/ \E p \in Programs : RefuseId(p)
           \/ \E p \in Programs : SetProperties(p)
           \/ \E p \in Programs : Disconnect(p)
           \/ \E p \in Programs : SaveOneClient(p)
           \/ \E p \in Programs : SaveFails(p)
           \/ \E p \in Programs, f \in apps : RegisterKnown(p, f)
           \/ \E f \in remaining : DiscardOne(f)
           \/ \E f \in remaining : DiscardNew(f)
  BY <1>4 DEF Inv, Typing, ManagerType, Steps, Start, RegisterNew, RefuseId,
      SetProperties, Disconnect, SaveOneClient, SaveFails, RegisterKnown, DiscardOne,
      DiscardNew
<1>5. CASE UNCHANGED vars
  BY <1>5 DEF Inv, Typing, ManagerType, vars
<1> QED
  BY <1>1, <1>2, <1>3, <1>4, <1>5 DEF Next

\* What the steps make of a connection is one.
LEMMA ClientType ==
  /\ Gone \in Clients
  /\ \A i \in Ids \union {0} : [Gone EXCEPT !.conn = "open", !.id = i] \in Clients
  /\ \A i \in Ids, s \in States \union {0}, r \in BOOLEAN : Registered(i, s, r) \in Clients
  /\ \A c \in Clients :
       /\ c.id \in Ids \union {0} /\ c.state \in States \union {0}
       /\ [c EXCEPT !.id = 0] \in Clients
       /\ \A r \in BOOLEAN : [c EXCEPT !.restart = r] \in Clients
       /\ \A s \in States, r \in BOOLEAN : [c EXCEPT !.state = s, !.restart = r] \in Clients
<1>1. Gone \in Clients
  BY DEF Gone, Clients
<1>2. \A i \in Ids \union {0} : [Gone EXCEPT !.conn = "open", !.id = i] \in Clients
  BY DEF Gone, Clients
<1>3. \A i \in Ids, s \in States \union {0}, r \in BOOLEAN : Registered(i, s, r) \in Clients
  BY DEF Registered, Clients
<1>4. ASSUME NEW c \in Clients
      PROVE  /\ c.id \in Ids \union {0} /\ c.state \in States \union {0}
             /\ [c EXCEPT !.id = 0] \in Clients
             /\ \A r \in BOOLEAN : [c EXCEPT !.restart = r] \in Clients
             /\ \A s \in States, r \in BOOLEAN : [c EXCEPT !.state = s, !.restart = r] \in Clients
  BY DEF Clients
<1> QED BY <1>1, <1>2, <1>3, <1>4

\* A directory holds files.
LEMMA DirectoryType ==
  /\ NoDir \in Directories
  /\ \A files \in SUBSET File : Dir(files) \in Directories /\ Dir(files).files = files
  /\ \A d \in Directories : d.files \subseteq File
<1>1. NoDir \in Directories
  BY DEF NoDir, Directories
<1>2. ASSUME NEW files \in SUBSET File PROVE Dir(files) \in Directories /\ Dir(files).files = files
  BY DEF Dir, Directories
<1>3. ASSUME NEW d \in Directories PROVE d.files \subseteq File
  BY DEF Directories
<1> QED BY <1>1, <1>2, <1>3

\* What is left of a directory when a file, or it itself, is removed.
LEMMA LessType ==
  ASSUME NEW d \in Directories
  PROVE  /\ WithoutDir(d) \in Directories /\ WithoutDir(d).files = d.files
         /\ d.files \ clearing \in SUBSET File
<1>1. CASE d.files = {}
  BY <1>1, DirectoryType DEF WithoutDir, NoDir
<1>2. CASE d.files # {}
  BY <1>2, DirectoryType DEF WithoutDir
<1> QED BY <1>1, <1>2, DirectoryType

\* What the steps that remove and rename make of the directories: files leave them, or
\* the new ones take the place of none.
LEMMA DirectoriesShrink ==
  ASSUME Inv
  PROVE  /\ (UnlinkOne \/ RemoveOldDir) => /\ saved' \in Directories /\ new' = new
                                          /\ saved'.files \subseteq saved.files
         /\ (UnlinkNew \/ RemoveNewDir) => /\ new' \in Directories /\ saved' = saved
                                          /\ new'.files \subseteq new.files
         /\ RenameNewDir => \/ saved' = new /\ new' = NoDir
                            \/ saved' = saved /\ new' = new
<1>1. saved \in Directories /\ new \in Directories
  BY DEF Inv, Typing, FilesType
<1>2. ASSUME UnlinkOne PROVE /\ saved' \in Directories /\ new' = new
                             /\ saved'.files \subseteq saved.files
  <2>1. saved' = Dir(saved.files \ clearing) \/ saved' = saved
    BY <1>2 DEF UnlinkOne
  <2>2. saved.files \ clearing \in SUBSET File
    BY <1>1, LessType
  <2>3. new' = new
    BY <1>2 DEF UnlinkOne
  <2> QED BY <1>1, <2>1, <2>2, <2>3, DirectoryType
<1>3. ASSUME RemoveOldDir PROVE /\ saved' \in Directories /\ new' = new
                                /\ saved'.files \subseteq saved.files
  BY <1>1, <1>3, LessType DEF RemoveOldDir
<1>4. ASSUME UnlinkNew PROVE /\ new' \in Directories /\ saved' = saved
                             /\ new'.files \subseteq new.files
  <2>1. new' = Dir(new.files \ clearing) \/ new' = new
    BY <1>4 DEF UnlinkNew
  <2>2. new.files \ clearing \in SUBSET File
    BY <1>1, LessType
  <2>3. saved' = saved
    BY <1>4 DEF UnlinkNew
  <2> QED BY <1>1, <2>1, <2>2, <2>3, DirectoryType
<1>5. ASSUME RemoveNewDir PROVE /\ new' \in Directories /\ saved' = saved
                                /\ new'.files \subseteq new.files
  BY <1>1, <1>5, LessType DEF RemoveNewDir
<1>6. ASSUME RenameNewDir PROVE \/ saved' = new /\ new' = NoDir
                                \/ saved' = saved /\ new' = new
  BY <1>6 DEF RenameNewDir, dirs
<1> QED BY <1>2, <1>3, <1>4, <1>5, <1>6

\* The connections of the programs.
LEMMA ProgramTypeStays ==
  ASSUME Inv, BoundsAssumption, [Next]_vars
  PROVE  ProgramType'
<1>1. CASE \/ SettingChanges \/ Logout \/ CancelLogout \/ EndPhase \/ AllSaved
           \/ UnlinkOne \/ Cleared \/ RemoveOldDir \/ RenameNewDir \/ UnlinkNew
           \/ RemoveNewDir
           \/ \E p \in Programs : SaveOneClient(p)
           \/ \E p \in Programs : SaveFails(p)
           \/ \E f \in remaining : DiscardOne(f)
           \/ \E f \in remaining : DiscardNew(f)
           \/ Login
  <2>1. UNCHANGED program
    BY <1>1 DEF SettingChanges, Logout, CancelLogout, EndPhase, AllSaved, UnlinkOne, Cleared,
       RemoveOldDir, RenameNewDir, UnlinkNew, RemoveNewDir, SaveOneClient, SaveFails, DiscardOne,
       DiscardNew, Login
  <2> QED BY <2>1 DEF Inv, Typing, ProgramType
<1>2. CASE Exit \/ Crash
  BY <1>2, ClientType DEF ProgramType, Exit, Crash, Down
<1>3. CASE \E p \in Programs : Start(p)
  <2>1. PICK p \in Programs, i \in 0..(nextId - 1) :
               program' = [program EXCEPT ![p] = [Gone EXCEPT !.conn = "open", !.id = i]]
    BY <1>3 DEF Start
  <2>2. i \in Ids \union {0}
    BY DEF Inv, Typing, CountersType, Ids, BoundsAssumption
  <2> QED BY <2>1, <2>2, ClientType DEF Inv, Typing, ProgramType
<1>4. CASE \E p \in Programs : RefuseId(p)
  BY <1>4, ClientType DEF Inv, Typing, ProgramType, RefuseId
<1>5. CASE \E p \in Programs : RegisterNew(p)
  <2>1. PICK p \in Programs : program' = [program EXCEPT ![p] = Registered(nextId, 0, FALSE)]
    BY <1>5 DEF RegisterNew
  <2>2. nextId \in Ids
    BY <1>5 DEF RegisterNew, Inv, Typing, CountersType, Ids, BoundsAssumption
  <2>3. Registered(nextId, 0, FALSE) \in Clients
    BY <2>2, ClientType
  <2> QED BY <2>1, <2>3 DEF Inv, Typing, ProgramType
<1>6. CASE \E p \in Programs, f \in apps : RegisterKnown(p, f)
  <2>1. PICK p \in Programs, f \in apps : RegisterKnown(p, f)
    BY <1>6
  <2>2. PICK state \in {0, f.state}, restart \in BOOLEAN :
               program' = [program EXCEPT ![p] = Registered(f.id, state, restart)]
    BY <2>1, Zenon DEF RegisterKnown
  <2>3. f.id \in Ids /\ state \in States \union {0}
    BY DEF Inv, Typing, FilesType, File
  <2>4. Registered(f.id, state, restart) \in Clients
    BY <2>3, ClientType, Zenon
  <2> QED BY <2>2, <2>4 DEF Inv, Typing, ProgramType
<1>7. CASE \E p \in Programs : SetProperties(p)
  <2>1. PICK p \in Programs, restart \in BOOLEAN :
               \/ program' = [program EXCEPT ![p].restart = restart]
               \/ /\ nextState <= MaxStates
                  /\ program' = [program EXCEPT ![p].state = nextState, ![p].restart = restart]
    BY <1>7, Zenon DEF SetProperties
  <2>2. program[p] \in Clients
    BY DEF Inv, Typing, ProgramType
  <2>3. CASE program' = [program EXCEPT ![p].restart = restart]
    BY <2>2, <2>3, ClientType DEF Inv, Typing, ProgramType
  <2>4. CASE /\ nextState <= MaxStates
             /\ program' = [program EXCEPT ![p].state = nextState, ![p].restart = restart]
    <3>1. nextState \in States
      BY <2>4 DEF Inv, Typing, CountersType, States, BoundsAssumption
    <3>2. [program[p] EXCEPT !.state = nextState, !.restart = restart] \in Clients
      BY <2>2, <3>1, ClientType, Zenon
    <3> QED BY <2>4, <3>2 DEF Inv, Typing, ProgramType
  <2> QED BY <2>1, <2>3, <2>4
<1>8. CASE \E p \in Programs : Disconnect(p)
  BY <1>8, ClientType DEF Inv, Typing, ProgramType, Disconnect
<1>9. CASE UNCHANGED vars
  BY <1>9 DEF Inv, Typing, ProgramType, vars
<1> QED
  BY <1>1, <1>2, <1>3, <1>4, <1>5, <1>6, <1>7, <1>8, <1>9 DEF Next

\* Files have the id and the state of a client, and the login that wrote them.
LEMMA FilesTypeStays ==
  ASSUME Inv, BoundsAssumption, [Next]_vars
  PROVE  FilesType'
<1>1. CASE Login
  BY <1>1, DirectoryType DEF Inv, Typing, FilesType, loop, Login
<1>2. CASE EndPhase
  BY <1>2, DirectoryType DEF Inv, Typing, FilesType, dirs, loop, EndPhase, EmptyNewDir
<1>3. CASE \E p \in Programs : SaveOneClient(p)
  <2>1. PICK p \in Programs : SaveOneClient(p)
    BY <1>3
  <2>2. p \in Connected /\ logins \in 1..MaxLogins
    BY <2>1 DEF Inv, Typing, CountersType, SessionIsThere, SaveOneClient, BoundsAssumption
  <2>3. program[p].id \in Ids /\ program[p].state \in States \union {0}
    <3>1. program[p] \in Clients
      BY <2>2 DEF Inv, Typing, ProgramType, Connected
    <3>2. program[p].id # 0
      BY <2>2 DEF Inv, Typing, CountersType, NextIsFresh
    <3> QED BY <3>1, <3>2, ClientType
  <2>4. FileOf(p) \in File
    BY <2>2, <2>3 DEF FileOf, File
  <2>5. new.files \union {FileOf(p)} \in SUBSET File
    BY <2>4, DirectoryType DEF Inv, Typing, FilesType
  <2> QED
    BY <2>1, <2>5, DirectoryType DEF Inv, Typing, FilesType, SaveOneClient, FileOf
<1>4. CASE UnlinkOne \/ RemoveOldDir \/ RenameNewDir \/ UnlinkNew \/ RemoveNewDir
  <2>1. saved' \in Directories /\ new' \in Directories
    BY <1>4, DirectoriesShrink, DirectoryType DEF Inv, Typing, FilesType
  <2>2. UNCHANGED <<apps, remaining>> /\ clearing' \in {{}, clearing}
    BY <1>4 DEF loop, UnlinkOne, RemoveOldDir, RenameNewDir, UnlinkNew, RemoveNewDir
  <2> QED BY <2>1, <2>2 DEF Inv, Typing, FilesType
<1>5. CASE Exit \/ Crash
  BY <1>5, DirectoryType DEF Inv, Typing, FilesType, dirs, Exit, Crash, Down
<1>6. CASE \/ \E f \in remaining : DiscardOne(f)
           \/ \E f \in remaining : DiscardNew(f)
  BY <1>6, DirectoryType DEF Inv, Typing, FilesType, dirs, DiscardOne, DiscardNew
<1>7. CASE \/ SettingChanges \/ Logout \/ CancelLogout \/ AllSaved \/ Cleared
           \/ \E p \in Programs : Start(p)
           \/ \E p \in Programs : RegisterNew(p)
           \/ \E p \in Programs : RefuseId(p)
           \/ \E p \in Programs : SetProperties(p)
           \/ \E p \in Programs : Disconnect(p)
           \/ \E p \in Programs : SaveFails(p)
           \/ \E p \in Programs, f \in apps : RegisterKnown(p, f)
  BY <1>7, DirectoryType DEF Inv, Typing, FilesType, dirs, loop, SettingChanges, Logout,
      CancelLogout, AllSaved, Cleared, Start, RegisterNew, RefuseId, SetProperties,
      Disconnect, SaveFails, RegisterKnown
<1>8. CASE UNCHANGED vars
  BY <1>8 DEF Inv, Typing, FilesType, dirs, loop, vars
<1> QED
  BY <1>1, <1>2, <1>3, <1>4, <1>5, <1>6, <1>7, <1>8 DEF Next

\* States on disk have been written, and what counts is in its range.
LEMMA CountersTypeStays ==
  ASSUME Inv, BoundsAssumption, [Next]_vars
  PROVE  CountersType'
<1>1. CASE Login
  BY <1>1 DEF Inv, Typing, CountersType, loop, Login
<1>2. CASE EndPhase \/ (\E p \in Programs : SaveFails(p))
  BY <1>2 DEF Inv, Typing, CountersType, Connected, loop, counters, EndPhase, SaveFails
<1>3. CASE \E p \in Programs : SaveOneClient(p)
  <2>1. PICK p \in Programs : SaveOneClient(p)
    BY <1>3
  <2>2. program[p].state \in States \union {0}
    BY ClientType DEF Inv, Typing, ProgramType
  <2> QED
    BY <2>1, <2>2 DEF Inv, Typing, CountersType, SaveOneClient, RememberCommand, counters
<1>4. CASE \E p \in Programs : RegisterNew(p)
  BY <1>4 DEF Inv, Typing, CountersType, loop, RegisterNew
<1>5. CASE \E p \in Programs : SetProperties(p)
  BY <1>5 DEF Inv, Typing, CountersType, loop, SetProperties
<1>6. CASE Exit
  BY <1>6 DEF Inv, Typing, CountersType, counters, Exit, Down
<1>7. CASE Crash
  <2>1. Discarded \subseteq States
    BY DEF Inv, Typing, FilesType, File, Discarded
  <2> QED BY <1>7, <2>1 DEF Inv, Typing, CountersType, counters, Crash, Down
<1>8. CASE \E f \in remaining : DiscardOne(f)
  BY <1>8 DEF Inv, Typing, CountersType, loop, counters, DiscardOne
<1>9. CASE \E f \in remaining : DiscardNew(f)
  BY <1>9 DEF Inv, Typing, CountersType, FilesType, Directories, Ids, States, File,
      loop, counters, DiscardNew
<1>10. CASE \/ SettingChanges \/ Logout \/ CancelLogout \/ AllSaved
            \/ Cleared \/ RemoveOldDir \/ RenameNewDir \/ UnlinkNew \/ RemoveNewDir
            \/ \E p \in Programs : Start(p)
            \/ \E p \in Programs : RefuseId(p)
            \/ \E p \in Programs : Disconnect(p)
            \/ \E p \in Programs, f \in apps : RegisterKnown(p, f)
  BY <1>10 DEF Inv, Typing, CountersType, loop, counters, SettingChanges, Logout,
      CancelLogout, AllSaved, Cleared, RemoveOldDir, RenameNewDir, UnlinkNew,
      RemoveNewDir, Start, RefuseId, Disconnect, RegisterKnown
<1>11. CASE UnlinkOne
  <2>1. Discarded \subseteq States
    BY DEF Inv, Typing, FilesType, File, Discarded
  <2> QED BY <1>11, <2>1 DEF Inv, Typing, CountersType, counters, UnlinkOne
<1>12. CASE UNCHANGED vars
  BY <1>12 DEF Inv, Typing, CountersType, loop, counters, vars
<1> QED
  BY <1>1, <1>2, <1>3, <1>4, <1>5, <1>6, <1>7, <1>8, <1>9, <1>10, <1>11, <1>12 DEF Next

\* The session manager is there before its clients, and they outlive its loop.
LEMMA SessionIsThereStays ==
  ASSUME Inv, BoundsAssumption, [Next]_vars
  PROVE  SessionIsThere'
<1>1. CASE Login
  BY <1>1 DEF Inv, Typing, CountersType, SessionIsThere, Login
<1>2. CASE \/ EndPhase
           \/ \E p \in Programs : SaveOneClient(p)
           \/ \E p \in Programs : SaveFails(p)
  BY <1>2 DEF Inv, Typing, SessionIsThere, Connected, InSession, dirs, loop, counters,
      EndPhase, SaveOneClient, SaveFails
<1>3. CASE Exit \/ Crash
  BY <1>3 DEF Inv, SessionIsThere, Exit, Crash, Down
<1>4. CASE \/ SettingChanges \/ Logout \/ CancelLogout \/ AllSaved \/ UnlinkOne
           \/ Cleared \/ RemoveOldDir \/ RenameNewDir \/ UnlinkNew \/ RemoveNewDir
           \/ \E p \in Programs : Start(p)
           \/ \E p \in Programs : RegisterNew(p)
           \/ \E p \in Programs : RefuseId(p)
           \/ \E p \in Programs : SetProperties(p)
           \/ \E p \in Programs : Disconnect(p)
           \/ \E p \in Programs, f \in apps : RegisterKnown(p, f)
           \/ \E f \in remaining : DiscardOne(f)
           \/ \E f \in remaining : DiscardNew(f)
  BY <1>4 DEF Inv, Typing, SessionIsThere, Connected, InSession, dirs, loop, counters,
      SettingChanges, Logout, CancelLogout, AllSaved, UnlinkOne, Cleared, RemoveOldDir,
      RenameNewDir, UnlinkNew, RemoveNewDir, Start, RegisterNew, RefuseId,
      SetProperties, Disconnect, RegisterKnown, DiscardOne, DiscardNew
<1>5. CASE UNCHANGED vars
  BY <1>5 DEF Inv, SessionIsThere, Connected, loop, counters, vars
<1> QED
  BY <1>1, <1>2, <1>3, <1>4, <1>5 DEF Next

\* One file is being removed, in the two steps that remove files.
LEMMA ClearingStays ==
  ASSUME Inv, BoundsAssumption, [Next]_vars
  PROVE  ClearingIsOne'
<1>1. CASE \/ \E f \in remaining : DiscardOne(f)
           \/ \E f \in remaining : DiscardNew(f)
  BY <1>1 DEF Inv, Typing, FilesType, Directories, ClearingIsOne, DiscardOne, DiscardNew
<1>2. CASE UnlinkOne \/ UnlinkNew \/ Exit \/ Crash
  BY <1>2 DEF Inv, ClearingIsOne, UnlinkOne, UnlinkNew, Exit, Crash, Down
<1>3. CASE \/ Login \/ SettingChanges \/ Logout \/ CancelLogout \/ EndPhase \/ AllSaved
           \/ Cleared \/ RemoveOldDir \/ RenameNewDir \/ RemoveNewDir
           \/ \E p \in Programs : Start(p)
           \/ \E p \in Programs : RegisterNew(p)
           \/ \E p \in Programs : RefuseId(p)
           \/ \E p \in Programs : SetProperties(p)
           \/ \E p \in Programs : Disconnect(p)
           \/ \E p \in Programs : SaveOneClient(p)
           \/ \E p \in Programs : SaveFails(p)
           \/ \E p \in Programs, f \in apps : RegisterKnown(p, f)
  BY <1>3 DEF Inv, Typing, ClearingIsOne, loop, Login, SettingChanges, Logout,
      CancelLogout, EndPhase, AllSaved, Cleared, RemoveOldDir, RenameNewDir,
      RemoveNewDir, Start, RegisterNew, RefuseId, SetProperties, Disconnect,
      SaveOneClient, SaveFails, RegisterKnown
<1>4. CASE UNCHANGED vars
  BY <1>4 DEF Inv, ClearingIsOne, loop, vars
<1> QED
  BY <1>1, <1>2, <1>3, <1>4 DEF Next

\* The loop visits the files it has found in the directory, each once.
LEMMA RemainingStays ==
  ASSUME Inv, BoundsAssumption, [Next]_vars
  PROVE  RemainingIsOld'
<1>1. CASE AllSaved
  BY <1>1 DEF Inv, RemainingIsOld, dirs, AllSaved
<1>2. CASE \E f \in remaining : DiscardOne(f)
  BY <1>2 DEF Inv, RemainingIsOld, dirs, DiscardOne
<1>3. CASE UnlinkOne
  <2>1. remaining \subseteq saved.files /\ clearing \intersect remaining = {}
    BY <1>3 DEF Inv, RemainingIsOld, UnlinkOne
  <2>2. Dir(saved.files \ clearing).files = saved.files \ clearing
    BY DEF Dir
  <2> QED BY <1>3, <2>1, <2>2 DEF RemainingIsOld, UnlinkOne
<1>4. CASE manager' \notin {"clear", "unlink"}
  BY <1>4 DEF RemainingIsOld
<1>5. CASE \/ Login \/ SettingChanges \/ Logout \/ CancelLogout \/ EndPhase \/ Cleared
           \/ RemoveOldDir \/ RenameNewDir \/ RemoveNewDir \/ UnlinkNew \/ Exit \/ Crash
           \/ \E p \in Programs : SaveOneClient(p)
           \/ \E p \in Programs : SaveFails(p)
           \/ \E f \in remaining : DiscardNew(f)
           \/ \E p \in Programs : Start(p)
           \/ \E p \in Programs : RegisterNew(p)
           \/ \E p \in Programs : RefuseId(p)
           \/ \E p \in Programs : SetProperties(p)
           \/ \E p \in Programs : Disconnect(p)
           \/ \E p \in Programs, f \in apps : RegisterKnown(p, f)
  <2>1. manager' \notin {"clear", "unlink"}
    BY <1>5 DEF Login, SettingChanges, Logout, CancelLogout, EndPhase, Cleared, RemoveOldDir,
       RenameNewDir, RemoveNewDir, UnlinkNew, Exit, Crash, Down, SaveOneClient, SaveFails,
       DiscardNew, Start, RegisterNew, RefuseId, SetProperties, Disconnect, RegisterKnown,
       InSession
  <2> QED BY <1>4, <2>1
<1>6. CASE UNCHANGED vars
  BY <1>6 DEF Inv, RemainingIsOld, dirs, loop, vars
<1> QED
  BY <1>1, <1>2, <1>3, <1>5, <1>6 DEF Next

\* An id is given to one client: a new one was never used, and a known one is refused
\* while a client has it.
LEMMA IdsStayUnique ==
  ASSUME Inv, BoundsAssumption, [Next]_vars
  PROVE  IdsAreUnique'
<1>1. CASE \E p \in Programs, f \in apps : RegisterKnown(p, f)
  BY <1>1 DEF Inv, IdsAreUnique, Connected, HasId, RegisterKnown, Registered
<1>2. CASE \E p \in Programs : RegisterNew(p)
  BY <1>2 DEF Inv, IdsAreUnique, NextIsFresh, Connected, RegisterNew, Registered
<1>3. CASE \E p \in Programs : Start(p)
  BY <1>3 DEF Inv, IdsAreUnique, Connected, Start
<1>4. CASE \E p \in Programs : RefuseId(p)
  BY <1>4 DEF Inv, Typing, ProgramType, Clients, IdsAreUnique, Connected, Gone, RefuseId
<1>5. CASE \E p \in Programs : SetProperties(p)
  BY <1>5 DEF Inv, Typing, ProgramType, Clients, IdsAreUnique, Connected, SetProperties
<1>6. CASE \E p \in Programs : Disconnect(p)
  BY <1>6 DEF Inv, IdsAreUnique, Connected, Gone, Disconnect
<1>7. CASE Exit \/ Crash
  BY <1>7 DEF Inv, IdsAreUnique, Connected, Gone, Exit, Crash, Down
<1>8. CASE \/ EndPhase
           \/ \E p \in Programs : SaveOneClient(p)
           \/ \E p \in Programs : SaveFails(p)
           \/ \E f \in remaining : DiscardOne(f)
           \/ \E f \in remaining : DiscardNew(f)
  <2>1. UNCHANGED program
    BY <1>8 DEF EndPhase, SaveOneClient, SaveFails, DiscardOne, DiscardNew
  <2> QED BY <2>1 DEF Inv, IdsAreUnique, Connected
<1>9. CASE \/ Login \/ SettingChanges \/ Logout \/ CancelLogout \/ AllSaved \/ UnlinkOne
           \/ Cleared \/ RemoveOldDir \/ RenameNewDir \/ UnlinkNew \/ RemoveNewDir
  BY <1>9 DEF Inv, IdsAreUnique, Connected, Login, SettingChanges, Logout, CancelLogout,
      AllSaved, UnlinkOne, Cleared, RemoveOldDir, RenameNewDir, UnlinkNew, RemoveNewDir
<1>10. CASE UNCHANGED vars
  BY <1>10 DEF Inv, IdsAreUnique, Connected, vars
<1> QED
  BY <1>1, <1>2, <1>3, <1>4, <1>5, <1>6, <1>7, <1>8, <1>9, <1>10 DEF Next

\* Registering and saving take the next id and the next state.
LEMMA NextStaysFresh ==
  ASSUME Inv, BoundsAssumption, [Next]_vars
  PROVE  NextIsFresh'
<1>1. CASE Login
  BY <1>1 DEF Inv, NextIsFresh, Connected, Dir, Login
<1>2. CASE \E p \in Programs, f \in apps : RegisterKnown(p, f)
  BY <1>2 DEF Inv, Typing, CountersType, NextIsFresh, Connected, dirs, counters,
      RegisterKnown, Registered
<1>3. CASE \E p \in Programs : RegisterNew(p)
  BY <1>3 DEF Inv, Typing, CountersType, NextIsFresh, Connected, dirs, RegisterNew,
      Registered
<1>4. CASE \E p \in Programs : SetProperties(p)
  BY <1>4 DEF Inv, Typing, ProgramType, Clients, CountersType, NextIsFresh, Connected,
      dirs, SetProperties
<1>5. CASE \E p \in Programs : Start(p)
  BY <1>5 DEF Inv, NextIsFresh, Connected, dirs, counters, Start
<1>6. CASE \E p \in Programs : RefuseId(p)
  BY <1>6 DEF Inv, Typing, ProgramType, Clients, NextIsFresh, Connected, Gone, dirs,
      counters, RefuseId
<1>7. CASE \E p \in Programs : Disconnect(p)
  BY <1>7 DEF Inv, NextIsFresh, Connected, Gone, dirs, counters, Disconnect
<1>8. CASE Exit \/ Crash
  BY <1>8 DEF Inv, NextIsFresh, Connected, Gone, dirs, counters, Exit, Crash, Down
<1>9. CASE UnlinkOne \/ RemoveOldDir
  <2>1. saved'.files \subseteq saved.files
    BY <1>9, DirectoriesShrink
  <2>2. UNCHANGED <<program, apps, counters>>
    BY <1>9 DEF UnlinkOne, RemoveOldDir
  <2> QED BY <2>1, <2>2 DEF Inv, NextIsFresh, Connected, counters
<1>10. CASE RenameNewDir
  <2>1. UNCHANGED <<program, apps, counters>>
    BY <1>10 DEF RenameNewDir
  <2>2. \A f \in saved'.files : f \in saved.files \/ \E p \in Connected : f = FileOf(p)
    BY <1>10, DirectoriesShrink DEF Inv, NewIsOfThisSave, Saving, RenameNewDir
  <2> QED BY <2>1, <2>2 DEF Inv, NextIsFresh, Connected, counters, FileOf
<1>11. CASE EndPhase
  BY <1>11 DEF Inv, NextIsFresh, Connected, Dir, dirs, counters, EndPhase
<1>12. CASE \/ \E f \in remaining : DiscardOne(f)
            \/ \E f \in remaining : DiscardNew(f)
  BY <1>12 DEF Inv, NextIsFresh, Connected, dirs, counters, DiscardOne, DiscardNew
<1>13. CASE \/ SettingChanges \/ Logout \/ CancelLogout \/ AllSaved \/ Cleared
            \/ UnlinkNew \/ RemoveNewDir
            \/ \E p \in Programs : SaveOneClient(p)
            \/ \E p \in Programs : SaveFails(p)
  BY <1>13 DEF Inv, NextIsFresh, Connected, Dir, dirs, counters, SettingChanges, Logout,
      CancelLogout, AllSaved, Cleared, UnlinkNew, RemoveNewDir, SaveOneClient, SaveFails
<1>14. CASE UNCHANGED vars
  BY <1>14 DEF Inv, NextIsFresh, Connected, dirs, counters, vars
<1> QED
  BY <1>1, <1>2, <1>3, <1>4, <1>5, <1>6, <1>7, <1>8, <1>9, <1>10, <1>11, <1>12, <1>13,
     <1>14 DEF Next

\* A program has a state it has just written, or that of the file with its id.
LEMMA OwnersStay ==
  ASSUME Inv, BoundsAssumption, [Next]_vars
  PROVE  StatesHaveOneOwner'
<1>1. CASE Login
  BY <1>1 DEF Inv, SessionIsThere, StatesHaveOneOwner, Connected, Gone, Dir, Login
<1>2. CASE \E p \in Programs, f \in apps : RegisterKnown(p, f)
  BY <1>2 DEF Inv, StatesHaveOneOwner, Connected, HasId, dirs, RegisterKnown, Registered
<1>3. CASE \E p \in Programs : RegisterNew(p)
  BY <1>3 DEF Inv, StatesHaveOneOwner, Connected, dirs, RegisterNew, Registered
<1>4. CASE \E p \in Programs : SetProperties(p)
  BY <1>4 DEF Inv, Typing, ProgramType, Clients, StatesHaveOneOwner, NextIsFresh,
      Connected, dirs, SetProperties
<1>5. CASE \E p \in Programs : Start(p)
  BY <1>5 DEF Inv, StatesHaveOneOwner, Connected, dirs, Start
<1>6. CASE \E p \in Programs : RefuseId(p)
  BY <1>6 DEF Inv, Typing, ProgramType, Clients, StatesHaveOneOwner, Connected, Gone,
      dirs, RefuseId
<1>7. CASE \E p \in Programs : Disconnect(p)
  BY <1>7 DEF Inv, StatesHaveOneOwner, Connected, Gone, dirs, Disconnect
<1>8. CASE Exit \/ Crash
  BY <1>8 DEF Inv, StatesHaveOneOwner, Connected, Gone, dirs, Exit, Crash, Down
<1>9. CASE UnlinkOne \/ RemoveOldDir
  <2>1. saved'.files \subseteq saved.files
    BY <1>9, DirectoriesShrink
  <2>2. UNCHANGED <<program, apps>>
    BY <1>9 DEF UnlinkOne, RemoveOldDir
  <2> QED BY <2>1, <2>2 DEF Inv, StatesHaveOneOwner, Connected
<1>10. CASE RenameNewDir
  <2>1. UNCHANGED <<program, apps>>
    BY <1>10 DEF RenameNewDir
  <2>2. \/ saved'.files = saved.files
        \/ \A f \in saved'.files : \E p \in Connected : f = FileOf(p)
    BY <1>10, DirectoriesShrink DEF Inv, NewIsOfThisSave, Saving, RenameNewDir
  <2> QED BY <2>1, <2>2 DEF Inv, StatesHaveOneOwner, FileOf, Connected
<1>11. CASE EndPhase
  BY <1>11 DEF Inv, StatesHaveOneOwner, Connected, Dir, dirs, EndPhase
<1>12. CASE \/ SettingChanges \/ Logout \/ CancelLogout \/ AllSaved \/ Cleared
            \/ UnlinkNew \/ RemoveNewDir
            \/ \E p \in Programs : SaveOneClient(p)
            \/ \E p \in Programs : SaveFails(p)
            \/ \E f \in remaining : DiscardOne(f)
            \/ \E f \in remaining : DiscardNew(f)
  BY <1>12 DEF Inv, StatesHaveOneOwner, Connected, Dir, dirs, SettingChanges, Logout,
      CancelLogout, AllSaved, Cleared, UnlinkNew, RemoveNewDir, SaveOneClient,
      SaveFails, DiscardOne, DiscardNew
<1>13. CASE UNCHANGED vars
  BY <1>13 DEF Inv, StatesHaveOneOwner, Connected, dirs, vars
<1> QED
  BY <1>1, <1>2, <1>3, <1>4, <1>5, <1>6, <1>7, <1>8, <1>9, <1>10, <1>11, <1>12, <1>13 DEF Next

\* The directory is empty when a save begins, and clients do not change during it.
LEMMA NewStaysOfThisSave ==
  ASSUME Inv, BoundsAssumption, [Next]_vars
  PROVE  NewIsOfThisSave'
<1>1. CASE EndPhase
  BY <1>1 DEF Inv, NewIsOfThisSave, Saving, Dir, EndPhase, EmptyNewDir
<1>2. CASE \E p \in Programs : SaveOneClient(p)
  BY <1>2 DEF Inv, SessionIsThere, NewIsOfThisSave, FileOf, Saving, Connected, Dir,
      counters, SaveOneClient
<1>3. CASE \/ \E p \in Programs : RegisterNew(p)
           \/ \E p \in Programs, f \in apps : RegisterKnown(p, f)
           \/ \E p \in Programs : Start(p)
           \/ \E p \in Programs : RefuseId(p)
           \/ \E p \in Programs : SetProperties(p)
           \/ \E p \in Programs : Disconnect(p)
  BY <1>3 DEF Inv, Typing, ProgramType, Clients, SessionIsThere, NewIsOfThisSave,
      FileOf, Saving, Connected, Gone, Dir, NoDir, InSession, RegisterNew,
      RegisterKnown, Start, RefuseId, SetProperties, Disconnect
<1>4. CASE Exit \/ Crash
  BY <1>4 DEF Inv, NewIsOfThisSave, Saving, Exit, Crash, Down
<1>5. CASE \/ \E f \in remaining : DiscardNew(f)
           \/ \E f \in remaining : DiscardOne(f)
           \/ UnlinkOne \/ UnlinkNew
  BY <1>5 DEF Inv, NewIsOfThisSave, FileOf, Saving, Connected, dirs, counters,
      DiscardNew, DiscardOne, UnlinkOne, UnlinkNew, loop
<1>6. CASE \/ Login \/ SettingChanges \/ Logout \/ CancelLogout \/ AllSaved \/ Cleared
           \/ RemoveOldDir \/ RenameNewDir \/ RemoveNewDir
           \/ \E p \in Programs : SaveFails(p)
  BY <1>6 DEF Inv, NewIsOfThisSave, FileOf, Saving, Connected, dirs, counters, Login,
      SettingChanges, Logout, CancelLogout, AllSaved, Cleared, RemoveOldDir,
      RenameNewDir, RemoveNewDir, SaveFails
<1>7. CASE UNCHANGED vars
  BY <1>7 DEF Inv, NewIsOfThisSave, FileOf, Saving, Connected, dirs, counters, vars
<1> QED
  BY <1>1, <1>2, <1>3, <1>4, <1>5, <1>6, <1>7 DEF Next

\* A discard command runs for a file of the old session; it is held back when the new
\* session has the state, and no other old file has it.
LEMMA StatesStayKept ==
  ASSUME Inv, BoundsAssumption, [Next]_vars
  PROVE  KeptStates'
<1>1. CASE Login
  BY <1>1 DEF Inv, SessionIsThere, KeptStates, Known, Saving, Connected, Gone, Dir,
      Login
<1>2. CASE \E f \in remaining : DiscardOne(f)
  <2>1. PICK g \in remaining : DiscardOne(g)
    BY <1>2
  <2>2. g \in saved.files
    BY <2>1 DEF Inv, RemainingIsOld, DiscardOne
  <2> QED BY <2>1, <2>2 DEF Inv, KeptStates, Known, StatesHaveOneOwner, Saving, dirs, DiscardOne
<1>3. CASE \E f \in remaining : DiscardNew(f)
  BY <1>3 DEF Inv, KeptStates, Known, Saving, dirs, DiscardNew
<1>4. CASE \E p \in Programs : SaveOneClient(p)
  BY <1>4 DEF Inv, SessionIsThere, KeptStates, Known, Saving, Connected, Dir,
      SaveOneClient, RememberCommand
<1>5. CASE EndPhase
  BY <1>5 DEF Inv, KeptStates, Known, Saving, Connected, Dir, dirs, EndPhase,
      EmptyNewDir
<1>6. CASE UnlinkOne
  <2>1. \A f \in saved'.files : f.state \in Known'
    <3>1. CASE saved' = Dir(saved.files \ clearing)
      BY <1>6, <3>1 DEF Inv, KeptStates, Known, Dir, UnlinkOne
    <3>2. CASE excused' = excused \union Discarded /\ UNCHANGED saved
      BY <1>6, <3>2 DEF Inv, KeptStates, Known, Discarded, UnlinkOne
    <3> QED BY <1>6, <3>1, <3>2 DEF UnlinkOne
  <2>2. Known \subseteq Known' /\ UNCHANGED <<new, discard_hash>>
    BY <1>6 DEF Known, UnlinkOne
  <2> QED BY <1>6, <2>1, <2>2 DEF Inv, KeptStates, Saving, UnlinkOne
<1>7. CASE RenameNewDir
  <2>1. UNCHANGED Known
    BY <1>7 DEF Known, RenameNewDir
  <2>2. \A f \in saved'.files : f.state \in Known
    BY <1>7, DirectoriesShrink DEF Inv, KeptStates, Saving, RenameNewDir
  <2> QED BY <1>7, <2>1, <2>2 DEF KeptStates, Saving, RenameNewDir
<1>8. CASE \E p \in Programs, f \in apps : RegisterKnown(p, f)
  BY <1>8 DEF Inv, KeptStates, Known, Saving, Connected, dirs, RegisterKnown, Registered
<1>9. CASE \E p \in Programs : RegisterNew(p)
  BY <1>9 DEF Inv, KeptStates, Known, Saving, Connected, dirs, RegisterNew, Registered
<1>10. CASE \E p \in Programs : SetProperties(p)
  BY <1>10 DEF Inv, Typing, ProgramType, Clients, KeptStates, Known, Saving, Connected,
      dirs, loop, SetProperties
<1>11. CASE \E p \in Programs : Start(p)
  BY <1>11 DEF Inv, KeptStates, Known, Saving, Connected, dirs, loop, Start
<1>12. CASE \E p \in Programs : RefuseId(p)
  BY <1>12 DEF Inv, Typing, ProgramType, Clients, KeptStates, Known, Saving, Connected,
      Gone, dirs, loop, RefuseId
<1>13. CASE \E p \in Programs : Disconnect(p)
  BY <1>13 DEF Inv, KeptStates, Known, Saving, Connected, Gone, dirs, loop, Disconnect
<1>14. CASE Exit
  BY <1>14 DEF Inv, KeptStates, Known, Saving, dirs, Exit, Down
<1>15. CASE Crash
  <2>1. \A f \in saved.files : f.state \in Known'
    BY <1>15 DEF Inv, KeptStates, Known, Discarded, Crash
  <2> QED BY <1>15, <2>1 DEF KeptStates, Saving, dirs, Crash, Down
<1>16. CASE UnlinkNew \/ RemoveNewDir
  BY <1>16 DEF Inv, KeptStates, Known, Saving, UnlinkNew, RemoveNewDir
<1>17. CASE RemoveOldDir
  <2>1. saved'.files \subseteq saved.files
    BY <1>17, DirectoriesShrink
  <2> QED BY <1>17, <2>1 DEF Inv, KeptStates, Known, Saving, loop, RemoveOldDir
<1>18. CASE \E p \in Programs : SaveFails(p)
  BY <1>18 DEF Inv, KeptStates, Known, Saving, dirs, SaveFails
<1>19. CASE SettingChanges \/ Logout \/ CancelLogout \/ AllSaved \/ Cleared
  BY <1>19 DEF Inv, KeptStates, Known, Saving, Connected, dirs, loop, SettingChanges,
      Logout, CancelLogout, AllSaved, Cleared
<1>20. CASE UNCHANGED vars
  BY <1>20 DEF Inv, KeptStates, Known, Saving, Connected, dirs, loop, vars
<1> QED
  BY <1>1, <1>2, <1>3, <1>4, <1>5, <1>6, <1>7, <1>8, <1>9, <1>10, <1>11, <1>12, <1>13,
     <1>14, <1>15, <1>16, <1>17, <1>18, <1>19, <1>20 DEF Next

\* The directory is cleared of the old files before the new ones take its place.
LEMMA OneSaveStays ==
  ASSUME Inv, BoundsAssumption, [Next]_vars
  PROVE  SessionIsOfOneSave'
<1>1. CASE Login \/ EndPhase
  BY <1>1 DEF Inv, SessionIsOfOneSave, Dir, dirs, Login, EndPhase
<1>2. CASE UnlinkOne \/ RemoveOldDir
  BY <1>2, DirectoriesShrink DEF Inv, SessionIsOfOneSave
<1>3. CASE RenameNewDir
  BY <1>3, DirectoriesShrink DEF Inv, SessionIsOfOneSave, NewIsOfThisSave, FileOf, Saving,
     RenameNewDir
<1>4. CASE \E f \in remaining : DiscardNew(f)
  BY <1>4 DEF Inv, SessionIsOfOneSave, dirs, DiscardNew
<1>5. CASE \/ SettingChanges \/ Logout \/ CancelLogout \/ AllSaved \/ Cleared
           \/ UnlinkNew \/ RemoveNewDir \/ Exit \/ Crash
           \/ \E p \in Programs : Start(p)
           \/ \E p \in Programs : RegisterNew(p)
           \/ \E p \in Programs : RefuseId(p)
           \/ \E p \in Programs : SetProperties(p)
           \/ \E p \in Programs : Disconnect(p)
           \/ \E p \in Programs : SaveOneClient(p)
           \/ \E p \in Programs : SaveFails(p)
           \/ \E p \in Programs, f \in apps : RegisterKnown(p, f)
           \/ \E f \in remaining : DiscardOne(f)
  BY <1>5 DEF Inv, SessionIsOfOneSave, NewIsOfThisSave, FileOf, Saving, Dir, NoDir,
      dirs, loop, SettingChanges, Logout, CancelLogout, AllSaved, Cleared, UnlinkNew,
      RemoveNewDir, Exit, Crash, Start, RegisterNew, RefuseId, SetProperties,
      Disconnect, SaveOneClient, SaveFails, RegisterKnown, DiscardOne, Down
<1>6. CASE UNCHANGED vars
  BY <1>6 DEF Inv, SessionIsOfOneSave, dirs, vars
<1> QED
  BY <1>1, <1>2, <1>3, <1>4, <1>5, <1>6 DEF Next

\* The invariant holds in every behaviour.
LEMMA Invariance == ASSUME BoundsAssumption PROVE Spec => []Inv
<1>1. Init => Inv
  <2> SUFFICES ASSUME Init PROVE Inv
    OBVIOUS
  <2>1. ManagerType
    BY Zenon DEF Init, ManagerType, Steps
  <2>2. ProgramType /\ FilesType
    BY ClientType, DirectoryType DEF Init, ProgramType, FilesType
  <2>3. CountersType
    BY BoundsAssumption DEF Init, CountersType, BoundsAssumption
  <2>4. /\ SessionIsThere /\ ClearingIsOne /\ RemainingIsOld /\ IdsAreUnique /\ NextIsFresh
        /\ NewIsOfThisSave
    BY DEF Init, SessionIsThere, ClearingIsOne, RemainingIsOld, IdsAreUnique, NextIsFresh, NewIsOfThisSave,
       Connected, Saving, Gone, NoDir
  <2>5. StatesHaveOneOwner /\ KeptStates /\ SessionIsOfOneSave
    BY DEF Init, StatesHaveOneOwner, KeptStates, SessionIsOfOneSave, Connected, Saving, Gone, NoDir
  <2> QED BY <2>1, <2>2, <2>3, <2>4, <2>5 DEF Inv, Typing
<1>2. Inv /\ [Next]_vars => Inv'
  <2> SUFFICES ASSUME Inv, [Next]_vars PROVE Inv'
    OBVIOUS
  <2>1. Typing'
    BY BoundsAssumption, ManagerTypeStays, ProgramTypeStays, FilesTypeStays, CountersTypeStays
       DEF Typing
  <2>2. SessionIsThere' /\ ClearingIsOne' /\ RemainingIsOld' /\ IdsAreUnique' /\ NextIsFresh'
    BY BoundsAssumption, SessionIsThereStays, ClearingStays, RemainingStays, IdsStayUnique,
       NextStaysFresh
  <2>3. StatesHaveOneOwner' /\ NewIsOfThisSave' /\ KeptStates' /\ SessionIsOfOneSave'
    BY BoundsAssumption, OwnersStay, NewStaysOfThisSave, StatesStayKept, OneSaveStays
  <2> QED BY <2>1, <2>2, <2>3 DEF Inv
<1> QED
  BY <1>1, <1>2, PTL DEF Spec

\* Every variable keeps its type, and a file name belongs to one client: nobody is
\* given an id that a client of the session has (on_xsmp_client_register_request).
THEOREM SavedTypeCorrect == Spec => []TypeOK
<1>1. Inv => TypeOK
  <2> SUFFICES ASSUME Inv PROVE TypeOK
    OBVIOUS
  <2>1. Cardinality(clearing) <= 1
    <3>1. CASE clearing = {}
      BY <3>1, FS_EmptySet
    <3>2. CASE \E file \in File : clearing = {file}
      BY <3>2, FS_Singleton
    <3> QED BY <3>1, <3>2 DEF Inv, ClearingIsOne
  <2> QED
    BY <2>1, Zenon DEF Inv, Typing, ManagerType, Steps, ProgramType, Clients, FilesType,
       Directories, CountersType, IdsAreUnique, TypeOK
<1> QED
  BY <1>1, BoundsAssumption, Invariance, PTL

\* A login never finds files of two saves (the order of gsm_session_save, with a
\* crash between any two of its steps).
THEOREM OneSaveCorrect == Spec => []SessionIsOfOneSave
<1>1. Inv => SessionIsOfOneSave
  BY DEF Inv
<1> QED
  BY <1>1, BoundsAssumption, Invariance, PTL

\* Discarding the old session spares the states the saved one names
\* (gsm_session_clear_one_client with discard_hash).
THEOREM SavedStatesCorrect == Spec => []SavedStatesExist
<1>1. Inv => SavedStatesExist
  BY DEF Inv, KeptStates, Known, SavedStatesExist
<1> QED
  BY <1>1, BoundsAssumption, Invariance, PTL
=============================================================================
