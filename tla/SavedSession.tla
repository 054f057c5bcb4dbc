---------------------------- MODULE SavedSession ----------------------------
(***************************************************************************)
(* The session that is saved at logout and comes back at login             *)
(* (gsm-session-save.c, and its callers in gsm-manager.c, main.c and       *)
(* gsm-xsmp-client.c), over several logins.                                *)
(*                                                                         *)
(* A program saves its own state to a file of its own, and tells the       *)
(* session manager, as properties of its XSMP connection, the command      *)
(* that brings it back and the one that discards that state.  At the end   *)
(* of the session there is one desktop file per client in a new directory; *)
(* the states of the old session are discarded, its directory is cleared   *)
(* and the new one renamed to it.  The session manager may be killed       *)
(* between any two of these steps, a file may fail to be written or to be  *)
(* removed, and a directory to be made or renamed.                         *)
(***************************************************************************)
EXTENDS Naturals, FiniteSets

CONSTANTS Programs,    \* the programs that may run
          MaxIds,      \* startup ids that are generated
          MaxStates,   \* states that programs save
          MaxLogins    \* logins

ASSUME BoundsAssumption == MaxIds \in Nat /\ MaxStates \in Nat /\ MaxLogins \in Nat

VARIABLES
  manager,       \* "down", "running", "ending", or the step of the save it is in
  login_window,  \* the session is the display manager's own
  autosave,      \* the setting auto-save-session
  program,       \* the programs, with their XSMP connections
  apps,          \* the saved desktop files that were loaded at login
  saved,         \* the directory saved-session: there or not, and its files
  new,           \* the directory saved-session.new
  states,        \* the states of programs that are on disk
  todo,          \* clients that the loop of the save has not visited
  remaining,     \* files that the clearing of a directory has not visited
  clearing,      \* the file that is being removed
  discard_hash,  \* the discard commands of the files written by this save
  nextId, nextState, logins,
  excused        \* history: states discarded by a save that failed, was
                 \* interrupted, or could not remove the file

dirs == <<saved, new>>
loop == <<todo, remaining, clearing, discard_hash>>
counters == <<nextId, nextState, logins>>
vars == <<manager, login_window, autosave, program, apps, dirs, states, loop, counters,
          excused>>

\* Programs ask for an id when they register; 0 asks for a new one.
Ids == 1..MaxIds
States == 1..MaxStates

\* A desktop file: the client's id is its name and is in its command, state
\* is what its discard command is about, 0 when it has none.
File == [id : Ids, state : States \union {0}, save : 1..MaxLogins]
Dir(files) == [there |-> TRUE, files |-> files]
NoDir == [there |-> FALSE, files |-> {}]

\* restart: a restart command is set and the restart style is not "never".
Gone == [conn |-> "none", id |-> 0, state |-> 0, restart |-> FALSE]
Connected == {p \in Programs : program[p].conn = "registered"}
HasId(i) == \E p \in Connected : program[p].id = i

TypeOK ==
  /\ manager \in {"down", "running", "ending", "save", "clear", "unlink", "rmdir", "rename",
                  "clear_new", "unlink_new", "rmdir_new", "exit"}
  /\ login_window \in BOOLEAN /\ autosave \in BOOLEAN
  /\ program \in [Programs -> [conn : {"none", "open", "registered"}, id : Ids \union {0},
                               state : States \union {0}, restart : BOOLEAN]]
  /\ apps \subseteq File
  /\ saved \in [there : BOOLEAN, files : SUBSET File]
  /\ new \in [there : BOOLEAN, files : SUBSET File]
  /\ states \subseteq 1..(nextState - 1)
  /\ todo \subseteq Programs /\ remaining \subseteq File
  /\ clearing \subseteq File /\ Cardinality(clearing) <= 1
  /\ discard_hash \subseteq States
  /\ nextId \in 1..(MaxIds + 1) /\ nextState \in 1..(MaxStates + 1) /\ logins \in 0..MaxLogins
  /\ excused \subseteq States
  \* The name of a file belongs to one client.
  /\ \A p, q \in Connected : program[p].id = program[q].id => p = q

Init ==
  /\ manager = "down" /\ login_window = FALSE /\ autosave \in BOOLEAN
  /\ program = [p \in Programs |-> Gone] /\ apps = {}
  /\ saved = NoDir /\ new = NoDir /\ states = {}
  /\ todo = {} /\ remaining = {} /\ clearing = {} /\ discard_hash = {}
  /\ nextId = 1 /\ nextState = 1 /\ logins = 0 /\ excused = {}

-----------------------------------------------------------------------------
(* Login.                                                                  *)

\* load_standard_apps: in a session that is neither failsafe nor the login
\* window's the saved desktop files become applications, when the setting is on.
\* gsm_util_get_saved_session_dir makes the directory, if it can.
Login ==
  /\ manager = "down" /\ logins < MaxLogins
  /\ logins' = logins + 1
  /\ manager' = "running"
  /\ \E failsafe, window \in BOOLEAN :
       /\ login_window' = window
       /\ IF ~failsafe /\ ~window /\ autosave
          THEN saved' \in {Dir(saved.files), saved} /\ apps' = saved.files
          ELSE apps' = {} /\ UNCHANGED saved
  /\ UNCHANGED <<autosave, program, new, states, loop, nextId, nextState, excused>>

SettingChanges ==
  /\ manager = "running"
  /\ autosave' = ~autosave
  /\ UNCHANGED <<manager, login_window, program, apps, dirs, states, loop, counters, excused>>

-----------------------------------------------------------------------------
(* Programs and their registration.                                        *)

InSession == manager \in {"running", "ending"}

\* The session manager starts a saved application with its id; the user may
\* start one with any id it has ever had, or none.
Start(p) ==
  /\ InSession /\ program[p] = Gone
  /\ \E i \in 0..(nextId - 1) : program' = [program EXCEPT ![p] = [Gone EXCEPT !.conn = "open", !.id = i]]
  /\ UNCHANGED <<manager, login_window, autosave, apps, dirs, states, loop, counters, excused>>

\* A program that is brought back has its command, and its discard command if
\* it still goes by the state it was saved with.
Registered(i, state, restart) ==
  [conn |-> "registered", id |-> i, state |-> state, restart |-> restart]

\* on_xsmp_client_register_request: nobody registers while the session ends.
RegisterNew(p) ==
  /\ manager = "running" /\ program[p].conn = "open" /\ program[p].id = 0
  /\ nextId <= MaxIds /\ nextId' = nextId + 1
  /\ program' = [program EXCEPT ![p] = Registered(nextId, 0, FALSE)]
  /\ UNCHANGED <<manager, login_window, autosave, apps, dirs, states, loop, nextState, logins,
                 excused>>

\* Fault: the clients are not searched for the id.
RegistersAgain(p, file) ==
  /\ manager = "running" /\ program[p].conn = "open"
  /\ file.id = program[p].id
  /\ \E state \in {0, file.state}, restart \in BOOLEAN :
       program' = [program EXCEPT ![p] = Registered(file.id, state, restart)]
  /\ UNCHANGED <<manager, login_window, autosave, apps, dirs, states, loop, counters, excused>>

\* find_app_for_startup_id: the id is that of an application of the session,
\* and "we can't have two clients with the same id".
RegisterKnown(p, file) ==
  /\ manager = "running" /\ program[p].conn = "open"
  /\ file.id = program[p].id /\ ~HasId(file.id)
  /\ \E state \in {0, file.state}, restart \in BOOLEAN :
       program' = [program EXCEPT ![p] = Registered(file.id, state, restart)]
  /\ UNCHANGED <<manager, login_window, autosave, apps, dirs, states, loop, counters, excused>>

\* An id that is taken or unknown is refused, and libSM asks for a new one;
\* a program that is refused that too goes on without the session manager.
RefuseId(p) ==
  /\ InSession /\ program[p].conn = "open"
  /\ \/ /\ program[p].id # 0
        /\ manager # "running" \/ HasId(program[p].id)
           \/ ~\E file \in apps : file.id = program[p].id
        /\ program' = [program EXCEPT ![p].id = 0]
     \/ /\ program[p].id = 0 /\ manager # "running"
        /\ program' = [program EXCEPT ![p] = Gone]
  /\ UNCHANGED <<manager, login_window, autosave, apps, dirs, states, loop, counters, excused>>

\* A SaveYourself is answered: the program writes a new state or keeps to the
\* one it has (or to none), and sets its properties.
SetProperties(p) ==
  /\ InSession /\ p \in Connected
  /\ \E restart \in BOOLEAN :
       \/ program' = [program EXCEPT ![p].restart = restart] /\ UNCHANGED <<states, nextState>>
       \/ /\ nextState <= MaxStates /\ nextState' = nextState + 1
          /\ states' = states \union {nextState}
          /\ program' = [program EXCEPT ![p].state = nextState, ![p].restart = restart]
  /\ UNCHANGED <<manager, login_window, autosave, apps, dirs, loop, nextId, logins, excused>>

Disconnect(p) ==
  /\ InSession /\ program[p].conn # "none"
  /\ program' = [program EXCEPT ![p] = Gone]
  /\ UNCHANGED <<manager, login_window, autosave, apps, dirs, states, loop, counters, excused>>

-----------------------------------------------------------------------------
(* Logout and the save.                                                    *)

Logout ==
  /\ manager = "running" /\ manager' = "ending"
  /\ UNCHANGED <<login_window, autosave, program, apps, dirs, states, loop, counters, excused>>

CancelLogout ==
  /\ manager = "ending" /\ manager' = "running"
  /\ UNCHANGED <<login_window, autosave, program, apps, dirs, states, loop, counters, excused>>

\* Fault: what an interrupted save has left is not removed.
LeavesNewDir == Dir(new.files)

\* gsm_util_get_empty_tmp_session_dir.
EmptyNewDir == Dir({})

\* end_phase of END_SESSION and maybe_save_session: every client has answered, all
\* are gone, or the time is over.  Nothing is saved without both directories.
EndPhase ==
  /\ manager = "ending"
  /\ \/ /\ autosave /\ ~login_window
        /\ manager' = "save"
        /\ saved' = Dir(saved.files) /\ new' = EmptyNewDir
        /\ todo' = Connected /\ discard_hash' = {}
        /\ UNCHANGED <<remaining, clearing>>
     \/ /\ autosave /\ ~login_window /\ ~(saved.there /\ new.there)
        /\ manager' = "exit"
        /\ saved' \in {Dir(saved.files), saved}
        /\ UNCHANGED <<new, loop>>
     \/ /\ ~autosave \/ login_window
        /\ manager' = "exit" /\ UNCHANGED <<dirs, loop>>
  /\ UNCHANGED <<login_window, autosave, program, apps, states, counters, excused>>

\* Fault: discard commands are not remembered.
ForgetsCommand(p) == UNCHANGED discard_hash

RememberCommand(p) == discard_hash' = discard_hash \union ({program[p].state} \ {0})

\* save_one_client and xsmp_save: a client that does not want to be restarted
\* has no file.
SaveOneClient(p) ==
  /\ manager = "save" /\ p \in todo
  /\ todo' = todo \ {p}
  /\ IF program[p].restart
     THEN /\ new' = Dir(new.files \union
                        {[id |-> program[p].id, state |-> program[p].state, save |-> logins]})
          /\ RememberCommand(p)
     ELSE UNCHANGED <<new, discard_hash>>
  /\ UNCHANGED <<manager, login_window, autosave, program, apps, saved, states, remaining,
                 clearing, counters, excused>>

\* The desktop file a client names cannot be read, or its own cannot be written.
\* The error is freed and then read: if that does not end the program (Crash),
\* the new directory is cleared, with no hash.
SaveFails(p) ==
  /\ manager = "save" /\ p \in todo /\ program[p].restart
  /\ manager' = "clear_new" /\ todo' = {} /\ discard_hash' = {} /\ remaining' = new.files
  /\ UNCHANGED <<login_window, autosave, program, apps, dirs, states, clearing, counters,
                 excused>>

AllSaved ==
  /\ manager = "save" /\ todo = {}
  /\ manager' = "clear" /\ remaining' = saved.files
  /\ UNCHANGED <<login_window, autosave, program, apps, dirs, states, todo, clearing,
                 discard_hash, counters, excused>>

\* gsm_session_clear_one_client runs the discard command, unless it is also that
\* of a new file, and then removes the file.
DiscardOne(file) ==
  /\ manager = "clear" /\ file \in remaining
  /\ manager' = "unlink" /\ clearing' = {file} /\ remaining' = remaining \ {file}
  /\ states' = states \ ({file.state} \ discard_hash)
  /\ UNCHANGED <<login_window, autosave, program, apps, dirs, todo, discard_hash, counters,
                 excused>>

\* The states of the file under way that may be gone from the disk.
Discarded == {f.state : f \in clearing} \ ({0} \union discard_hash)

\* What g_unlink returns goes into a result that nobody looks at.
UnlinkOne ==
  /\ manager = "unlink"
  /\ \/ saved' = Dir(saved.files \ clearing) /\ UNCHANGED excused
     \/ excused' = excused \union Discarded /\ UNCHANGED saved
  /\ manager' = "clear" /\ clearing' = {}
  /\ UNCHANGED <<login_window, autosave, program, apps, new, states, todo, remaining,
                 discard_hash, counters>>

Cleared ==
  /\ manager = "clear" /\ remaining = {}
  /\ manager' = "rmdir"
  /\ UNCHANGED <<login_window, autosave, program, apps, dirs, states, loop, counters, excused>>

\* A directory that has files is not removed.
WithoutDir(dir) == IF dir.files = {} THEN NoDir ELSE dir

RemoveOldDir ==
  /\ manager = "rmdir" /\ manager' = "rename"
  /\ saved' = WithoutDir(saved)
  /\ UNCHANGED <<login_window, autosave, program, apps, new, states, loop, counters, excused>>

\* g_rename does not replace a directory that has files; nobody looks whether it
\* has failed, and the new files stay where they are.
RenameNewDir ==
  /\ manager = "rename" /\ manager' = "exit"
  /\ \/ saved.files = {} /\ saved' = new /\ new' = NoDir
     \/ UNCHANGED dirs
  /\ UNCHANGED <<login_window, autosave, program, apps, states, loop, counters, excused>>

\* The branch of a failed save: every discard command of the new files runs, also
\* when the old session, which stays, has it too.
DiscardNew(file) ==
  /\ manager = "clear_new" /\ file \in remaining
  /\ manager' = "unlink_new" /\ clearing' = {file} /\ remaining' = remaining \ {file}
  /\ states' = states \ {file.state}
  /\ excused' = excused \union ({file.state} \ {0})
  /\ UNCHANGED <<login_window, autosave, program, apps, dirs, todo, discard_hash, counters>>

UnlinkNew ==
  /\ manager = "unlink_new"
  /\ new' \in {Dir(new.files \ clearing), new}
  /\ manager' = "clear_new" /\ clearing' = {}
  /\ UNCHANGED <<login_window, autosave, program, apps, saved, states, todo, remaining,
                 discard_hash, counters, excused>>

RemoveNewDir ==
  /\ manager = "clear_new" /\ remaining = {}
  /\ manager' = "exit" /\ new' = WithoutDir(new)
  /\ UNCHANGED <<login_window, autosave, program, apps, saved, states, loop, counters, excused>>

\* The end of the session ends the connections, and so does a crash.
Down ==
  /\ manager' = "down" /\ login_window' = FALSE
  /\ program' = [p \in Programs |-> Gone] /\ apps' = {}
  /\ todo' = {} /\ remaining' = {} /\ clearing' = {} /\ discard_hash' = {}

Exit ==
  /\ manager = "exit"
  /\ Down
  /\ UNCHANGED <<autosave, dirs, states, counters, excused>>

Crash ==
  /\ manager # "down"
  /\ Down
  /\ excused' = excused \union Discarded
  /\ UNCHANGED <<autosave, dirs, states, counters>>

Next ==
  \/ Login \/ SettingChanges \/ Logout \/ CancelLogout \/ EndPhase
  \/ \E p \in Programs :
       \/ Start(p) \/ RegisterNew(p) \/ RefuseId(p) \/ SetProperties(p) \/ Disconnect(p)
       \/ \E file \in apps : RegisterKnown(p, file)
       \/ SaveOneClient(p) \/ SaveFails(p)
  \/ AllSaved \/ UnlinkOne \/ Cleared \/ RemoveOldDir \/ RenameNewDir
  \/ \E file \in remaining : DiscardOne(file) \/ DiscardNew(file)
  \/ UnlinkNew \/ RemoveNewDir \/ Exit \/ Crash

Spec == Init /\ [][Next]_vars

-----------------------------------------------------------------------------
\* Whatever interrupts a save, what a login finds in the directory was written
\* by one save: never some files of the old session and some of the new, which
\* would bring the same programs back twice.  A file that could not be removed
\* keeps the new session out.
SessionIsOfOneSave == \A f, g \in saved.files : f.save = g.save

\* A program that comes back finds the state it has saved: discarding the old
\* session (gsm_session_clear_one_client) spares what the new one needs.  Excused
\* are the states a failed save has discarded with its new files (the FIXME of
\* gsm_session_save), and that of a file that a crash has kept from being removed,
\* or whose removal has failed.
SavedStatesExist ==
  \A f \in saved.files :
    f.state = 0 \/ f.state \in states \union excused
      \/ f \in clearing
=============================================================================
