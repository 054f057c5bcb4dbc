# mate-session-manager in TLA+

A model of the session manager of the MATE desktop: how a session starts, how
its programs are kept running, how it becomes idle, and above all how it ends:
the programs that are asked, the session that is saved, the login manager that
restarts the machine, and the autostart entries the next session will find.
The models are translated from the C code, handler by handler; TLC checks them
on small instances and TLAPS proves the main invariants for every instance.
`PROJECT.json` lists the runs, the hazards, the theorems and, under `map`, the
lines every definition stands for.

## The system

`mate-session` is one process with one thread. Everything it does happens in
handlers that the GLib main loop calls: D-Bus methods and signals, messages on
ICE connections, timers, child watches, file and GSettings monitors, answers of
dialogs. A handler runs to completion, so two handlers never interleave; what
interleaves are the *events*, and what makes the code hard is that handlers call
each other deeply (removing an inhibitor may make a dialog answer itself, which
ends a phase, which starts the next one) and that state is left between events
by one handler and found by another.

| part | state it keeps | operations | whom it talks to |
|---|---|---|---|
| session manager, end of the session (`gsm-manager.c`) | phase, logout mode and type, lists of clients asked, two timers, stores of clients and inhibitors, inhibit dialog | Logout, Shutdown, Request*, RegisterClient, Inhibit, Uninhibit, answers and disconnections of clients, timers, dialog answers | clients, dialogs, stores, the login manager |
| session manager, start of the session (`gsm-manager.c`, `gsm-app.c`) | phase, applications the phase waits for, its timer, the handlers connected to each application | start, application registered or exited, timer | applications |
| XSMP client (`gsm-xsmp-client.c`) | save in progress, save queued | query, end, second phase, cancel, the program's messages | the program over ICE, the manager |
| D-Bus client (`gsm-dbus-client.c`) | bus name | query, end, stop, EndSessionResponse | the program, the manager |
| XSMP server (`gsm-xsmp-server.c`) | sockets, authority file | accept, register | clients, store |
| autostart application (`gsm-autostart-app.c`) | pid, child watch, condition | start, stop, restart, condition changes, child ends | the program, the manager |
| presence (`gsm-presence.c`) and idle monitor (`gs-idle-monitor.c`) | status, saved status, idle watch, screensaver | set status, idle alarms, screensaver signals, idle enabled or not | X server, screensaver, manager |
| inhibit dialog (`gsm-inhibit-dialog.c`), logout dialog (`gsm-logout-dialog.c`) | list of inhibitors; one dialog at a time and its countdown | answers, closing itself | manager, stores |
| stores (`gsm-store.c`) | hash table of objects | add, remove, visit, remove while visiting | everybody |
| session save (`gsm-session-save.c`, `gsm-util.c`) | the directories `saved-session` and `saved-session.new`, the discard commands remembered | save, discard, clear, rename; load at login | clients, programs' own state files |
| ConsoleKit, systemd (`gsm-consolekit.c`, `gsm-systemd.c`) | connection, proxy of the bus, proxy of the login manager | what is possible, reboot, stop, suspend, hibernate, idle hint | login manager, system bus |
| display manager client (`mdm.c`) | cached actions | get and set the logout action | display manager |
| preferences program (`capplet/`) | one object per entry, delayed saves, directory monitors, edit dialog | toggle, edit, create, copy, delete, save, reload | file system |
| signal handler, main | little | | |
| tools | none | one D-Bus call or one probe | manager |

### What is hard

* the order of answers, refusals, disconnections, timers and dialog answers while
  the session ends; any client may be silent, late, or gone;
* dialogs and timers that outlive the state they were opened for;
* XSMP saves that cross: checkpoints the program asks for, the query, the final
  save, cancellations;
* applications that register or exit late, in a later phase or in the running session;
* the end of a child, the end of its client and a change of its condition, which are
  separate events about one program;
* alarms and screensaver signals that both make the session idle;
* a save of the session that ends half way: killed, or a file that cannot be written;
* calls that block the main loop while the login manager or the bus goes away;
* delayed saves of autostart entries that cross the notices of their own writes and
  the writes of others.

### What makes each part correct

* End: the bookkeeping of a shutdown (timers, lists, just-in-time inhibitors, mode,
  type) agrees with the phase whatever happened; inhibitors are respected; the end
  cannot be held up for ever by a silent client.
* Start: phases come in order, each waits for its applications and not for ever.
* XSMP: a save believed to be in progress is; a queued one will be sent; saves do
  not overlap; waiting for an answer ends.
* Autostart: signals go to the program's own process; the program follows its condition.
* Presence: the status shown is that of the user, and comes back after idleness.
* Saved session: what a login brings back is one session, and the states its programs
  need are there.
* Login manager: a proxy of a process that is gone is dropped; a restart or shutdown
  is carried out or left to the display manager, not lost and not given to both.
* Preferences: what the window shows and what the user decided are what is on disk
  when everything has been saved and noticed.

## Modules

`SessionEnd`
:   `gsm-manager.c` from RUNNING to the exit of the main loop, with the D-Bus and
    XSMP clients, inhibitors and dialogs around it. `mgr` is `GsmManagerPrivate`
    with its stores and inhibit dialog as one record. C functions that call each
    other inside a handler are operators from records to records under their own
    names (`end_phase`, `query_end_session_complete`, `cancel_end_session`,
    `RemoveInhibitors` with the dialog that answers itself); an action applies the
    operator of the handler its event runs. `logout_dialog` is the one dialog of
    `gsm-logout-dialog.c`, `link` the ICE connections with how often "disconnected"
    is hooked, `leaving` the clients that `gsm_store_foreach_remove` still visits,
    in the arbitrary order of its hash table. `process` says whether the main loop
    runs, was left, or died of an assertion or a freed pointer.

`SessionLifecycle`
:   what somebody outside sees: running, asking, ending, over, and the way the
    session ends. `SessionEnd` implements it (`ImplementsLifecycle`).

`SessionStart`
:   the startup phases, the applications each waits for, the handlers `_start_app`
    connects and `on_phase_timeout` disconnects. What becomes of an application is
    an input chosen in `Init`; `Register`, `Exit`, `Die` and `StartAgain` happen at
    any time, also after the phase of the application.

`XsmpClient`
:   one XSMP client: `current_save_yourself`, `next_save_yourself`, the two FIFO
    directions of its connection, and a program that behaves as libSM makes it. The
    rest of the session is reduced to the phase, whether the manager waits for this
    client, and the freedom to go on. `seen` remembers what has complicated the
    exchange, so that properties can say up to where they hold.

`AutostartApp`
:   one autostart application and the manager's handling of it: launch, child watch,
    stop, restart, condition and delay. Processes are a pool of ids that are reused
    once reaped; `condition_clients` is a count (`listed`) and what it holds of
    clients that are gone (`stale`), because a new client may get their address.
    What the desktop file says is chosen in `Init` and does not change.

`Presence`
:   the status, the idle watch with its alarms in transit, and the screensaver.
    `chosen` and `disturbed` are history variables.

`SavedSession`
:   the session over several logins: programs that register with an id, write a
    state of their own and set its discard command; the logout that writes one file
    per client to `saved-session.new`, discards the states of the old session,
    removes its files one by one, and renames the directory. `manager` is the step
    it is in; `Crash` may follow every step, `SaveFails` every file. A file may fail to
    be removed (`UnlinkOne`, `UnlinkNew`), which leaves its directory where it is
    (`WithoutDir`) and lets the renaming fail; a directory may fail to be made
    (`Login`, `EndPhase`). A file is its id, the state its discard command is about,
    and the login that wrote it.

`PowerCalls`
:   `gsm-systemd.c` and `gsm-consolekit.c` (one model, `logind` says which is in use)
    and `mdm.c`, with the part of `gsm-manager.c` and `gsm-logout-dialog.c` that calls
    them. A handler is a queue of calls (`todo`); each call renews the connection,
    the proxy of the bus and the proxy of the login manager, sends, and blocks; while
    it blocks the world goes on and signals wait in `queue`. The names of operations
    are those both backends share.

`AutostartFiles`
:   the preferences program and one basename: its files in the user's and the system
    directories, the `GspApp` objects and the references to them, their delayed saves
    with the `save_mask`, the monitor's events, the edit dialog, and somebody else who
    writes and deletes. A file that is written is reported once or twice. `refs` counts
    the references of the list and the dialog; a known entry that is copied again is
    listed twice and has one reference, and a pointer to an object that has lost its
    last is followed to `program = "freed"`. `wanted` and `mishaps` are history
    variables. `wanted` is what the user has decided, field by field: a foreign change
    takes from it what no pending save will write again. `mishaps` collects what has
    gone wrong, at the step where it does, and each property names the mishaps it
    excepts and nothing else: reports not yet dispatched, files that cannot be read or
    are not for MATE, edits that cross reports, and any number of system files are all
    inside.

`MCSessionEnd`, `MCSessionStart`
:   the instances of the two modules whose constants are functions or records.
    The other modules are small enough to be run as they are.

`SessionEndProofs`, `SessionStartProofs`, `XsmpClientProofs`, `AutostartAppProofs`, `PresenceProofs`, `PowerCallsProofs`, `SavedSessionProofs`, `AutostartFilesProofs`
:   theorems.

How the modules meet: `SavedSession` and `PowerCalls` take up the end of the session
where `SessionEnd` has `maybe_save_session` and the exit of the main loop; each reduces
the rest of the manager to "running", "ending" and what follows. `SavedSession`
leaves to `SessionEnd` who is asked in which order, and has any client answer, or
not, before the phase ends. `AutostartFiles` writes the desktop files whose contents
`AutostartApp` and `SessionStart` choose in `Init`.

Definitions preceded by "Fault:" are wrong variants of the definition that follows.
Putting one in its place must break the property `PROJECT.json` pairs it with.

## Runs

| run | checks | expected | bounds | distinct states |
|---|---|---|---|---|
| `SessionEnd_safety` | types, timers, shutdown state, just-in-time inhibitors, lists, inhibited query | holds | 2 D-Bus clients on one connection, 1 XSMP client, 2 inhibitors, LOGOUT, SHUTDOWN, SLEEP | 493560 |
| `SessionEnd_liveness` | a query ends or asks; END_SESSION ends; the refinement | holds | 1 + 1 clients, one inhibitor, LOGOUT, SHUTDOWN, SWITCH_USER | 33986 |
| `SessionEnd_dialog_assertion` | the assertion of `logout_dialog_response` | violated | 1 client | |
| `SessionEnd_forced` | a forced logout ignores inhibitors | violated | 1 client, one inhibitor | |
| `XsmpClient_saves` | progress is real, saves do not overlap, answers arrive | holds | 2 logouts, 2 checkpoints | 100807 |
| `XsmpClient_redundant` | "the new SaveYourself is redundant" | violated | 2 logouts, 1 checkpoint | |
| `SessionStart_phases` | phases end in order, the session keeps running and starts | holds | 4 applications in 3 phases, one delayed | 171165 |
| `AutostartApp_condition` | the pid is not reused, the program is known, is stopped | holds | 3 processes, 4 changes of the condition, every desktop file | 351840 |
| `Presence_status` | watch, status that comes back, undisturbed idleness | holds | 3 statuses, 3 alarms in transit | 564 |
| `SavedSession_logins` | types and unique ids, one save, states kept | holds | 2 programs, 2 ids, 2 states, 3 logins | 688068 |
| `PowerCalls_calls` | types, stale proxies told and dropped, no request lost or made twice, the end comes | holds | both backends, login manager started twice, bus falls once | 823456 |
| `AutostartFiles_saves` | types, what is shown, what was decided, pending edits, saves settle | holds | 2 system directories, 2 objects, 2 edits, 1 foreign change | 766640 |

Why the bounds are enough: two clients of one connection are what it takes for one
event to disconnect several, in either order; a third, XSMP, client answers with
everything the protocol has (interaction, second phase, cancellation) and lives
when the bus dies. Two inhibitors, one of the clients' own program and one that
inhibits something else, distinguish all the cases of `is_logout_inhibited`, of the
dialog and of the removal by bus name. Two logouts let a message of a cancelled one
arrive in the next. Three processes are an old program, its successor and one more
instance. Four applications are two that share a phase, one of a later phase and one
delayed. Two programs compete for an id and share a directory; three logins are one
that saves, one that reads and saves again, failing or dying, and one that finds what
is left (three programs, 4150228 states, or three ids and
three states, 10523133 states, hold as well). Two starts of the
login manager are an owner and its successor, between which a proxy goes stale; one
fall of the bus is enough for each pointer to be found dangling. Two system
directories make one entry that hides another of which it is not the user's, and both
may have the file in every property; two
objects are an entry and the one that takes its place; two edits let a decision change
while its first save is pending or its report is, and one foreign change may fall
anywhere. Three edits with one change, 9592862 states, hold as well.

What the two properties of `AutostartFiles` about the disk except is stated with them.
`ShownIsOnDisk` excepts six mishaps: a write that failed, two entries of one name, a
save that kept in the file what the window did not show, a report ignored for a delay
that was over, a system file that was not read when the user's was deleted, and an
entry removed though another directory has it. `DecisionIsOnDisk` excepts three: a write
that failed, two entries of one name, and a save that went by another file than the one
the session reads. Each is needed: without any one of them TLC finds the property
violated. Three are, or may be, the code contradicting its own comments, "outdated",
"removed" and "ignored" (departures 5 to 7); the others are listed below under what
else the models show. Neither says anything of a program that has aborted at an
assertion (departure 4) or met a freed object.

Deadlock is checked in `SessionStart`, `AutostartApp` and `Presence`. It is not in
`SessionEnd`, whose main loop is left when the session ends, and not in
`XsmpClient`, whose connection falls silent when the bounded logouts are over; nor in
`PowerCalls`, where the session exits, `AutostartFiles`, where the window is closed,
and `SavedSession`, which ends after its last login.

### Fairness

* `SessionEnd`: weak fairness of the two timers and of the walk over the store: the
  main loop fires a timer that is due, and a handler that runs goes on. Clients and
  users owe nothing.
* `SessionStart`: `main` starts the manager, the phase timer fires.
* `XsmpClient`: both ends read what has arrived and the program finishes a save it
  has begun; only `AnswersArrive` uses it. A program that hangs is what the phase
  timer of `SessionEnd` is for.
* `PowerCalls`: weak fairness of the main loop's own steps and of the reply, or of the
  bus's reply for a peer that died (libdbus times out); strong fairness of dispatching
  what is queued, because other handlers run in between but GLib serves every source.
  Nothing is owed by the login manager, which may die, by the bus, and by the user.
* `AutostartFiles`: the delay fires, the monitor's events are dispatched, the window
  that is being closed disposes of its objects.
* `AutostartApp`, `Presence` and `SavedSession` are checked for safety only.

### Where the code departs from what is said of it

The first three have a run that shows them:

1. `logout_dialog_response` asserts that the mode is NORMAL. A second Logout, without
   confirmation, while the dialog is open changes the mode; if the dialog is answered
   before that logout is over (its query is inhibited, or a client has yet to answer),
   the session manager aborts. (`SessionEnd_dialog_assertion`)
2. A logout of mode 2 is documented to ignore any inhibitors
   (`org.gnome.SessionManager.xml:295`). The mode only spares it the inhibitors of
   clients that say no or do not answer: for an application's inhibitor it opens the
   inhibit dialog and waits for the user, like any other. (`SessionEnd_forced`)
3. `save_yourself_done_callback` takes 0 for nothing queued, while the rest of the file
   uses -1: a queued SmSaveGlobal (0) is never sent and makes later saves "redundant",
   so that END_SESSION waits for its timeout; and with nothing queued (-1) a
   SaveYourself of type -1 is sent, which libSM drops. (`XsmpClient_redundant`)

The others are in `AutostartFiles`. They have no run of their own, but each is a
behaviour of the module, and a mishap that a property of `AutostartFiles_saves` must
except because of it (in 4, a value of `program`):

4. The assertions of `gsp-app.c` and `gsp-app-manager.c` can fail (`program =
   "aborted"`). `_gsp_find_free_basename` asks for an object *and* a user file, so a new
   entry may take the name of a file that only a system directory has; the object does
   not know of that file, and when the file is deleted `_gsp_app_manager_handle_delete`
   reaches `g_assert_not_reached`. Another way is a system file that is created before
   the one shown and deleted again before the creation is noticed.
5. A report of the user's own file that is dispatched while a save is pending sets the
   position of the *system* file to 0 ("Note: xdg_position >= 1 so it's a system dir",
   `gsp-app.c:907`). The save then takes the user's file for the system's; if the user
   has gone back to what it says, the file is removed since "the data from the system
   dir is enough", and his decision with it. Nobody else is needed for that: the report may be that of
   the program's own earlier write. ("outdated")
6. `_gsp_app_manager_handle_delete` takes an entry whose file is deleted for gone
   ("there's no other file in system directories") when its system position is that
   directory, which it also is when a later directory has the file; and the same when
   it knows of none. ("removed")
7. A save that falls back to the system file leaves `save_timeout`, so a later change
   of the file by others, which "we'll update our data from disk", is ignored as one
   during a pending save. ("ignored")

### What else the models show

Behaviour of the code that no run is spent on, because the repository says nothing
against it or says it itself; each can be followed in the module.

* `SessionEnd`: a client that asked to be ended last and then disconnects stays in `next_query_clients`. While
  the inhibit dialog of a suspend is open, an inhibited query has no dialog and no timer
  of its own (`QueryEndsOrAsks` fails with SLEEP in `OtherActions`). An XSMP client lost
  before it registered stays in the store.
* `AutostartApp`: `app_exited` resets the pid whichever child ended, so after a restart
  the new program is forgotten: it is not stopped when its condition fails, and a second
  instance is started when it holds. An application stopped before it registered is
  restarted if it registers first. A condition that becomes true again while the stopped
  program is leaving does not start it. The check at the end of an autostart delay
  swallows the pending notice of a change.
* `Presence`: an idle inhibitor that arrives while the session is idle removes the watch
  that would have told of the user's return.
* `SavedSession`: a crash between clearing the old session and the rename loses it, and
  the next save empties the new directory without running its discard commands. A
  failed save discards states the old session still needs (the FIXME of
  `gsm_session_save`; `excused` in `SavedStatesExist`). `save_one_client` frees the error
  its caller reads. When every client leaves in END_SESSION an empty session is saved.
  A state written between two saves and never saved stays on disk. A file that cannot be
  removed keeps the new session from taking the place of the old, of which it is all
  that is left; nobody looks at the result. A directory that could not be made is tried
  again at the next save.
* `PowerCalls`: the privilege checks before a reboot or shutdown always say yes, so the
  session has ended when the login manager refuses. The MDM variants of the logout
  types are reachable from nowhere. The timeout of the shutdown dialog answers SHUTDOWN
  even when that button is not offered. The idle hint is lost when the login manager
  restarts. The main loop stands still while PolicyKit asks. When the login manager dies
  after it has acted and before it replies, the display manager is asked too. An action
  that could not be set at the display manager is lost silently (`missed`).
* `AutostartFiles`: a file that cannot be read and is toggled is saved with
  `Exec=/bin/false`. The edit dialog overwrites what others have changed meanwhile, and
  re-creates an entry that was removed. A failed save is not tried again. A save merges
  its fields into the file the entry was read from, though another may have come before
  it since, or somebody has changed its other fields, which the window then does not
  show ("outdated", "unseen"). When the user's file is deleted and the system's is not
  for MATE or cannot be read, the entry stays in the list without a position ("adrift").
  A name whose user file is gone is given to a second object ("shared"); copying a file
  to the name of a known entry lists that entry twice with one reference, so that a
  removal, a search of the list or the closing of the window meets a freed object.

## Proofs

All for every value of the constants, under the named assumptions on them
(`ConstantsAssumption`, `BoundsAssumption` and so on, which the runs evaluate):

* `SessionEndProofs`: `TypeCorrect`, `TimersCorrect`, `ShutdownStateCorrect`,
  `JitInhibitorsCorrect`, `WaitListsCorrect`. No one of these invariants is inductive:
  that END_SESSION has its timer needs that the exit phase runs through to its end,
  which needs a logout type; that the lists hold only clients of the store needs that
  just-in-time inhibitors do. `Good(m)` collects them for one record, with
  `ExitIsFinal`. Because handlers nest, the induction goes function by function
  (`StartExit`, `StartEndSession`, `StartQuery`, `EndPhase`, `CancelEndSession`, and so
  on upwards): each takes good records to good ones, with a weaker precondition
  (`MayEndPhase`) where the code calls a function half way through an update. An
  action then follows from the lemma of its handler, and `Invariance` from the actions.
  `QueryCorrect` goes the same way: wherever a handler calls `end_phase`, what lets the
  query end (`Free`) holds and stays so until the handler returns (`EndsFreely`), also
  when one handler runs `on_client_disconnected` twice.
  `LifecycleCorrect`: `SessionEnd` implements `Lifecycle!Safety`. Each function moves the
  manager onward by any number of phases, cancels, redirects or fails (`Moves`), and
  every move is a step of `SessionLifecycle` or nothing to it; `QuitIsExit` is the only
  further invariant.
* `SessionStartProofs`: `StartTypeCorrect`, `PhasesInOrder` and `RunningIsKept` by `Inv`:
  the applications still waited for are applications of the phase, and the others of the
  phase have announced themselves (`Waits`); a phase timer runs only before
  the APPLICATION phase, after which no phase waits.
* `XsmpClientProofs`: `XsmpTypeCorrect`, and `ProgressCorrect` by what covers a save in
  progress (`Covered`): the message on its way, the program's work, its answer. Each step
  hands it on or ends the save.
  `OverlapCorrect` by `Orderly`: while no logout is cancelled and no second phase is asked
  for, at most one save is on its way and at most one answer on its way back; none is on
  its way while the program works on a save or its answer is not read yet, and the
  manager knows of the one there is. "At most one" is said of the positions in a queue,
  not of a count, which would be an induction over data.
* `AutostartAppProofs`: `AppTypeCorrect`; `PidCorrect` for any application; `OneProcess` and
  `DisabledIsStopped` for one that is neither restarted nor delayed, by `OneInv`: the
  one process id in use is the pid, and the client's if there is a client.
* `PresenceProofs`: `PresenceTypeCorrect`, `WatchCorrect` and `ChosenStatusCorrect`,
  inductive together with the types; `IdleCorrect` by `IdleInv`, since the alarms under
  way are those of the watch that is set and the last of them says what the user does.
* `PowerCallsProofs`: `PowerTypeCorrect`, and `PowerStaleProxyIsTold` by `LinkInv`: a proxy
  is looked up only after NameOwnerChanged is watched, and the last message of a dead
  connection is the one that frees it. `PowerRequestIsNotLost` and `PowerOnlyOneIsAsked`
  by `EndInv`: before the end no handler asks for a restart or a shutdown, and the only
  call of the exit is that attempt, after the action at the display manager was taken back.
* `SavedSessionProofs`: `SavedTypeCorrect`, `OneSaveCorrect`, `SavedStatesCorrect` by
  `Inv`. That clearing the old session spares the new one's states needs more than the
  remembered discard commands: two files of one old session must not share a state
  (`StatesHaveOneOwner`), for which a program must have a state it has just written or
  that of the file whose id it has, which is where the refusal of an id that is taken
  comes in. The loop visits each file once (`RemainingIsOld`): one that could not be
  removed keeps its place and its state is excused. `NewIsOfThisSave` ties the new directory to the clients of this save.
* `AutostartFilesProofs`: `FilesTypeCorrect`, and `EditIsKept` by `Inv`: an object whose
  save is due is in the list or held by the edit dialog, never one that was released and
  whose place was taken, so that reading its file again leaves the edit alone. That a file
  falls back to the lowest directory that has it needs that a set of naturals has a
  least member (`LeastNatural`, from the well-foundedness of the naturals).
  `DecisionCorrect`: `DecisionIsOnDisk` with its three exceptions, for any number of
  directories, objects, edits and changes of others. The invariant (`Decision`) says that,
  unless one of the three has happened, at most one object is alive, with a reference for
  its place in the list and one for the edit dialog (`Single`), no dialog is left when the
  window is closed (`Ending`), and where each decided field is (`Placed`, `Faithful`): in the mask of the pending save, with
  its value in the object, or in the file the session reads; and then the object agrees
  about it whenever that file is the one its save would start from, so that a save of
  another field hands it on. The proof follows the handlers: what a save makes of the
  files (the user's comes before all others; without it the first system file is in
  force), what a report makes of an object, what an edit puts into the mask, and what a
  foreign change leaves of the decision.

Every invariant and action property of the runs that must pass is the conclusion of a
theorem but one. Model-checked only: `ShownIsOnDisk`, whose inductive invariant would have
to account for every report under way; liveness under fairness (out of the prover's
reach), and with it what `ImplementsLifecycle` promises beyond `LifecycleCorrect`.

## Abstractions

* `SessionEnd` starts in RUNNING: requests to end are refused before. The MDM and
  INTERACT logout types are those of the plain ones; privilege checks answer before
  they return, and a denial changes nothing. The session save and the calls to the
  login manager are in modules of their own; the signals that end the process at once
  (`gsm_main` on fatal signals) are left out.
* Lists and stores are sets, one inhibitor of a kind at a time; just-in-time
  inhibitors are made by the manager itself.
* libSM turns down messages that its protocol does not allow at that moment.
* The thirty seconds of END_SESSION, or the ten its documentation names, are some time;
  `GSM_MANAGER_EXIT_PHASE_TIMEOUT` is defined and not used, and neither is modelled.
* `SessionStart` has no logout: one is refused before RUNNING. `StartAgain` covers
  delays, restarts and conditions, which `AutostartApp` has in detail.
* `AutostartApp` has one application, spawned, not forking, and a session that is
  starting, running or ending. The launcher library is an absent submodule: what is
  used of it is that it yields a pid or an error.
* `Presence`: the idle delay is zero or not; alarms of a removed watch find no watch
  when they arrive; programs set the statuses that are theirs, not IDLE.
* `SavedSession`: a directory is a set of files, and of a desktop file what tells two
  sessions apart; a discard command removes its state at once; a program
  that is killed leaves what it has on disk. A login reads the saved session in one step.
  What an earlier save has left in the new directory can always be removed
  (`EmptyNewDir`).
* `PowerCalls`: one system bus, one session; a login manager that replies has either
  carried out the request or refused it. Calls to the display manager are one outcome,
  reached or not, because its socket is blocking. Two calls are left out: the type of
  the session, and whether it is the user's last.
* `AutostartFiles`: one basename; all texts of an entry are one (`exec`), compared,
  masked and saved alike. Adding by choosing an installed program or by dropping a file
  is `Create` or `Copy`.
* Bounds that only TLC needs: `MaxLogouts`, `MaxCheckpoints`, `MaxChanges`,
  `MaxAlarms`, `MaxStarts`, `MaxFalls`, `MaxEdits`, `MaxIds`, `MaxStates`, `MaxLogins`, and
  the size of `Procs`.

## Not modelled

Texts, icons, layout, translation; the parsing of desktop files and the text protocol of
the display manager, whose outcomes are inputs; the listening sockets and the ICE
authority file of the XSMP server, which are set up once; the pipe of
`mdm-signal-handler.c`, whose hazards are undefined behaviour inside a signal handler;
`main.c` but for the saved session, which runs once before the main loop; the command
line tools and the probes of the graphics hardware, which make one call each.

## What could follow

1. `Store`: visiting a store that changes (`gsm-store.c`), as a module `SessionEnd` can
   be shown to use correctly; the registration time limit of `gsm-xsmp-server.c`.
2. `InhibitDialog`: its list against the store of inhibitors, and what it answers.
