--------------------------- MODULE AutostartFiles ---------------------------
(***************************************************************************)
(* The preferences program: gsp-app.c, gsp-app-manager.c and the dialogs   *)
(* that call them.  One basename is followed: its files in the user's      *)
(* autostart directory, 0, and in the system's, 1 and up, the GspApp       *)
(* objects that have it, the saves they delay by two seconds, and what the *)
(* directory monitors report.  Somebody else writes and deletes the files  *)
(* as well.                                                                *)
(*                                                                         *)
(* exec stands for all the texts of an entry; name, comment, command and   *)
(* delay are compared, masked and saved one like the other.                *)
(***************************************************************************)
EXTENDS Naturals, SequencesExt

CONSTANTS Systems,     \* system directories
          Objects,     \* GspApp objects
          MaxEdits,    \* edits of the user
          MaxChanges   \* changes made by others

ASSUME SystemsAssumption == Systems \in Nat \ {0}
ASSUME ObjectsAssumption == Objects \subseteq Nat /\ 0 \notin Objects
ASSUME BoundsAssumption == MaxEdits \in Nat /\ MaxChanges \in Nat

VARIABLES
  file,      \* what each directory has under the basename
  events,    \* what the monitors have noticed, and is not dispatched
  apps,      \* priv->apps of the manager, the newest first
  rows,      \* the objects the list of the window shows
  refs,      \* the references the manager's list and the edit dialog have
  obj,       \* the GspApp objects
  editing,   \* the open edit dialog, with what it shows
  program,   \* "running", "closing", "closed", "aborted", or "freed" once a
             \* pointer to a finalized object has been followed
  edits, changes,
  wanted,    \* history: what the user has decided and nobody has overwritten
  mishaps    \* history: what has gone wrong

bounds == <<edits, changes>>
vars == <<file, events, apps, rows, refs, obj, editing, program, edits, changes,
          wanted, mishaps>>

(***************************************************************************)
(* What can go wrong with an entry, for the properties to say up to where  *)
(* they hold.                                                              *)
(*   "failed"    a file could not be written (gsp-app.c:497)               *)
(*   "shared"    two objects have the name, or one is listed twice         *)
(*               (gsp-app.c:1029-1031)                                     *)
(*   "outdated"  a save fell back to, or kept fields of, a file that is    *)
(*               not the one the session reads (gsp-app.c:432-448)         *)
(*   "unseen"    a save kept in the file what the window does not show     *)
(*   "ignored"   a report was ignored because of a delay that was over     *)
(*               (gsp-app.c:434, 902)                                      *)
(*   "adrift"    the file the entry should have turned to was not read,    *)
(*               and its position is G_MAXUINT (gsp-app.c:831-832)         *)
(*   "removed"   the entry was removed though another directory has it     *)
(*               (gsp-app-manager.c:321)                                   *)
(***************************************************************************)
Mishaps == {"failed", "shared", "outdated", "unseen", "ignored", "adrift", "removed"}

Dirs == 0..Systems
None == Systems + 1                       \* G_MAXUINT

\* "elsewhere" is an entry that is not for MATE, "broken" one that no key
\* file can be read from.
Content(kind, hidden, exec) == [kind |-> kind, hidden |-> hidden, exec |-> exec]
Absent == Content("absent", FALSE, "")
Broken == Content("broken", FALSE, "")
Written ==
  {Content("app", h, "old") : h \in BOOLEAN}
    \union {Content("app", FALSE, "new"), Content("elsewhere", FALSE, "old"), Broken}
Execs == {"old", "new", "/bin/false"}
Contents ==
  [kind : {"app", "elsewhere"}, hidden : BOOLEAN, exec : Execs] \union {Absent, Broken}
Fields == {"hidden", "exec"}

Exists(f) == f.kind # "absent"
Loadable(f) == f.kind \in {"app", "elsewhere"}
gsp_app_can_launch(f) == f.kind = "app"

Lowest(S) == IF S = {} THEN None ELSE CHOOSE d \in S : \A e \in S : d <= e

\* The session reads the first directory that has a file it can read.
InForce(f, dirs) == Lowest({d \in dirs : Loadable(f[d])})

Event(dir, deleted) == [dir |-> dir, deleted |-> deleted]
\* A file that is written is noticed once or twice, CREATED and CHANGED.
WriteNotes(dir) == {<<Event(dir, FALSE)>>, <<Event(dir, FALSE), Event(dir, FALSE)>>}
DeleteNotes(dir, f) == IF Exists(f[dir]) THEN <<Event(dir, TRUE)>> ELSE <<>>

AppOf(dir, sys, content) ==
  [path |-> dir, xdg_position |-> dir, xdg_system_position |-> sys,
   hidden |-> content.hidden, exec |-> content.exec,
   save_timeout |-> "none", save_mask |-> {}, old_system_path |-> None, skip |-> FALSE]
Apps ==
  [path : Dirs, xdg_position : Dirs \union {None}, xdg_system_position : Dirs \union {None},
   hidden : BOOLEAN, exec : Execs,
   save_timeout : {"none", "live", "stale"}, save_mask : SUBSET Fields,
   old_system_path : Dirs \union {None}, skip : BOOLEAN]

Unused == AppOf(0, None, Content("app", FALSE, "old"))

Alive == {a \in Objects : refs[a] > 0}
\* Nobody points to them, not even to what has been freed.
FreeObjects == Objects \ (Alive \union ToSet(apps) \union {editing.app})
NewObject == CHOOSE a \in FreeObjects : \A b \in FreeObjects : a <= b
NotEditing == editing = [app |-> 0, exec |-> ""]
HeadIsFreed == apps # <<>> /\ Head(apps) \notin Alive
Pending == {a \in Alive : obj[a].save_timeout = "live"}

(***************************************************************************)
(* What the user has decided about an entry: which of its fields, and what *)
(* they are to say.                                                        *)
(***************************************************************************)
Undecided == [fields |-> {}, hidden |-> FALSE, exec |-> ""]
Decided(w, fields, hidden, exec) ==
  [fields |-> w.fields \union fields,
   hidden |-> IF "hidden" \in fields THEN hidden ELSE w.hidden,
   exec   |-> IF "exec" \in fields THEN exec ELSE w.exec]
Kept(w, fields) ==
  [fields |-> w.fields \intersect fields,
   hidden |-> "hidden" \in fields /\ w.hidden,
   exec   |-> IF "exec" \in fields THEN w.exec ELSE ""]
Says(f, w) ==
  /\ "hidden" \in w.fields => f.hidden = w.hidden
  /\ "exec" \in w.fields => f.exec = w.exec

TypeOK ==
  /\ file \in [Dirs -> Contents]
  /\ events \in Seq([dir : Dirs, deleted : BOOLEAN])
  /\ apps \in Seq(Objects) /\ rows \in SUBSET Objects
  /\ refs \in [Objects -> Nat]
  /\ obj \in [Objects -> Apps]
  /\ editing \in [app : Objects \union {0}, exec : Execs \union {""}]
  /\ program \in {"running", "closing", "closed", "aborted", "freed"}
  /\ edits \in 0..MaxEdits /\ changes \in 0..MaxChanges
  /\ wanted \in [fields : SUBSET Fields, hidden : BOOLEAN, exec : Execs \union {""}]
  /\ mishaps \in SUBSET Mishaps
  \* An object whose save is due is still somebody's.
  /\ \A a \in Objects : obj[a].save_timeout = "live" => a \in Alive

\* gsp_app_manager_fill reads the directories in order: the first entry is
\* the one that is used, and what a later one adds is that it is there.
gsp_app_manager_fill(f) ==
  LET first == Lowest({d \in Dirs : gsp_app_can_launch(f[d])})
  IN  AppOf(first, Lowest({d \in 1..Systems : d >= first /\ Exists(f[d])}), f[first])

Init ==
  /\ file \in [Dirs -> {Absent, Content("app", FALSE, "old"), Content("app", TRUE, "old")}]
  /\ events = <<>>
  /\ editing = [app |-> 0, exec |-> ""]
  /\ IF \E d \in Dirs : gsp_app_can_launch(file[d])
     THEN \E a \in Objects :
            /\ apps = <<a>> /\ rows = {a}
            /\ refs = [o \in Objects |-> IF o = a THEN 1 ELSE 0]
            /\ obj = [o \in Objects |-> IF o = a THEN gsp_app_manager_fill(file) ELSE Unused]
            /\ \A b \in Objects : a <= b
     ELSE /\ apps = <<>> /\ rows = {}
          /\ refs = [o \in Objects |-> 0] /\ obj = [o \in Objects |-> Unused]
  /\ program = "running" /\ edits = 0 /\ changes = 0
  /\ wanted = Undecided /\ mishaps = {}

-----------------------------------------------------------------------------
(* Saving.                                                                 *)

\* Fault: whether the entry is enabled is not compared.
EqualButForHidden(o, f) ==
  /\ o.xdg_system_position # None
  /\ Loadable(f[o.xdg_system_position])
  /\ f[o.xdg_system_position].exec = o.exec

user_equal_system(o, f) ==
  /\ o.xdg_system_position # None
  /\ Loadable(f[o.xdg_system_position])
  /\ f[o.xdg_system_position].hidden = o.hidden
  /\ f[o.xdg_system_position].exec = o.exec

\* The file that gives what is not in the mask.
Basis(o) == IF o.old_system_path # None THEN o.old_system_path ELSE o.path

\* What is in the mask goes over what the file had; a file that cannot be
\* read is populated first.
Merged(o, base) ==
  LET b == IF Loadable(base) THEN base ELSE Content("app", FALSE, "/bin/false") IN
  Content(b.kind, IF "hidden" \in o.save_mask THEN o.hidden ELSE b.hidden,
          IF "exec" \in o.save_mask THEN o.exec ELSE b.exec)

save_done_success(o) == [o EXCEPT !.save_mask = {}, !.old_system_path = None]

\* The fields not in the mask stem from another file than the session's.
KeepsAnother(o, f) ==
  o.save_mask # Fields /\ InForce(f, Dirs) \notin {None, Basis(o)}
Reason(happens, mishap) == IF happens THEN {mishap} ELSE {}

\* _gsp_app_save: the outcomes, with the object, the files, what the monitors
\* notice and what goes wrong.  Only the user's directory can be written.  The
\* first branch leaves save_timeout as it is.
gsp_app_save(o, f) ==
  IF user_equal_system(o, f)
  THEN LET o2 == [save_done_success(o) EXCEPT !.path = o.xdg_system_position,
                                              !.xdg_position = o.xdg_system_position]
       IN  {[obj |-> o2,
             file |-> IF o.path = 0 THEN [f EXCEPT ![0] = Absent] ELSE f,
             notes |-> IF o.path = 0 THEN DeleteNotes(0, f) ELSE <<>>,
             mishaps |-> Reason(\/ o.xdg_system_position # InForce(f, 1..Systems)
                                \/ KeepsAnother(o, f), "outdated")]}
  ELSE LET merged == Merged(o, f[Basis(o)]) IN
       {[obj |-> [o EXCEPT !.save_timeout = "none"], file |-> f, notes |-> <<>>,
         mishaps |-> {"failed"}]}
       \union
       {[obj |-> [save_done_success(o) EXCEPT !.save_timeout = "none", !.skip = TRUE],
         file |-> [f EXCEPT ![0] = merged], notes |-> n,
         mishaps |-> Reason(KeepsAnother(o, f), "outdated") \union
                     Reason(merged.hidden # o.hidden \/ merged.exec # o.exec, "unseen")] :
           n \in IF o.path = 0 THEN WriteNotes(0) ELSE {}}

queue_save(o) ==
  IF o.xdg_position = 0 THEN [o EXCEPT !.save_timeout = "live"]
  ELSE [o EXCEPT !.save_timeout = "live", !.xdg_position = 0, !.path = 0,
                 !.old_system_path = IF @ = None THEN o.path ELSE @]

set_hidden(o, hidden) ==
  [o EXCEPT !.hidden = hidden, !.save_mask = @ \union {"hidden"}]

Unsaved(o, f) == [obj |-> o, file |-> f, notes |-> <<>>, mishaps |-> {}]

\* Fault: the delayed save outlives the object.
ReleasedWithTimeout(a, o, f) == {Unsaved(o, f)}

\* g_object_unref.  gsp_app_dispose: an object that loses its last reference
\* saves at once.
Released(a, o, f) ==
  IF refs[a] > 1 THEN {Unsaved(o, f)}
  ELSE IF o.save_timeout = "none" THEN {Unsaved(Unused, f)}
  ELSE {[s EXCEPT !.obj = Unused] : s \in gsp_app_save([o EXCEPT !.save_timeout = "none"], f)}

unref(a) == refs' = [refs EXCEPT ![a] = @ - 1]

\* The result of a save becomes the state; queue is what was noticed before.
Becomes(a, s, queue) ==
  /\ obj' = [obj EXCEPT ![a] = s.obj]
  /\ file' = s.file /\ events' = queue \o s.notes

\* Fault: the source is not removed when it has saved.
SaveTimeoutStays(a) ==
  /\ program = "running" /\ a \in Pending
  /\ \E s \in gsp_app_save(obj[a], file) :
       Becomes(a, s, events) /\ mishaps' = mishaps \union s.mishaps
  /\ UNCHANGED <<apps, rows, refs, editing, program, bounds, wanted>>

\* The delay is over.
SaveTimeout(a) ==
  /\ program = "running" /\ a \in Pending
  /\ \E s \in gsp_app_save([obj[a] EXCEPT !.save_timeout = "stale"], file) :
       Becomes(a, s, events) /\ mishaps' = mishaps \union s.mishaps
  /\ UNCHANGED <<apps, rows, refs, editing, program, bounds, wanted>>

-----------------------------------------------------------------------------
(* The user.  A dialog is modal: nothing else is done while it is open.    *)

UserActs == program = "running" /\ NotEditing /\ edits < MaxEdits /\ edits' = edits + 1
DecidesHidden(o) == wanted' = Decided(wanted, {"hidden"}, o.hidden, o.exec)

\* on_startup_enabled_toggled and gsp_app_set_hidden.
Toggle(a) ==
  /\ UserActs /\ a \in rows
  /\ obj' = [obj EXCEPT ![a] = queue_save(set_hidden(@, ~@.hidden))]
  /\ DecidesHidden(obj'[a])
  /\ UNCHANGED <<file, events, apps, rows, refs, editing, program, changes, mishaps>>

\* on_edit_app_clicked: the dialog shows the texts of this moment, and keeps
\* the object.
OpenEdit(a) ==
  /\ UserActs /\ a \in rows
  /\ editing' = [app |-> a, exec |-> obj[a].exec]
  /\ refs' = [refs EXCEPT ![a] = @ + 1]
  /\ UNCHANGED <<file, events, apps, rows, obj, program, changes, wanted, mishaps>>

\* gsp_app_update with what the dialog has; the reference is given back.
gsp_app_update(o, exec) ==
  IF exec = o.exec THEN o
  ELSE queue_save([o EXCEPT !.exec = exec, !.save_mask = @ \union {"exec"}])

CloseEdit(exec) ==
  LET a == editing.app IN
  /\ program = "running" /\ a \in Alive
  /\ \E s \in Released(a, gsp_app_update(obj[a], exec), file) :
       Becomes(a, s, events) /\ mishaps' = mishaps \union s.mishaps
  /\ unref(a)
  /\ editing' = [app |-> 0, exec |-> ""]
  /\ wanted' = IF exec = obj[a].exec THEN wanted
               ELSE Decided(wanted, {"exec"}, obj[a].hidden, exec)
  /\ UNCHANGED <<apps, rows, program, bounds>>

EditAccepted == \E exec \in {editing.exec, "new"} : CloseEdit(exec)
EditCancelled == editing.app # 0 /\ CloseEdit(obj[editing.app].exec)

\* _gsp_app_manager_app_removed: out of the window, out of the list, and the
\* reference of the list is given back.
app_removed(a, o, f, queue) ==
  /\ rows' = rows \ {a} /\ apps' = RemoveFirst(apps, a)
  /\ unref(a)
  /\ \E s \in Released(a, o, f) :
       /\ Becomes(a, s, queue)
       /\ mishaps' = mishaps \union s.mishaps
                       \union Reason(\E d \in Dirs : gsp_app_can_launch(f[d]), "removed")

\* on_delete_app_clicked and gsp_app_delete.
Delete(a) ==
  /\ UserActs /\ a \in rows
  /\ LET o == set_hidden(obj[a], TRUE) IN
       IF o.xdg_position = 0 /\ o.xdg_system_position = None
       THEN /\ app_removed(a, [o EXCEPT !.save_timeout = "none"], [file EXCEPT ![0] = Absent],
                           events \o DeleteNotes(0, file))
            /\ wanted' = Undecided
       ELSE /\ obj' = [obj EXCEPT ![a] = queue_save(o)]
            /\ DecidesHidden(o)
            /\ UNCHANGED <<file, events, apps, rows, refs, mishaps>>
  /\ UNCHANGED <<editing, program, changes>>

\* _gsp_find_free_basename takes the name unless it has both an object and a
\* user file; another name is another entry.
NameIsTaken == apps # <<>> /\ Exists(file[0])

\* gsp_app_manager_add, after which the caller gives back the reference it had
\* to a new object, or one it had not got to a known object.  append_app makes
\* no second row.
manager_add(a) ==
  /\ apps' = <<a>> \o apps /\ rows' = rows \union {a}
  /\ refs' = [refs EXCEPT ![a] = IF a \in Alive THEN @ ELSE 1]

\* on_add_app_clicked and gsp_app_create.
Create ==
  /\ UserActs /\ ~HeadIsFreed /\ ~NameIsTaken
  /\ FreeObjects # {}
  /\ obj' = [obj EXCEPT ![NewObject] =
                queue_save([AppOf(0, None, Content("app", FALSE, "new"))
                              EXCEPT !.save_mask = Fields])]
  /\ manager_add(NewObject)
  /\ wanted' = Decided(wanted, Fields, FALSE, "new")
  /\ mishaps' = mishaps \union Reason(Alive # {}, "shared")
  /\ UNCHANGED <<file, events, editing, program, changes>>

-----------------------------------------------------------------------------
(* Reading.                                                                *)

\* gsp_app_new for an object that is known.
IsOwnWrite(o, dir) == o.xdg_position = dir /\ o.skip
\* Fault: a pending save is no reason to ignore a file.
IsShadowed(o, dir) == o.xdg_position < dir
IsIgnored(o, dir) == o.xdg_position < dir \/ o.save_timeout # "none"
ReloadAborts(o, f, dir) ==
  /\ ~IsOwnWrite(o, dir) /\ ~IsIgnored(o, dir) /\ gsp_app_can_launch(f[dir])
  /\ dir > 0 /\ dir > o.xdg_system_position
\* Fault: every event is skipped after the first save.
ReloadSkipsAll(o, f, dir) ==
  IF IsOwnWrite(o, dir) THEN o
  ELSE IF IsIgnored(o, dir)
  THEN [o EXCEPT !.xdg_system_position = Lowest({dir, @})]
  ELSE IF ~gsp_app_can_launch(f[dir]) THEN o
  ELSE [AppOf(dir, IF dir > 0 THEN dir ELSE o.xdg_system_position, f[dir])
          EXCEPT !.save_mask = o.save_mask]
reload(o, f, dir) ==
  IF IsOwnWrite(o, dir) THEN [o EXCEPT !.skip = FALSE]
  ELSE IF IsIgnored(o, dir)
  THEN [o EXCEPT !.xdg_system_position = Lowest({dir, @})]
  ELSE IF ~gsp_app_can_launch(f[dir]) THEN o
  ELSE [AppOf(dir, IF dir > 0 THEN dir ELSE o.xdg_system_position, f[dir])
          EXCEPT !.save_mask = o.save_mask]

\* A file that counts is ignored for a delay that was over.
ReloadMishaps(o, dir) ==
  Reason(~IsOwnWrite(o, dir) /\ dir <= o.xdg_position /\ o.save_timeout = "stale", "ignored")

\* gsp_app_copy_desktop_file, from the dialog or by drag and drop.  When
\* gsp_app_new gives no object the copy is removed.  A known object is listed
\* a second time, and no reference comes with that.
Copy(content) ==
  /\ UserActs /\ ~HeadIsFreed /\ ~NameIsTaken /\ ~Exists(file[0])
  /\ LET known == apps # <<>>
         copied == [file EXCEPT ![0] = content]
         loaded == /\ gsp_app_can_launch(content)
                   /\ known => ~IsOwnWrite(obj[Head(apps)], 0) /\ ~IsIgnored(obj[Head(apps)], 0)
         fresh == AppOf(0, None, content) IN
     /\ known \/ FreeObjects # {}
     /\ \E n \in WriteNotes(0) :
          LET a == IF known THEN Head(apps) ELSE NewObject
              o == IF known THEN reload(obj[a], copied, 0) ELSE fresh IN
          IF loaded
          THEN /\ obj' = [obj EXCEPT ![a] =
                            IF o.hidden THEN queue_save(set_hidden(o, FALSE)) ELSE o]
               /\ manager_add(a)
               /\ file' = copied /\ events' = events \o n
               /\ wanted' = Decided(wanted, Fields, FALSE, content.exec)
          ELSE /\ obj' = IF known THEN [obj EXCEPT ![a] = o] ELSE obj
               /\ events' = events \o n \o <<Event(0, TRUE)>>
               /\ UNCHANGED <<file, apps, rows, refs, wanted>>
     /\ mishaps' = mishaps \union Reason(known /\ loaded, "shared")
                      \union (IF known THEN ReloadMishaps(obj[Head(apps)], 0) ELSE {})
  /\ UNCHANGED <<editing, program, changes>>

\* gsp_app_manager_xdg_dir_monitor, CREATED and CHANGED.
FileWritten(dir) ==
  /\ events' = Tail(events)
  /\ IF apps = <<>>
     THEN IF gsp_app_can_launch(file[dir])
          THEN /\ FreeObjects # {}
               /\ obj' = [obj EXCEPT ![NewObject] =
                             AppOf(dir, IF dir > 0 THEN dir ELSE None, file[dir])]
               /\ manager_add(NewObject)
               /\ mishaps' = mishaps \union Reason(Alive # {}, "shared")
               /\ UNCHANGED program
          ELSE UNCHANGED <<obj, apps, rows, refs, program, mishaps>>
     ELSE LET a == Head(apps) IN
          /\ obj' = [obj EXCEPT ![a] = reload(@, file, dir)]
          /\ program' = IF ReloadAborts(obj[a], file, dir) THEN "aborted" ELSE program
          /\ mishaps' = mishaps \union ReloadMishaps(obj[a], dir)
          /\ UNCHANGED <<apps, rows, refs>>
  /\ UNCHANGED file

\* gsp_app_reload_at: the object forgets its position first.
reload_at(a, dir) ==
  LET o == [obj[a] EXCEPT !.xdg_position = None] IN
  /\ obj' = [obj EXCEPT ![a] = reload(o, file, dir)]
  /\ program' = IF ReloadAborts(o, file, dir) THEN "aborted" ELSE program
  /\ mishaps' = mishaps \union Reason(obj'[a].xdg_position = None, "adrift")

\* _gsp_app_manager_find_dir_with_basename.
find_dir_with_basename(minimum) == InForce(file, {d \in Dirs : d > minimum})

\* _gsp_app_manager_handle_delete.
handle_delete(a, index) ==
  LET position == obj[a].xdg_position
      system_position == obj[a].xdg_system_position
      Keep == UNCHANGED <<file, apps, rows, refs, obj, mishaps>> /\ events' = Tail(events) IN
  IF system_position < index THEN Keep /\ UNCHANGED program
  ELSE IF index < position
  THEN Keep /\ program' = IF index = 0 THEN program ELSE "aborted"
  ELSE IF position = index /\ system_position \in {index, None}
  THEN app_removed(a, obj[a], file, Tail(events)) /\ UNCHANGED program
  ELSE IF system_position = index
  THEN /\ obj' = [obj EXCEPT ![a].xdg_system_position = find_dir_with_basename(index)]
       /\ events' = Tail(events)
       /\ UNCHANGED <<file, apps, rows, refs, program, mishaps>>
  ELSE IF position = index
  THEN /\ reload_at(a, system_position)
       /\ events' = Tail(events)
       /\ UNCHANGED <<file, apps, rows, refs>>
  ELSE Keep /\ program' = "aborted"

Freed ==
  /\ program' = "freed"
  /\ UNCHANGED <<file, events, apps, rows, refs, obj, editing, bounds, wanted, mishaps>>

\* Every event looks for the object in the list of the manager first.
HandleEvent ==
  /\ program = "running" /\ events # <<>>
  /\ IF HeadIsFreed THEN Freed
     ELSE /\ LET e == Head(events) IN
               IF ~e.deleted THEN FileWritten(e.dir)
               ELSE IF apps = <<>>
               THEN events' = Tail(events)
                    /\ UNCHANGED <<file, apps, rows, refs, obj, program, mishaps>>
               ELSE handle_delete(Head(apps), e.dir)
          /\ UNCHANGED <<editing, bounds, wanted>>

\* So does the search for a free name; and the dialog uses its object.
UserMeetsFreed ==
  /\ program = "running"
  /\ IF editing.app = 0 THEN edits < MaxEdits /\ HeadIsFreed ELSE editing.app \notin Alive
  /\ Freed

-----------------------------------------------------------------------------
(* The end of the program.                                                 *)

\* dialog_response: the window is destroyed, and the manager with it.
Close ==
  /\ program = "running" /\ NotEditing
  /\ program' = "closing" /\ events' = <<>> /\ rows' = {}
  /\ UNCHANGED <<file, apps, refs, obj, editing, bounds, wanted, mishaps>>

\* gsp_app_manager_dispose: one object after the other.  Nothing is noticed any more.
DisposeNext ==
  /\ program = "closing"
  /\ IF HeadIsFreed THEN Freed
     ELSE /\ IF apps = <<>>
             THEN program' = "closed" /\ UNCHANGED <<file, apps, refs, obj, mishaps>>
             ELSE LET a == Head(apps) IN
                  /\ apps' = Tail(apps) /\ unref(a)
                  /\ \E s \in Released(a, obj[a], file) :
                       /\ obj' = [obj EXCEPT ![a] = s.obj] /\ file' = s.file
                       /\ mishaps' = mishaps \union s.mishaps
                  /\ UNCHANGED program
          /\ UNCHANGED <<events, rows, editing, bounds, wanted>>

-----------------------------------------------------------------------------
(* Other programs.                                                         *)

\* What the user has decided stands where a save that is due will still write it.
Changed == changes < MaxChanges /\ changes' = changes + 1
ForeignChange(dir, content, notes) ==
  /\ Changed /\ program = "running"
  /\ file' = [file EXCEPT ![dir] = content]
  /\ events' = events \o notes
  /\ wanted' = Kept(wanted, UNION {obj[a].save_mask : a \in Pending})
  /\ UNCHANGED <<apps, rows, refs, obj, editing, program, edits, mishaps>>

ForeignWrite ==
  \E dir \in Dirs, content \in Written :
    /\ content # file[dir]
    /\ \E notes \in WriteNotes(dir) : ForeignChange(dir, content, notes)
ForeignDelete ==
  \E dir \in Dirs :
    Exists(file[dir]) /\ ForeignChange(dir, Absent, DeleteNotes(dir, file))

Next ==
  \/ \E a \in Objects : SaveTimeout(a) \/ Toggle(a) \/ OpenEdit(a) \/ Delete(a)
  \/ EditAccepted \/ EditCancelled \/ Create
  \/ \E content \in Written : Copy(content)
  \/ HandleEvent \/ UserMeetsFreed \/ Close \/ DisposeNext
  \/ ForeignWrite \/ ForeignDelete

\* GLib fires the delay and dispatches the monitors; the program closes once it
\* has begun to.
Spec ==
  /\ Init /\ [][Next]_vars
  /\ \A a \in Objects : WF_vars(SaveTimeout(a))
  /\ WF_vars(HandleEvent) /\ WF_vars(DisposeNext)

-----------------------------------------------------------------------------
Quiet == events = <<>> /\ Pending = {}
AtRest == program = "running" /\ Quiet
Spared(reasons) == mishaps \intersect reasons = {}

\* Once everything is saved and noticed, in whatever order edits, saves, reports
\* and the writes of others came, the window and the disk agree: an entry that is
\* not in the window is in no directory, no directory before that of the entry
\* shown has it, and what is shown is what its file says.  Six things are known
\* to break this, and only they are excepted: a write that failed, two entries of
\* one name, a save that kept what the window did not show, a report ignored for
\* a delay that was over, a system file that was not read when the user's was
\* deleted, and an entry removed while another directory had it.
ShownIsOnDisk ==
  AtRest /\ Spared({"failed", "shared", "unseen", "ignored", "adrift", "removed"}) =>
    IF apps = <<>> THEN \A d \in Dirs : ~gsp_app_can_launch(file[d])
    ELSE LET o == obj[Head(apps)] IN
         /\ \A d \in Dirs : d < o.xdg_position => ~gsp_app_can_launch(file[d])
         /\ gsp_app_can_launch(file[o.xdg_position]) =>
              file[o.xdg_position].hidden = o.hidden /\ file[o.xdg_position].exec = o.exec

\* What the user decided about an entry is what the session will find, whatever
\* reports and writes of others the decision crosses, also when the window is
\* closed before the delay is over, until somebody else writes the file after
\* the save.  Three things are excepted: a write that failed, two entries of
\* one name, and a save that went by another file than the session's, of which
\* the program's own report may be the cause (gsp-app.c:908).
DecisionIsOnDisk ==
  (AtRest \/ program = "closed") /\ Spared({"failed", "shared", "outdated"})
    /\ wanted.fields # {} =>
    LET d == InForce(file, Dirs) IN d # None /\ Says(file[d], wanted)

\* What the monitors report does not change an entry the user has edited and
\* that is not saved.
PendingEditIsKept ==
  [][\A a \in Objects :
       HandleEvent /\ a \in Alive' /\ obj[a].save_timeout = "live" =>
         obj'[a].hidden = obj[a].hidden /\ obj'[a].exec = obj[a].exec]_vars

\* Saves and the events they cause come to an end.
SavesSettle == <>[](Quiet \/ program # "running")
=============================================================================
