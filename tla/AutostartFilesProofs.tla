------------------------ MODULE AutostartFilesProofs ------------------------
(***************************************************************************)
(* Proofs about AutostartFiles, for any number of system directories,      *)
(* objects, edits and changes.                                             *)
(***************************************************************************)
EXTENDS AutostartFiles, TLAPS, WellFoundedInduction, SequenceTheorems

Events == [dir : Dirs, deleted : BOOLEAN]

\* What a save or the end of an object results in.
Results == [obj : Apps, file : [Dirs -> Contents], notes : Seq(Events),
            mishaps : SUBSET Mishaps]

-----------------------------------------------------------------------------
\* A set of naturals that is not empty has a least element.
LEMMA LeastNatural ==
  ASSUME NEW S \in SUBSET Nat, S # {}
  PROVE  \E x \in S : \A y \in S : x <= y
<1> DEFINE R == OpToRel(<, Nat)
<1>1. IsWellFoundedOn(R, Nat)
  BY NatLessThanWellFounded
<1>2. \A x, y \in Nat : <<y, x>> \in R <=> y < x
  BY DEF OpToRel
<1> HIDE DEF R
<1>3. PICK x \in S : \A y \in S : <<y, x>> \notin R
  BY <1>1, WFMin
<1>4. \A y \in S : x <= y
  <2> TAKE y \in S
  <2>1. x \in Nat /\ y \in Nat /\ ~(y < x)
    BY <1>2, <1>3
  <2> QED BY <2>1
<1> QED BY <1>3, <1>4

\* The lowest of a set of directories is one of them, and None is that of no directory.
LEMMA LowestType ==
  ASSUME NEW S \in SUBSET Dirs
  PROVE  /\ S = {} => Lowest(S) = None
         /\ S # {} => Lowest(S) \in S
         /\ \A d \in S : Lowest(S) <= d
<1>1. S \in SUBSET Nat
  BY SystemsAssumption DEF Dirs
<1>2. S # {} => \E d \in S : \A e \in S : d <= e
  BY <1>1, LeastNatural
<1> QED BY <1>2 DEF Lowest

\* A new object takes a place nobody holds.
LEMMA NewObjectIsFree == FreeObjects # {} => NewObject \in FreeObjects
<1>1. FreeObjects \in SUBSET Nat
  BY ObjectsAssumption DEF FreeObjects
<1>2. FreeObjects # {} => \E a \in FreeObjects : \A b \in FreeObjects : a <= b
  BY <1>1, LeastNatural
<1> QED BY <1>2 DEF NewObject

-----------------------------------------------------------------------------
(***************************************************************************)
(* Lists of objects.                                                       *)
(***************************************************************************)
LEMMA HeadAndTail ==
  ASSUME NEW s \in Seq(Objects), s # <<>>
  PROVE  Head(s) \in Objects /\ Tail(s) \in Seq(Objects)
  OBVIOUS

\* A list without one of its objects is a list of objects.
LEMMA RemoveFirstType ==
  ASSUME NEW s \in Seq(Objects), NEW a
  PROVE  RemoveFirst(s, a) \in Seq(Objects)
<1>1. CASE ~\E i \in 1..Len(s) : s[i] = a
  BY <1>1 DEF RemoveFirst
<1>2. CASE \E i \in 1..Len(s) : s[i] = a
  <2> DEFINE I == {i \in 1..Len(s) : s[i] = a}
             n == Min(I)
             u == SubSeq(s, 1, n - 1)
             v == SubSeq(s, n + 1, Len(s))
  <2>1. RemoveFirst(s, a) = u \o v
    BY <1>2 DEF RemoveFirst, RemoveAt, SelectInSeq
  <2>2. n \in I
    <3>1. I \in SUBSET Nat /\ I # {}
      BY <1>2
    <3> HIDE DEF I
    <3>2. \E x \in I : \A y \in I : x <= y
      BY <3>1, LeastNatural
    <3> QED BY <3>2 DEF Min
  <2>3. n \in 1..Len(s) /\ Len(s) \in Nat /\ DOMAIN s = 1..Len(s)
    BY <2>2
  <2> HIDE DEF n, I
  <2>4. u \in Seq(Objects)
    <3>1. \A k \in 1..n - 1 : s[k] \in Objects
      BY <2>3
    <3>2. 1 \in Int /\ n - 1 \in Int
      BY <2>3
    <3> QED BY <3>1, <3>2, SubSeqProperties
  <2>5. v \in Seq(Objects)
    <3>1. \A k \in n + 1..Len(s) : s[k] \in Objects
      BY <2>3
    <3>2. n + 1 \in Int /\ Len(s) \in Int
      BY <2>3
    <3> QED BY <3>1, <3>2, SubSeqProperties
  <2> HIDE DEF u, v
  <2> QED BY <2>1, <2>4, <2>5
<1> QED BY <1>1, <1>2

-----------------------------------------------------------------------------
(***************************************************************************)
(* What the operators on files and objects return.                         *)
(***************************************************************************)
LEMMA ContentsType ==
  /\ \A kind \in {"app", "elsewhere"}, h \in BOOLEAN, e \in Execs : Content(kind, h, e) \in Contents
  /\ Absent \in Contents /\ Broken \in Contents
  /\ Written \subseteq Contents
  /\ \A c \in Contents : Loadable(c) => /\ c.kind \in {"app", "elsewhere"}
                                        /\ c.hidden \in BOOLEAN
                                        /\ c.exec \in Execs
  /\ \A c \in Contents : gsp_app_can_launch(c) => Loadable(c)
<1>1. \A kind \in {"app", "elsewhere"}, h \in BOOLEAN, e \in Execs : Content(kind, h, e) \in Contents
  BY DEF Content, Contents
<1>2. Absent \in Contents /\ Broken \in Contents
  BY DEF Contents
<1>3. Written \subseteq Contents
  <2>1. \A h \in BOOLEAN : Content("app", h, "old") \in Contents
    BY <1>1 DEF Execs
  <2>2. Content("app", FALSE, "new") \in Contents /\ Content("elsewhere", FALSE, "old") \in Contents
    BY <1>1 DEF Execs
  <2> HIDE DEF Content
  <2> QED BY <1>2, <2>1, <2>2 DEF Written
<1>4. ASSUME NEW c \in Contents, Loadable(c)
      PROVE  c.kind \in {"app", "elsewhere"} /\ c.hidden \in BOOLEAN /\ c.exec \in Execs
  <2>1. c # Absent /\ c # Broken
    <3>1. Absent.kind = "absent" /\ Broken.kind = "broken"
      BY DEF Absent, Broken, Content
    <3>2. c.kind # "absent" /\ c.kind # "broken"
      BY <1>4 DEF Loadable
    <3> QED BY <3>1, <3>2
  <2>2. c \in [kind : {"app", "elsewhere"}, hidden : BOOLEAN, exec : Execs]
    BY <2>1 DEF Contents
  <2> QED BY <2>2
<1>5. \A c \in Contents : gsp_app_can_launch(c) => Loadable(c)
  BY DEF gsp_app_can_launch, Loadable
<1> QED BY <1>1, <1>2, <1>3, <1>4, <1>5

\* None is a number, but not that of a directory.
LEMMA DirsType ==
  /\ 0 \in Dirs /\ None \notin Dirs /\ 1..Systems \subseteq Dirs /\ None \in Nat
  /\ \A d \in Dirs : d \in Nat
  BY SystemsAssumption DEF Dirs, None

\* The object made of a file is an object.
LEMMA AppOfType ==
  ASSUME NEW dir \in Dirs, NEW sys \in Dirs \union {None}, NEW c, c.hidden \in BOOLEAN,
         c.exec \in Execs
  PROVE  AppOf(dir, sys, c) \in Apps
  BY DEF AppOf, Apps

\* An object not in use waits for no save.
LEMMA UnusedType == Unused \in Apps /\ Unused.save_timeout = "none"
<1>1. Unused \in Apps
  <2> DEFINE c == Content("app", FALSE, "old")
  <2>1. c.hidden \in BOOLEAN /\ c.exec \in Execs
    BY DEF Content, Execs
  <2> HIDE DEF c
  <2>2. AppOf(0, None, c) \in Apps
    BY <2>1, AppOfType, DirsType
  <2> QED BY <2>2 DEF Unused, c
<1> QED BY <1>1 DEF Unused, AppOf

\* What the monitors report is of a directory of the path.
LEMMA NotesType ==
  ASSUME NEW dir \in Dirs, NEW f \in [Dirs -> Contents]
  PROVE  /\ WriteNotes(dir) \subseteq Seq(Events)
         /\ DeleteNotes(dir, f) \in Seq(Events)
<1>1. Event(dir, TRUE) \in Events /\ Event(dir, FALSE) \in Events
  BY DEF Event, Events
<1> HIDE DEF Event
<1>2. \A e \in Events : <<e>> \in Seq(Events) /\ <<e, e>> \in Seq(Events)
  OBVIOUS
<1>3. <<>> \in Seq(Events)
  OBVIOUS
<1> QED BY <1>1, <1>2, <1>3 DEF WriteNotes, DeleteNotes

\* Showing or hiding an object keeps its type.
LEMMA SetHiddenType ==
  ASSUME NEW o \in Apps, NEW h \in BOOLEAN
  PROVE  set_hidden(o, h) \in Apps
<1>1. o.save_mask \union {"hidden"} \in SUBSET Fields
  BY DEF Apps, Fields
<1> QED BY <1>1 DEF set_hidden, Apps

\* So does queueing its save.
LEMMA QueueSaveType ==
  ASSUME NEW o \in Apps
  PROVE  queue_save(o) \in Apps
<1>1. o.path \in Dirs /\ o.old_system_path \in Dirs \union {None}
  BY DEF Apps
<1> QED BY <1>1, DirsType DEF queue_save, Apps

\* So does the edit dialog.
LEMMA UpdateType ==
  ASSUME NEW o \in Apps, NEW e \in Execs
  PROVE  gsp_app_update(o, e) \in Apps
<1>1. o.save_mask \union {"exec"} \in SUBSET Fields
  BY DEF Apps, Fields
<1>2. [o EXCEPT !.exec = e, !.save_mask = o.save_mask \union {"exec"}] \in Apps
  BY <1>1 DEF Apps
<1> QED BY <1>2, QueueSaveType DEF gsp_app_update

\* A file that is saved has the contents of a file, whichever keys the mask lets through.
LEMMA MergedType ==
  ASSUME NEW o \in Apps, NEW base \in Contents
  PROVE  Merged(o, base) \in Contents
<1> DEFINE b == IF Loadable(base) THEN base ELSE Content("app", FALSE, "/bin/false")
           h == IF "hidden" \in o.save_mask THEN o.hidden ELSE b.hidden
           e == IF "exec" \in o.save_mask THEN o.exec ELSE b.exec
<1>1. b.kind \in {"app", "elsewhere"} /\ b.hidden \in BOOLEAN /\ b.exec \in Execs
  <2>1. CASE Loadable(base)
    BY <2>1, ContentsType
  <2>2. CASE ~Loadable(base)
    BY <2>2 DEF Content, Execs
  <2> QED BY <2>1, <2>2
<1>2. o.hidden \in BOOLEAN /\ o.exec \in Execs
  BY DEF Apps
<1> HIDE DEF b
<1>3. h \in BOOLEAN
  BY <1>1, <1>2, Zenon
<1>4. e \in Execs
  BY <1>1, <1>2, Zenon
<1> HIDE DEF h, e
<1>5. Content(b.kind, h, e) \in Contents
  BY <1>1, <1>3, <1>4, ContentsType
<1> QED BY <1>5 DEF Merged, b, h, e

\* A reason is one of those that are named.
LEMMA ReasonType ==
  ASSUME NEW m \in Mishaps, NEW happens
  PROVE  Reason(happens, m) \in SUBSET Mishaps
  BY DEF Reason

\* What a reload loses has a name.
LEMMA ReloadMishapsType ==
  ASSUME NEW o, NEW dir
  PROVE  ReloadMishaps(o, dir) \in SUBSET Mishaps
  BY ReasonType DEF ReloadMishaps, Mishaps

\* Every way a save may go leaves objects, files and reports of their types.
LEMMA SaveType ==
  ASSUME NEW o \in Apps, NEW f \in [Dirs -> Contents]
  PROVE  gsp_app_save(o, f) \subseteq Results
<1> DEFINE d == save_done_success(o)
<1>1. d \in Apps
  BY DEF save_done_success, Apps
<1>2. o.path \in Dirs /\ o.xdg_system_position \in Dirs \union {None}
      /\ o.old_system_path \in Dirs \union {None}
  BY DEF Apps
<1> HIDE DEF d
<1>3. [f EXCEPT ![0] = Absent] \in [Dirs -> Contents]
  BY ContentsType
<1>4. DeleteNotes(0, f) \in Seq(Events) /\ <<>> \in Seq(Events) /\ WriteNotes(0) \subseteq Seq(Events)
  BY NotesType, DirsType
<1>5. "failed" \in Mishaps /\ "outdated" \in Mishaps /\ "unseen" \in Mishaps
  BY DEF Mishaps
<1>6. CASE user_equal_system(o, f)
  <2> DEFINE x == [d EXCEPT !.path = o.xdg_system_position, !.xdg_position = o.xdg_system_position]
             m == Reason(\/ o.xdg_system_position # InForce(f, 1..Systems)
                         \/ KeepsAnother(o, f), "outdated")
             r == [obj |-> x, file |-> IF o.path = 0 THEN [f EXCEPT ![0] = Absent] ELSE f,
                   notes |-> IF o.path = 0 THEN DeleteNotes(0, f) ELSE <<>>, mishaps |-> m]
  <2>1. o.xdg_system_position \in Dirs
    BY <1>2, <1>6 DEF user_equal_system
  <2>2. x \in Apps
    BY <1>1, <2>1 DEF Apps
  <2>3. m \in SUBSET Mishaps
    BY <1>5, ReasonType
  <2> HIDE DEF x, m
  <2>4. r \in Results
    BY <1>3, <1>4, <2>2, <2>3 DEF Results
  <2>5. gsp_app_save(o, f) = {r}
    BY <1>6 DEF gsp_app_save, d, x, m
  <2> QED BY <2>4, <2>5
<1>7. CASE ~user_equal_system(o, f)
  <2> DEFINE merged == Merged(o, f[Basis(o)])
             x == [o EXCEPT !.save_timeout = "none"]
             y == [d EXCEPT !.save_timeout = "none", !.skip = TRUE]
             g == [f EXCEPT ![0] = merged]
             m == Reason(KeepsAnother(o, f), "outdated") \union
                  Reason(merged.hidden # o.hidden \/ merged.exec # o.exec, "unseen")
             failed == [obj |-> x, file |-> f, notes |-> <<>>, mishaps |-> {"failed"}]
  <2>1. f[Basis(o)] \in Contents
    BY <1>2 DEF Basis
  <2>2. g \in [Dirs -> Contents]
    BY <2>1, MergedType
  <2>3. x \in Apps /\ y \in Apps
    BY <1>1 DEF Apps
  <2>4. m \in SUBSET Mishaps
    BY <1>5, ReasonType
  <2> HIDE DEF x, y, g, m
  <2>5. failed \in Results
    BY <1>4, <1>5, <2>3 DEF Results
  <2>6. \A n \in Seq(Events) : [obj |-> y, file |-> g, notes |-> n, mishaps |-> m] \in Results
    BY <2>2, <2>3, <2>4 DEF Results
  <2>7. gsp_app_save(o, f) = {failed}
          \union {[obj |-> y, file |-> g, notes |-> n, mishaps |-> m] :
                    n \in IF o.path = 0 THEN WriteNotes(0) ELSE {}}
    BY <1>7 DEF gsp_app_save, d, x, y, g, m
  <2> HIDE DEF failed
  <2> QED BY <1>4, <2>5, <2>6, <2>7
<1> QED BY <1>6, <1>7

\* Whoever loses the last reference is saved and forgotten.
LEMMA ReleasedType ==
  ASSUME NEW a, NEW o \in Apps, NEW f \in [Dirs -> Contents], NEW s \in Released(a, o, f)
  PROVE  /\ s \in Results
         /\ IF refs[a] > 1 THEN s.obj = o ELSE s.obj = Unused
<1>1. \A x \in Apps : Unsaved(x, f) \in Results /\ Unsaved(x, f).obj = x
  BY DEF Unsaved, Results
<1>2. CASE refs[a] > 1
  BY <1>1, <1>2 DEF Released
<1>3. CASE ~(refs[a] > 1) /\ o.save_timeout = "none"
  BY <1>1, <1>3, UnusedType DEF Released
<1>4. CASE ~(refs[a] > 1) /\ o.save_timeout # "none"
  <2> DEFINE x == [o EXCEPT !.save_timeout = "none"]
  <2>1. x \in Apps
    BY DEF Apps
  <2> HIDE DEF x
  <2>2. PICK t \in gsp_app_save(x, f) : s = [t EXCEPT !.obj = Unused]
    BY <1>4 DEF Released, x
  <2>3. t \in Results
    BY <2>1, <2>2, SaveType
  <2> QED BY <1>4, <2>2, <2>3, UnusedType DEF Results
<1> QED BY <1>2, <1>3, <1>4

\* An object whose save is due does not take over what it reads again.
LEMMA ReloadType ==
  ASSUME NEW o \in Apps, NEW f \in [Dirs -> Contents], NEW dir \in Dirs
  PROVE  /\ reload(o, f, dir) \in Apps
         /\ o.save_timeout # "none"
              => /\ reload(o, f, dir).hidden = o.hidden
                 /\ reload(o, f, dir).exec = o.exec
         /\ reload(o, f, dir).save_timeout = "live" => o.save_timeout = "live"
<1>1. o.xdg_system_position \in Dirs \union {None}
  BY DEF Apps
<1>2. CASE IsOwnWrite(o, dir)
  BY <1>2 DEF reload, Apps
<1>3. CASE ~IsOwnWrite(o, dir) /\ IsIgnored(o, dir)
  <2> DEFINE l == Lowest({dir, o.xdg_system_position})
  <2>1. l \in Dirs \union {None}
    <3>1. {dir, o.xdg_system_position} \in SUBSET Nat
      BY <1>1, DirsType
    <3>2. \E x \in {dir, o.xdg_system_position} : \A y \in {dir, o.xdg_system_position} : x <= y
      BY <3>1, LeastNatural
    <3> QED BY <1>1, <3>2 DEF Lowest
  <2> HIDE DEF l
  <2>2. reload(o, f, dir) = [o EXCEPT !.xdg_system_position = l]
    BY <1>3 DEF reload, l
  <2> QED BY <2>1, <2>2 DEF Apps
<1>4. CASE ~IsOwnWrite(o, dir) /\ ~IsIgnored(o, dir) /\ ~gsp_app_can_launch(f[dir])
  BY <1>4 DEF reload
<1>5. CASE ~IsOwnWrite(o, dir) /\ ~IsIgnored(o, dir) /\ gsp_app_can_launch(f[dir])
  <2> DEFINE new == AppOf(dir, IF dir > 0 THEN dir ELSE o.xdg_system_position, f[dir])
  <2>1. f[dir].hidden \in BOOLEAN /\ f[dir].exec \in Execs
    BY <1>5, ContentsType
  <2>2. (IF dir > 0 THEN dir ELSE o.xdg_system_position) \in Dirs \union {None}
    BY <1>1
  <2>3. new \in Apps
    BY <2>1, <2>2, AppOfType
  <2>4. new.save_timeout = "none" /\ o.save_timeout = "none" /\ o.save_mask \in SUBSET Fields
    BY <1>5 DEF AppOf, IsIgnored, Apps
  <2> HIDE DEF new
  <2>5. reload(o, f, dir) = [new EXCEPT !.save_mask = o.save_mask]
    BY <1>5 DEF reload, new
  <2> QED BY <2>3, <2>4, <2>5 DEF Apps
<1> QED BY <1>2, <1>3, <1>4, <1>5

-----------------------------------------------------------------------------
(***************************************************************************)
(* The invariant: the types, and whose the objects are.                    *)
(***************************************************************************)
Disk == file \in [Dirs -> Contents] /\ events \in Seq(Events)

\* The window shows what is held for it: by the list, and once more by the dialog.
Lists ==
  /\ apps \in Seq(Objects)
  /\ rows \in SUBSET Objects
  /\ refs \in [Objects -> Nat]
  /\ program = "running" =>
       \A a \in rows : refs[a] >= 1 /\ (a = editing.app => refs[a] >= 2)

Dialog ==
  /\ editing \in [app : Objects \union {0}, exec : Execs \union {""}]
  /\ editing.app # 0 => editing.exec \in Execs

\* An object whose save is due is somebody's: gsp_app_dispose stops the delay of
\* the others.
Owned ==
  /\ obj \in [Objects -> Apps]
  /\ \A a \in Objects : obj[a].save_timeout = "live" => refs[a] >= 1

Programs == {"running", "closing", "closed", "aborted", "freed"}
Decisions == [fields : SUBSET Fields, hidden : BOOLEAN, exec : Execs \union {""}]

Rest ==
  /\ program \in Programs
  /\ edits \in 0..MaxEdits /\ changes \in 0..MaxChanges
  /\ wanted \in Decisions
  /\ mishaps \in SUBSET Mishaps

Inv == Disk /\ Lists /\ Dialog /\ Owned /\ Rest

\* Who is alive has a reference.
LEMMA AliveHasReference ==
  ASSUME Inv
  PROVE  \A a \in Objects : a \in Alive <=> refs[a] >= 1
<1>1. \A a \in Objects : refs[a] \in Nat
  BY DEF Inv, Lists
<1> QED BY <1>1 DEF Alive

\* The parts of the invariant that are types make up TypeOK.
LEMMA InvIsTypeOK == Inv => TypeOK
<1> SUFFICES ASSUME Inv PROVE TypeOK
  OBVIOUS
<1>1. \A a \in Objects : obj[a].save_timeout = "live" => a \in Alive
  BY AliveHasReference DEF Inv, Owned
<1> QED BY <1>1 DEF Inv, Disk, Lists, Dialog, Owned, Rest, TypeOK, Events, Programs, Decisions

\* One object changes; whoever had a save due is still somebody's.
LEMMA OwnedStays ==
  ASSUME Owned, NEW a \in Objects, NEW o \in Apps, obj' = [obj EXCEPT ![a] = o],
         o.save_timeout = "live" => refs'[a] >= 1,
         \A b \in Objects \ {a} : refs[b] >= 1 => refs'[b] >= 1
  PROVE  Owned'
<1>1. obj' \in [Objects -> Apps] /\ obj'[a] = o /\ \A b \in Objects \ {a} : obj'[b] = obj[b]
  BY DEF Owned
<1>2. ASSUME NEW b \in Objects, obj'[b].save_timeout = "live"
      PROVE  refs'[b] >= 1
  BY <1>1, <1>2 DEF Owned
<1> QED BY <1>1, <1>2 DEF Owned

\* The counters of the user's and of the others' steps.
LEMMA Counting ==
  ASSUME Rest
  PROVE  /\ UserActs => edits' \in 0..MaxEdits
         /\ Changed => changes' \in 0..MaxChanges
  BY BoundsAssumption DEF Rest, UserActs, Changed

\* A reference is given back by who has one.
LEMMA Unreferenced ==
  ASSUME Inv, NEW a \in Objects, a \in Alive, unref(a)
  PROVE  /\ refs' \in [Objects -> Nat] /\ refs'[a] = refs[a] - 1
         /\ \A b \in Objects \ {a} : refs'[b] = refs[b]
         /\ refs[a] > 1 => refs'[a] >= 1
<1>1. refs[a] \in Nat /\ refs[a] >= 1
  BY AliveHasReference DEF Inv, Lists
<1>2. refs' = [refs EXCEPT ![a] = refs[a] - 1] /\ refs \in [Objects -> Nat]
  BY DEF unref, Inv, Lists
<1>3. refs[a] - 1 \in Nat
  BY <1>1
<1> QED BY <1>1, <1>2, <1>3

\* What a list or a dialog gives back: a is saved, or lives on as o.
LEMMA ReleasedOwned ==
  ASSUME Inv, NEW a \in Objects, a \in Alive, NEW o \in Apps, NEW f \in [Dirs -> Contents],
         NEW s \in Released(a, o, f), obj' = [obj EXCEPT ![a] = s.obj], unref(a)
  PROVE  /\ Owned' /\ s \in Results
         /\ s.file \in [Dirs -> Contents] /\ s.notes \in Seq(Events)
         /\ s.mishaps \in SUBSET Mishaps
<1>1. /\ s \in Results
      /\ IF refs[a] > 1 THEN s.obj = o ELSE s.obj = Unused
  BY ReleasedType
<1>2. /\ s.obj \in Apps /\ s.file \in [Dirs -> Contents]
      /\ s.notes \in Seq(Events) /\ s.mishaps \in SUBSET Mishaps
  BY <1>1 DEF Results
<1>3. s.obj.save_timeout = "live" => refs'[a] >= 1
  BY <1>1, UnusedType, Unreferenced
<1>4. Owned'
  BY <1>2, <1>3, OwnedStays, Unreferenced DEF Inv
<1> QED BY <1>1, <1>2, <1>4

-----------------------------------------------------------------------------
\* The window opens with an object for an entry that can be launched, and no save is due.
LEMMA InitInv == Init => Inv
<1> SUFFICES ASSUME Init PROVE Inv
  OBVIOUS
<1>1. file \in [Dirs -> Contents]
  <2>1. {Absent, Content("app", FALSE, "old"), Content("app", TRUE, "old")} \subseteq Contents
    BY ContentsType DEF Execs
  <2> QED BY <2>1 DEF Init
<1>2. Disk
  <2>1. events = <<>>
    BY DEF Init
  <2> QED BY <1>1, <2>1 DEF Disk
<1>3. Dialog
  BY DEF Init, Dialog
<1>4. Rest
  <2>1. 0 \in 0..MaxEdits /\ 0 \in 0..MaxChanges
    BY BoundsAssumption
  <2> QED BY <2>1 DEF Init, Rest, Programs, Decisions, Undecided
<1>5. CASE \E d \in Dirs : gsp_app_can_launch(file[d])
  <2>1. PICK a \in Objects :
          /\ apps = <<a>> /\ rows = {a}
          /\ refs = [o \in Objects |-> IF o = a THEN 1 ELSE 0]
          /\ obj = [o \in Objects |-> IF o = a THEN gsp_app_manager_fill(file) ELSE Unused]
    BY <1>5 DEF Init
  <2>2. gsp_app_manager_fill(file) \in Apps
    <3> DEFINE S == {d \in Dirs : gsp_app_can_launch(file[d])}
               first == Lowest(S)
               T == {d \in 1..Systems : d >= first /\ Exists(file[d])}
    <3>1. S \in SUBSET Dirs /\ S # {}
      BY <1>5
    <3>2. first \in S
      BY <3>1, LowestType
    <3>3. first \in Dirs /\ gsp_app_can_launch(file[first])
      BY <3>2
    <3> HIDE DEF first
    <3>4. T \in SUBSET Dirs
      BY DirsType
    <3>5. Lowest(T) \in Dirs \union {None}
      BY <3>4, LowestType
    <3>6. file[first].hidden \in BOOLEAN /\ file[first].exec \in Execs
      BY <1>1, <3>3, ContentsType
    <3>7. AppOf(first, Lowest(T), file[first]) \in Apps
      BY <3>3, <3>5, <3>6, AppOfType
    <3> QED BY <3>7 DEF gsp_app_manager_fill, first
  <2>3. refs \in [Objects -> Nat] /\ refs[a] = 1 /\ editing.app = 0
    BY <2>1 DEF Init
  <2>4. apps \in Seq(Objects)
    BY <2>1
  <2>5. Lists
    BY <2>1, <2>3, <2>4, ObjectsAssumption DEF Lists
  <2>6. obj \in [Objects -> Apps]
    BY <2>1, <2>2, UnusedType
  <2>7. \A b \in Objects : b # a => obj[b].save_timeout = "none"
    BY <2>1, UnusedType
  <2>8. Owned
    BY <2>3, <2>6, <2>7 DEF Owned
  <2> QED BY <1>2, <1>3, <1>4, <2>5, <2>8 DEF Inv
<1>6. CASE ~\E d \in Dirs : gsp_app_can_launch(file[d])
  <2>1. /\ apps = <<>> /\ rows = {} /\ obj = [o \in Objects |-> Unused]
        /\ refs = [o \in Objects |-> 0]
    BY <1>6 DEF Init
  <2>2. apps \in Seq(Objects)
    BY <2>1
  <2>3. Lists
    BY <2>1, <2>2 DEF Lists
  <2>4. Owned
    BY <2>1, UnusedType DEF Owned
  <2> QED BY <1>2, <1>3, <1>4, <2>3, <2>4 DEF Inv
<1> QED BY <1>5, <1>6

-----------------------------------------------------------------------------
(***************************************************************************)
(* The delay, and the steps of the user.                                   *)
(***************************************************************************)
LEMMA AppIsApp == ASSUME Inv, NEW a \in Objects PROVE obj[a] \in Apps
  BY DEF Inv, Owned

\* Reports are appended to reports.
LEMMA Queueing ==
  ASSUME NEW q \in Seq(Events), NEW n \in Seq(Events)
  PROVE  q \o n \in Seq(Events)
  OBVIOUS

\* The delayed save of an object that is still held.
LEMMA SaveTimeoutInv == ASSUME Inv, NEW a \in Objects, SaveTimeout(a) PROVE Inv'
<1> DEFINE o == [obj[a] EXCEPT !.save_timeout = "stale"]
<1>1. PICK s \in gsp_app_save(o, file) :
        Becomes(a, s, events) /\ mishaps' = mishaps \union s.mishaps
  BY DEF SaveTimeout
<1>2. obj[a] \in Apps
  BY AppIsApp
<1>3. o \in Apps
  BY <1>2 DEF Apps
<1> HIDE DEF o
<1>4. s \in Results
  BY <1>1, <1>3, SaveType DEF Inv, Disk
<1>5. /\ s.obj \in Apps /\ s.file \in [Dirs -> Contents] /\ s.notes \in Seq(Events)
      /\ s.mishaps \in SUBSET Mishaps
  BY <1>4 DEF Results
<1>6. UNCHANGED <<apps, rows, refs, editing, program, bounds, wanted>> /\ refs[a] >= 1
  BY AliveHasReference DEF SaveTimeout, Pending
<1>7. Owned'
  BY <1>1, <1>5, <1>6, OwnedStays DEF Inv, Becomes
<1>8. Disk'
  BY <1>1, <1>5, Queueing DEF Inv, Disk, Becomes
<1>9. Lists' /\ Dialog'
  BY <1>6 DEF Inv, Lists, Dialog
<1>10. Rest'
  BY <1>1, <1>5, <1>6 DEF Inv, Rest, bounds
<1> QED BY <1>7, <1>8, <1>9, <1>10 DEF Inv

\* A decision is one.
LEMMA DecidedType ==
  ASSUME NEW w \in Decisions, NEW fields \in SUBSET Fields, NEW h \in BOOLEAN, NEW e \in Execs
  PROVE  Decided(w, fields, h, e) \in Decisions
<1>1. w.fields \union fields \in SUBSET Fields
  BY DEF Decisions
<1>2. (IF "hidden" \in fields THEN h ELSE w.hidden) \in BOOLEAN
  BY Zenon DEF Decisions
<1>3. (IF "exec" \in fields THEN e ELSE w.exec) \in Execs \union {""}
  BY Zenon DEF Decisions
<1> QED BY <1>1, <1>2, <1>3 DEF Decided, Decisions

\* So is what others leave of one.
LEMMA KeptType ==
  ASSUME NEW w \in Decisions, NEW fields
  PROVE  Kept(w, fields) \in Decisions
<1>1. w.fields \intersect fields \in SUBSET Fields
  BY DEF Decisions
<1>2. ("hidden" \in fields /\ w.hidden) \in BOOLEAN
  BY Zenon DEF Decisions
<1>3. (IF "exec" \in fields THEN w.exec ELSE "") \in Execs \union {""}
  BY Zenon DEF Decisions
<1> QED BY <1>1, <1>2, <1>3 DEF Kept, Decisions

\* The user's decision about the check box is one.
LEMMA DecidesType ==
  ASSUME Inv, NEW o \in Apps, DecidesHidden(o)
  PROVE  wanted' \in Decisions
<1>1. o.hidden \in BOOLEAN /\ o.exec \in Execs
  BY DEF Apps
<1> QED BY <1>1, DecidedType DEF DecidesHidden, Inv, Rest, Fields

\* What the window shows can be changed.
LEMMA RowsAlive ==
  ASSUME Inv, program = "running", NEW a \in rows
  PROVE  a \in Objects /\ refs[a] >= 1 /\ a \in Alive
  BY AliveHasReference DEF Inv, Lists

\* The check box of a row, which queues a save.
LEMMA ToggleInv == ASSUME Inv, NEW a \in Objects, Toggle(a) PROVE Inv'
<1> DEFINE o == queue_save(set_hidden(obj[a], ~obj[a].hidden))
<1>1. /\ obj' = [obj EXCEPT ![a] = o] /\ DecidesHidden(obj'[a]) /\ UserActs /\ a \in rows
      /\ UNCHANGED <<file, events, apps, rows, refs, editing, program, changes, mishaps>>
  BY DEF Toggle
<1>2. obj[a] \in Apps
  BY AppIsApp
<1>3. obj[a].hidden \in BOOLEAN
  BY <1>2 DEF Apps
<1>4. (~obj[a].hidden) \in BOOLEAN
  BY <1>3, Zenon
<1>5. o \in Apps
  BY <1>2, <1>4, SetHiddenType, QueueSaveType
<1> HIDE DEF o
<1>6. obj'[a] = o
  BY <1>1 DEF Inv, Owned
<1>7. refs[a] >= 1
  BY <1>1, RowsAlive DEF UserActs
<1>8. Owned'
  BY <1>1, <1>5, <1>7, OwnedStays DEF Inv
<1>9. Disk' /\ Lists' /\ Dialog'
  BY <1>1 DEF Inv, Disk, Lists, Dialog
<1>10. wanted' \in Decisions
  BY <1>1, <1>5, <1>6, DecidesType
<1>11. Rest'
  BY <1>1, <1>10, Counting DEF Inv, Rest
<1> QED BY <1>8, <1>9, <1>11 DEF Inv

\* The edit dialog takes a reference to the object of the row.
LEMMA OpenEditInv == ASSUME Inv, NEW a \in Objects, OpenEdit(a) PROVE Inv'
<1>1. /\ editing' = [app |-> a, exec |-> obj[a].exec] /\ UserActs /\ a \in rows
      /\ refs' = [refs EXCEPT ![a] = refs[a] + 1]
      /\ UNCHANGED <<file, events, apps, rows, obj, program, changes, wanted, mishaps>>
  BY DEF OpenEdit
<1>2. obj[a].exec \in Execs
  BY AppIsApp DEF Apps
<1>3. editing'.app = a /\ editing'.exec = obj[a].exec
  BY <1>1
<1>4. Dialog'
  BY <1>1, <1>2, <1>3 DEF Dialog
<1>5. /\ refs \in [Objects -> Nat] /\ refs[a] \in Nat /\ refs[a] >= 1
  BY <1>1, RowsAlive DEF Inv, Lists, UserActs
<1>6. /\ refs' \in [Objects -> Nat] /\ refs'[a] = refs[a] + 1
      /\ \A b \in Objects \ {a} : refs'[b] = refs[b]
  BY <1>1, <1>5
<1>7. \A b \in Objects : refs[b] >= 1 => refs'[b] >= 1
  BY <1>5, <1>6
<1>8. Owned'
  BY <1>1, <1>7 DEF Inv, Owned
<1>9. ASSUME program' = "running", NEW b \in rows'
      PROVE  refs'[b] >= 1 /\ (b = editing'.app => refs'[b] >= 2)
  <2>1. b \in Objects /\ refs[b] >= 1
    BY <1>1, <1>9, RowsAlive
  <2> QED BY <1>3, <1>5, <1>6, <1>7, <2>1
<1>10. Lists'
  BY <1>1, <1>6, <1>9 DEF Inv, Lists
<1>11. Disk' /\ Rest'
  BY <1>1, Counting DEF Inv, Disk, Rest
<1> QED BY <1>4, <1>8, <1>10, <1>11 DEF Inv

\* The edit dialog lets its object go, perhaps by the last reference.
LEMMA CloseEditInv == ASSUME Inv, NEW exec \in Execs, CloseEdit(exec) PROVE Inv'
<1> DEFINE a == editing.app
           o == gsp_app_update(obj[a], exec)
<1>1. a \in Alive /\ a \in Objects /\ a # 0
  BY ObjectsAssumption DEF CloseEdit, Alive
<1>2. obj[a] \in Apps
  BY <1>1, AppIsApp
<1>3. o \in Apps
  BY <1>2, UpdateType
<1> HIDE DEF o
<1>4. PICK s \in Released(a, o, file) :
        Becomes(a, s, events) /\ mishaps' = mishaps \union s.mishaps
  BY DEF CloseEdit, o
<1>5. /\ editing' = [app |-> 0, exec |-> ""] /\ unref(a)
      /\ wanted' = IF exec = obj[a].exec THEN wanted
                   ELSE Decided(wanted, {"exec"}, obj[a].hidden, exec)
      /\ UNCHANGED <<apps, rows, program, bounds>>
  BY DEF CloseEdit
<1>6. /\ Owned' /\ s.file \in [Dirs -> Contents] /\ s.notes \in Seq(Events)
      /\ s.mishaps \in SUBSET Mishaps
  BY <1>1, <1>3, <1>4, <1>5, ReleasedOwned DEF Inv, Disk, Becomes
<1>7. Disk'
  BY <1>4, <1>6, Queueing DEF Inv, Disk, Becomes
<1>8. /\ refs' \in [Objects -> Nat] /\ refs'[a] = refs[a] - 1
      /\ \A b \in Objects \ {a} : refs'[b] = refs[b]
  BY <1>1, <1>5, Unreferenced
<1>9. ASSUME program' = "running", NEW b \in rows'
      PROVE  refs'[b] >= 1 /\ b # editing'.app
  <2>1. /\ b \in Objects /\ refs[b] >= 1 /\ (b = a => refs[b] >= 2)
        /\ refs[b] \in Nat
    BY <1>5, <1>9 DEF Inv, Lists
  <2>2. refs'[b] >= 1
    BY <1>8, <2>1
  <2> QED BY <1>5, <2>1, <2>2, ObjectsAssumption
<1>10. Lists' /\ Dialog'
  BY <1>5, <1>8, <1>9 DEF Inv, Lists, Dialog
<1>11. wanted' \in Decisions
  <2>1. obj[a].hidden \in BOOLEAN
    BY <1>2 DEF Apps
  <2>2. Decided(wanted, {"exec"}, obj[a].hidden, exec) \in Decisions
    BY <2>1, DecidedType DEF Inv, Rest, Fields
  <2> QED BY <1>5, <2>2 DEF Inv, Rest
<1>12. Rest'
  BY <1>4, <1>5, <1>6, <1>11 DEF Inv, Rest, bounds
<1> QED BY <1>6, <1>7, <1>10, <1>12 DEF Inv

\* An object that leaves the list takes its row with it; nobody else changes.
LEMMA RemovedInv ==
  ASSUME Inv, NEW a \in Objects, a \in Alive, NEW o \in Apps, NEW f \in [Dirs -> Contents],
         NEW queue \in Seq(Events), app_removed(a, o, f, queue),
         UNCHANGED <<editing, program>>
  PROVE  /\ Owned' /\ Lists' /\ Disk' /\ Dialog' /\ mishaps' \in SUBSET Mishaps
         /\ refs'[a] >= 1 => obj' = [obj EXCEPT ![a] = o]
         /\ \A b \in Objects \ {a} : obj'[b] = obj[b]
<1>1. RemoveFirst(apps, a) \in Seq(Objects)
  BY RemoveFirstType DEF Inv, Lists
<1> DEFINE m == Reason(\E d \in Dirs : gsp_app_can_launch(f[d]), "removed")
<1>2. m \in SUBSET Mishaps
  BY ReasonType DEF Mishaps
<1> HIDE DEF m
<1>3. PICK s \in Released(a, o, f) :
        Becomes(a, s, queue) /\ mishaps' = mishaps \union s.mishaps \union m
  BY DEF app_removed, m
<1>4. rows' = rows \ {a} /\ apps' = RemoveFirst(apps, a) /\ unref(a)
  BY DEF app_removed
<1>5. /\ Owned' /\ s.file \in [Dirs -> Contents] /\ s.notes \in Seq(Events)
      /\ s.mishaps \in SUBSET Mishaps
  BY <1>3, <1>4, ReleasedOwned DEF Becomes
<1>6. Disk'
  BY <1>3, <1>5, Queueing DEF Disk, Becomes
<1>7. /\ refs' \in [Objects -> Nat] /\ refs'[a] = refs[a] - 1 /\ refs[a] \in Nat
      /\ \A b \in Objects \ {a} : refs'[b] = refs[b]
  BY <1>4, Unreferenced DEF Inv, Lists
<1>8. Lists'
  BY <1>1, <1>4, <1>7 DEF Inv, Lists
<1>9. Dialog' /\ mishaps' \in SUBSET Mishaps
  BY <1>2, <1>3, <1>5 DEF Inv, Dialog, Rest
<1>10. obj' = [obj EXCEPT ![a] = s.obj]
  BY <1>3 DEF Becomes
<1>11. refs'[a] >= 1 => s.obj = o
  <2>1. refs'[a] >= 1 => refs[a] > 1
    BY <1>7
  <2>2. IF refs[a] > 1 THEN s.obj = o ELSE s.obj = Unused
    BY <1>3, ReleasedType
  <2> QED BY <2>1, <2>2
<1>12. \A b \in Objects \ {a} : obj'[b] = obj[b]
  BY <1>10 DEF Inv, Owned
<1> QED BY <1>5, <1>6, <1>8, <1>9, <1>10, <1>11, <1>12

\* The deletion of an entry, whose row leaves with it.
LEMMA DeleteInv == ASSUME Inv, NEW a \in Objects, Delete(a) PROVE Inv'
<1> DEFINE o == set_hidden(obj[a], TRUE)
<1>1. UserActs /\ a \in rows /\ UNCHANGED <<editing, program, changes>>
  BY DEF Delete
<1>2. o \in Apps
  BY AppIsApp, SetHiddenType
<1>3. a \in Alive /\ refs[a] >= 1
  BY <1>1, RowsAlive DEF UserActs
<1> HIDE DEF o
<1>4. CASE o.xdg_position = 0 /\ o.xdg_system_position = None
  <2> DEFINE x == [o EXCEPT !.save_timeout = "none"]
             f == [file EXCEPT ![0] = Absent]
             q == events \o DeleteNotes(0, file)
  <2>1. app_removed(a, x, f, q) /\ wanted' = Undecided
    BY <1>4 DEF Delete, o
  <2>2. x \in Apps
    BY <1>2 DEF Apps
  <2>3. f \in [Dirs -> Contents]
    BY ContentsType DEF Inv, Disk
  <2>4. q \in Seq(Events)
    BY NotesType, DirsType, Queueing DEF Inv, Disk
  <2> HIDE DEF x, f, q
  <2>5. Owned' /\ Lists' /\ Disk' /\ Dialog' /\ mishaps' \in SUBSET Mishaps
    BY <1>1, <1>3, <2>1, <2>2, <2>3, <2>4, RemovedInv
  <2>6. Undecided \in Decisions
    BY DEF Undecided, Decisions
  <2>7. Rest'
    BY <1>1, <2>1, <2>5, <2>6, Counting DEF Inv, Rest
  <2> QED BY <2>5, <2>7 DEF Inv
<1>5. CASE ~(o.xdg_position = 0 /\ o.xdg_system_position = None)
  <2>1. /\ obj' = [obj EXCEPT ![a] = queue_save(o)] /\ DecidesHidden(o)
        /\ UNCHANGED <<file, events, apps, rows, refs, mishaps>>
    BY <1>5 DEF Delete, o
  <2>2. queue_save(o) \in Apps
    BY <1>2, QueueSaveType
  <2>3. Owned'
    BY <1>3, <2>1, <2>2, OwnedStays DEF Inv
  <2>4. Disk' /\ Lists' /\ Dialog'
    BY <1>1, <2>1 DEF Inv, Disk, Lists, Dialog
  <2>5. wanted' \in Decisions
    BY <1>2, <2>1, DecidesType
  <2>6. Rest'
    BY <1>1, <2>1, <2>5, Counting DEF Inv, Rest
  <2> QED BY <2>3, <2>4, <2>6 DEF Inv
<1> QED BY <1>4, <1>5

\* gsp_app_manager_add puts an object, which no dialog has, in front of the others.
LEMMA AddedInv ==
  ASSUME Inv, NEW a \in Objects, NEW o \in Apps, manager_add(a), obj' = [obj EXCEPT ![a] = o],
         a # editing.app, UNCHANGED <<editing, program>>
  PROVE  Owned' /\ Lists' /\ Dialog'
<1>1. /\ apps' = <<a>> \o apps /\ rows' = rows \union {a}
      /\ refs' = [refs EXCEPT ![a] = IF a \in Alive THEN refs[a] ELSE 1]
  BY DEF manager_add
<1>2. <<a>> \in Seq(Objects) /\ apps \in Seq(Objects)
  BY DEF Inv, Lists
<1>3. apps' \in Seq(Objects)
  BY <1>1, <1>2, ConcatProperties
<1>4. /\ refs' \in [Objects -> Nat] /\ refs'[a] >= 1
      /\ \A b \in Objects \ {a} : refs'[b] = refs[b]
  <2>1. refs \in [Objects -> Nat] /\ refs[a] \in Nat
    BY DEF Inv, Lists
  <2>2. CASE a \in Alive
    BY <1>1, <2>1, <2>2, AliveHasReference
  <2>3. CASE a \notin Alive
    BY <1>1, <2>1, <2>3
  <2> QED BY <2>2, <2>3
<1>5. Lists'
  BY <1>1, <1>3, <1>4 DEF Inv, Lists
<1>6. Owned'
  BY <1>4, OwnedStays DEF Inv
<1>7. Dialog'
  BY DEF Inv, Dialog
<1> QED BY <1>5, <1>6, <1>7

\* A new entry of the user, whose object is added to the list.
LEMMA CreateInv == ASSUME Inv, Create PROVE Inv'
<1> DEFINE new == AppOf(0, None, Content("app", FALSE, "new"))
           o == queue_save([new EXCEPT !.save_mask = Fields])
           a == NewObject
<1>1. /\ obj' = [obj EXCEPT ![a] = o] /\ manager_add(a) /\ UserActs /\ FreeObjects # {}
      /\ wanted' = Decided(wanted, Fields, FALSE, "new")
      /\ mishaps' = mishaps \union Reason(Alive # {}, "shared")
      /\ UNCHANGED <<file, events, editing, program, changes>>
  BY DEF Create
<1>2. o \in Apps
  <2> DEFINE c == Content("app", FALSE, "new")
  <2>1. c.hidden \in BOOLEAN /\ c.exec \in Execs
    BY DEF Content, Execs
  <2> HIDE DEF c
  <2>2. AppOf(0, None, c) \in Apps
    BY <2>1, AppOfType, DirsType
  <2>3. new \in Apps
    BY <2>2 DEF c
  <2> HIDE DEF new
  <2>4. [new EXCEPT !.save_mask = Fields] \in Apps
    BY <2>3 DEF Apps
  <2> QED BY <2>4, QueueSaveType
<1>3. a \in Objects /\ a # editing.app
  BY <1>1, NewObjectIsFree DEF FreeObjects
<1> HIDE DEF o, a
<1>4. Owned' /\ Lists' /\ Dialog'
  BY <1>1, <1>2, <1>3, AddedInv
<1>5. Disk'
  BY <1>1 DEF Inv, Disk
<1>6. mishaps' \in SUBSET Mishaps
  BY <1>1, ReasonType DEF Inv, Rest, Mishaps
<1>7. wanted' \in Decisions
  <2>1. "new" \in Execs
    BY DEF Execs
  <2> QED BY <1>1, <2>1, DecidedType DEF Inv, Rest
<1>8. Rest'
  BY <1>1, <1>6, <1>7, Counting DEF Inv, Rest
<1> QED BY <1>4, <1>5, <1>8 DEF Inv

-----------------------------------------------------------------------------
(***************************************************************************)
(* Reading: what is copied, and what the monitors report.                  *)
(***************************************************************************)
LEMMA HeadIsApp ==
  ASSUME Inv, apps # <<>>
  PROVE  Head(apps) \in Objects /\ obj[Head(apps)] \in Apps
  BY HeadAndTail, AppIsApp DEF Inv, Lists

\* So is one that has not been freed, and it is alive.
LEMMA HeadIsAlive ==
  ASSUME Inv, apps # <<>>, ~HeadIsFreed
  PROVE  Head(apps) \in Alive /\ refs[Head(apps)] >= 1
  BY HeadIsApp, AliveHasReference DEF HeadIsFreed

\* A file that is dropped on the window or chosen.
LEMMA CopyInv == ASSUME Inv, NEW content \in Written, Copy(content) PROVE Inv'
<1> DEFINE known == apps # <<>>
           copied == [file EXCEPT ![0] = content]
           loaded == /\ gsp_app_can_launch(content)
                     /\ known => ~IsOwnWrite(obj[Head(apps)], 0) /\ ~IsIgnored(obj[Head(apps)], 0)
           a == IF known THEN Head(apps) ELSE NewObject
           o == IF known THEN reload(obj[a], copied, 0) ELSE AppOf(0, None, content)
           x == IF o.hidden THEN queue_save(set_hidden(o, FALSE)) ELSE o
           m == Reason(known /\ loaded, "shared")
                  \union (IF known THEN ReloadMishaps(obj[Head(apps)], 0) ELSE {})
<1>1. /\ UserActs /\ ~HeadIsFreed /\ (known \/ FreeObjects # {})
      /\ UNCHANGED <<editing, program, changes>>
      /\ mishaps' = mishaps \union Reason(known /\ loaded, "shared")
                      \union (IF known THEN ReloadMishaps(obj[Head(apps)], 0) ELSE {})
  BY DEF Copy
<1>2. PICK n \in WriteNotes(0) :
        IF loaded
        THEN /\ obj' = [obj EXCEPT ![a] = x] /\ manager_add(a)
             /\ file' = copied /\ events' = events \o n
             /\ wanted' = Decided(wanted, Fields, FALSE, content.exec)
        ELSE /\ obj' = IF known THEN [obj EXCEPT ![a] = o] ELSE obj
             /\ events' = events \o n \o <<Event(0, TRUE)>>
             /\ UNCHANGED <<file, apps, rows, refs, wanted>>
  BY DEF Copy
<1>3. a \in Objects
  BY <1>1, HeadIsApp, NewObjectIsFree DEF FreeObjects
<1>4. content \in Contents /\ copied \in [Dirs -> Contents]
  BY ContentsType DEF Inv, Disk
<1>5. n \in Seq(Events)
  BY NotesType, DirsType DEF Inv, Disk
<1>6. events \in Seq(Events) /\ file \in [Dirs -> Contents]
  BY DEF Inv, Disk
<1>7. mishaps' \in SUBSET Mishaps
  <2>1. Reason(known /\ loaded, "shared") \in SUBSET Mishaps
    BY ReasonType DEF Mishaps
  <2>2. (IF known THEN ReloadMishaps(obj[Head(apps)], 0) ELSE {}) \in SUBSET Mishaps
    BY ReloadMishapsType
  <2> QED BY <1>1, <2>1, <2>2 DEF Inv, Rest
<1>8. edits' \in 0..MaxEdits /\ changes' \in 0..MaxChanges
  <2>1. Rest
    BY DEF Inv
  <2>2. UserActs
    BY <1>1
  <2>3. edits' \in 0..MaxEdits
    BY <2>1, <2>2, Counting
  <2>4. changes' = changes
    BY <1>1
  <2> QED BY <2>1, <2>3, <2>4 DEF Rest
<1>9. program' \in Programs
  BY <1>1 DEF Inv, Rest
<1>10. known => o \in Apps
  BY <1>3, <1>4, AppIsApp, DirsType, ReloadType
<1>11. CASE loaded
  <2>1. content.hidden \in BOOLEAN /\ content.exec \in Execs
    BY <1>4, <1>11, ContentsType
  <2>2. o \in Apps
    BY <1>10, <2>1, AppOfType, DirsType
  <2> HIDE DEF o
  <2>3. x \in Apps
    BY <2>2, SetHiddenType, QueueSaveType
  <2>4. /\ obj' = [obj EXCEPT ![a] = x] /\ manager_add(a) /\ file' = copied
        /\ events' = events \o n /\ wanted' = Decided(wanted, Fields, FALSE, content.exec)
    BY <1>2, <1>11
  <2>5. a # editing.app
    BY <1>1, <1>3, ObjectsAssumption DEF UserActs, NotEditing
  <2> HIDE DEF x, a
  <2>6. Owned' /\ Lists' /\ Dialog'
    BY <1>1, <1>3, <2>3, <2>4, <2>5, AddedInv
  <2>7. Disk'
    BY <1>4, <1>5, <1>6, <2>4, Queueing DEF Disk
  <2>8. wanted' \in Decisions
    BY <2>1, <2>4, DecidedType DEF Inv, Rest
  <2>9. Rest'
    BY <1>7, <1>8, <1>9, <2>8 DEF Rest
  <2> QED BY <2>6, <2>7, <2>9 DEF Inv
<1>12. CASE ~loaded
  <2>1. /\ obj' = IF known THEN [obj EXCEPT ![a] = o] ELSE obj
        /\ events' = events \o n \o <<Event(0, TRUE)>>
        /\ UNCHANGED <<file, apps, rows, refs, wanted>>
    BY <1>2, <1>12
  <2>2. Owned'
    <3>1. CASE known
      <4>1. refs[a] >= 1
        BY <1>1, <3>1, HeadIsAlive
      <4>2. obj' = [obj EXCEPT ![a] = o] /\ o \in Apps
        BY <1>10, <2>1, <3>1
      <4> HIDE DEF a, o
      <4> QED BY <1>3, <2>1, <4>1, <4>2, OwnedStays DEF Inv
    <3>2. CASE ~known
      BY <2>1, <3>2 DEF Inv, Owned
    <3> QED BY <3>1, <3>2
  <2>3. events' \in Seq(Events)
    <3>1. Event(0, TRUE) \in Events
      BY DirsType DEF Event, Events
    <3>2. \A e \in Events : <<e>> \in Seq(Events)
      OBVIOUS
    <3>3. <<Event(0, TRUE)>> \in Seq(Events)
      BY <3>1, <3>2
    <3> QED BY <1>5, <1>6, <2>1, <3>3, Queueing
  <2>4. Disk' /\ Lists' /\ Dialog'
    BY <1>1, <2>1, <2>3 DEF Inv, Disk, Lists, Dialog
  <2>5. wanted' \in Decisions
    BY <2>1 DEF Inv, Rest
  <2>6. Rest'
    BY <1>7, <1>8, <1>9, <2>5 DEF Rest
  <2> QED BY <2>2, <2>4, <2>6 DEF Inv
<1> QED BY <1>11, <1>12

\* An edit that is not saved yet.
EditKept ==
  \A a \in Objects :
    a \in Alive' /\ obj[a].save_timeout = "live" =>
      obj'[a].hidden = obj[a].hidden /\ obj'[a].exec = obj[a].exec

\* The report that is handled first is of a directory.
LEMMA FirstEvent ==
  ASSUME Inv, events # <<>>
  PROVE  /\ Tail(events) \in Seq(Events)
         /\ Head(events).dir \in Dirs
<1>1. Head(events) \in Events /\ Tail(events) \in Seq(Events)
  BY DEF Inv, Disk
<1> QED BY <1>1 DEF Events

\* The newest object is read again, and nothing else changes.
LEMMA ReloadedInv ==
  ASSUME Inv, apps # <<>>, ~HeadIsFreed, NEW position, NEW dir \in Dirs,
         position \in {obj[Head(apps)].xdg_position, None},
         obj' = [obj EXCEPT ![Head(apps)] =
                   reload([obj[Head(apps)] EXCEPT !.xdg_position = position], file, dir)],
         UNCHANGED refs
  PROVE  Owned' /\ EditKept
<1> DEFINE a == Head(apps)
           o == [obj[a] EXCEPT !.xdg_position = position]
           r == reload(o, file, dir)
<1>1. a \in Objects /\ refs[a] >= 1 /\ obj[a] \in Apps
  BY HeadIsApp, HeadIsAlive
<1>2. /\ o \in Apps /\ o.hidden = obj[a].hidden /\ o.exec = obj[a].exec
      /\ o.save_timeout = obj[a].save_timeout
  BY <1>1 DEF Apps
<1> HIDE DEF o
<1>3. /\ r \in Apps
      /\ o.save_timeout # "none" => r.hidden = o.hidden /\ r.exec = o.exec
  BY <1>2, ReloadType DEF Inv, Disk
<1>4. obj' = [obj EXCEPT ![a] = r]
  BY DEF o
<1> HIDE DEF r, a
<1>5. Owned'
  BY <1>1, <1>3, <1>4, OwnedStays DEF Inv
<1>6. EditKept
  BY <1>1, <1>2, <1>3, <1>4 DEF EditKept, Inv, Owned
<1> QED BY <1>5, <1>6

\* Nobody changes.
LEMMA NobodyChanges ==
  ASSUME Inv, UNCHANGED <<obj, refs>>
  PROVE  Owned' /\ EditKept
  BY DEF Inv, Owned, EditKept

\* Setting a position to what it was is no change.
LEMMA SamePosition ==
  ASSUME NEW o \in Apps
  PROVE  [o EXCEPT !.xdg_position = o.xdg_position] = o
  BY DEF Apps

\* The report of a file that was written: a new object, one read again, or nothing.
LEMMA FileWrittenInv ==
  ASSUME Inv, events # <<>>, ~HeadIsFreed, NEW dir \in Dirs, FileWritten(dir),
         program = "running", UNCHANGED <<editing, bounds, wanted>>
  PROVE  Inv' /\ EditKept
<1>1. events' = Tail(events) /\ file' = file
  BY DEF FileWritten
<1>2. Disk'
  BY <1>1, FirstEvent DEF Inv, Disk
<1>3. Dialog'
  BY DEF Inv, Dialog
<1>4. ASSUME program' \in {"running", "aborted"}, mishaps' \in SUBSET Mishaps PROVE Rest'
  BY <1>4 DEF Inv, Rest, bounds, Programs
<1>5. CASE apps = <<>> /\ gsp_app_can_launch(file[dir])
  <2> DEFINE a == NewObject
             o == AppOf(dir, IF dir > 0 THEN dir ELSE None, file[dir])
  <2>1. /\ obj' = [obj EXCEPT ![a] = o] /\ manager_add(a) /\ program' = program
        /\ FreeObjects # {} /\ mishaps' = mishaps \union Reason(Alive # {}, "shared")
    BY <1>5 DEF FileWritten
  <2>2. a \in Objects /\ a \notin Alive /\ a # editing.app
    BY <2>1, NewObjectIsFree DEF FreeObjects
  <2>3. file[dir].hidden \in BOOLEAN /\ file[dir].exec \in Execs
    BY <1>5, ContentsType DEF Inv, Disk
  <2>4. o \in Apps
    BY <2>3, AppOfType
  <2>5. mishaps' \in SUBSET Mishaps
    BY <2>1, ReasonType DEF Inv, Rest, Mishaps
  <2> HIDE DEF a, o
  <2>6. Owned' /\ Lists'
    BY <2>1, <2>2, <2>4, AddedInv
  <2>7. EditKept
    <3>1. obj[a].save_timeout # "live"
      BY <2>2, AliveHasReference DEF Inv, Owned
    <3>2. \A b \in Objects \ {a} : obj'[b] = obj[b]
      BY <2>1 DEF Inv, Owned
    <3> QED BY <3>1, <3>2 DEF EditKept
  <2> QED BY <1>2, <1>3, <1>4, <2>1, <2>5, <2>6, <2>7 DEF Inv
<1>6. CASE apps = <<>> /\ ~gsp_app_can_launch(file[dir])
  <2>1. UNCHANGED <<obj, apps, rows, refs, program, mishaps>>
    BY <1>6 DEF FileWritten
  <2>2. Owned' /\ EditKept
    BY <2>1, NobodyChanges
  <2>3. Lists' /\ mishaps' \in SUBSET Mishaps
    BY <2>1 DEF Inv, Lists, Rest
  <2> QED BY <1>2, <1>3, <1>4, <2>1, <2>2, <2>3 DEF Inv
<1>7. CASE apps # <<>>
  <2>1. /\ obj' = [obj EXCEPT ![Head(apps)] = reload(obj[Head(apps)], file, dir)]
        /\ program' \in {"running", "aborted"} /\ UNCHANGED <<apps, rows, refs>>
        /\ mishaps' = mishaps \union ReloadMishaps(obj[Head(apps)], dir)
    BY <1>7 DEF FileWritten
  <2>2. obj[Head(apps)] = [obj[Head(apps)] EXCEPT !.xdg_position = obj[Head(apps)].xdg_position]
    BY <1>7, HeadIsApp, SamePosition
  <2>3. Owned' /\ EditKept
    BY <1>7, <2>1, <2>2, ReloadedInv
  <2>4. Lists'
    BY <2>1 DEF Inv, Lists
  <2>5. mishaps' \in SUBSET Mishaps
    BY <2>1, ReloadMishapsType DEF Inv, Rest
  <2> QED BY <1>2, <1>3, <1>4, <2>1, <2>3, <2>4, <2>5 DEF Inv
<1> QED BY <1>5, <1>6, <1>7

\* The report of a file that was deleted.
LEMMA HandleDeleteInv ==
  ASSUME Inv, events # <<>>, apps # <<>>, ~HeadIsFreed, NEW index \in Dirs,
         handle_delete(Head(apps), index), program = "running",
         UNCHANGED <<editing, bounds, wanted>>
  PROVE  Inv' /\ EditKept
<1> DEFINE a == Head(apps)
           position == obj[a].xdg_position
           system_position == obj[a].xdg_system_position
<1>1. a \in Objects /\ a \in Alive /\ obj[a] \in Apps
  BY HeadIsApp, HeadIsAlive
<1>2. Tail(events) \in Seq(Events)
  BY FirstEvent
<1>3. CASE ~(system_position < index) /\ ~(index < position)
           /\ position = index /\ system_position \in {index, None}
  <2>1. app_removed(a, obj[a], file, Tail(events)) /\ program' = program
    BY <1>3 DEF handle_delete
  <2>2. /\ Owned' /\ Lists' /\ Disk' /\ Dialog' /\ mishaps' \in SUBSET Mishaps
        /\ refs'[a] >= 1 => obj' = [obj EXCEPT ![a] = obj[a]]
        /\ \A b \in Objects \ {a} : obj'[b] = obj[b]
    BY <1>1, <1>2, <2>1, RemovedInv DEF Inv, Disk
  <2>3. a \in Alive' => refs'[a] >= 1
    BY <2>2 DEF Lists, Alive
  <2>4. EditKept
    BY <1>1, <2>2, <2>3 DEF EditKept, Inv, Owned
  <2>5. Rest'
    BY <2>1, <2>2 DEF Inv, Rest, bounds
  <2> QED BY <2>2, <2>4, <2>5 DEF Inv
<1>4. CASE \/ system_position < index \/ index < position
           \/ ~(position = index /\ system_position \in {index, None})
  <2>1. /\ events' = Tail(events)
        /\ UNCHANGED <<file, apps, rows, refs>> /\ program' \in {"running", "aborted"}
    BY <1>4 DEF handle_delete, reload_at
  <2>2. \/ obj' = obj /\ mishaps' = mishaps
        \/ obj' = [obj EXCEPT ![a].xdg_system_position = find_dir_with_basename(index)]
           /\ mishaps' = mishaps
        \/ reload_at(a, system_position) /\ system_position \notin {index, None}
    BY <1>4 DEF handle_delete
  <2>3. Disk' /\ Lists' /\ Dialog'
    BY <1>2, <2>1 DEF Inv, Disk, Lists, Dialog
  <2>4. mishaps' \in SUBSET Mishaps
    <3>1. CASE reload_at(a, system_position)
      <4>1. "adrift" \in Mishaps
        BY DEF Mishaps
      <4> HIDE DEF a
      <4>2. mishaps' = mishaps \union Reason(obj'[a].xdg_position = None, "adrift")
        BY <3>1 DEF reload_at
      <4> QED BY <4>1, <4>2, ReasonType DEF Inv, Rest
    <3> QED BY <2>2, <3>1 DEF Inv, Rest
  <2>5. Rest'
    BY <2>1, <2>4 DEF Inv, Rest, bounds, Programs
  <2>6. Owned' /\ EditKept
    <3>1. CASE obj' = obj
      BY <2>1, <3>1, NobodyChanges
    <3>2. CASE obj' = [obj EXCEPT ![a].xdg_system_position = find_dir_with_basename(index)]
      <4> DEFINE d == find_dir_with_basename(index)
                 o == [obj[a] EXCEPT !.xdg_system_position = d]
      <4>1. d \in Dirs \union {None}
        <5>1. {x \in {y \in Dirs : y > index} : Loadable(file[x])} \in SUBSET Dirs
          OBVIOUS
        <5> QED BY <5>1, LowestType DEF find_dir_with_basename, InForce
      <4> HIDE DEF d
      <4>2. /\ o \in Apps /\ o.hidden = obj[a].hidden /\ o.exec = obj[a].exec
        BY <1>1, <4>1 DEF Apps
      <4>3. obj' = [obj EXCEPT ![a] = o]
        BY <3>2 DEF d
      <4>4. refs[a] >= 1
        BY HeadIsAlive
      <4> HIDE DEF o, a
      <4>5. Owned'
        BY <1>1, <2>1, <4>2, <4>3, <4>4, OwnedStays DEF Inv
      <4>6. EditKept
        BY <1>1, <4>2, <4>3 DEF EditKept, Inv, Owned
      <4> QED BY <4>5, <4>6
    <3>3. CASE reload_at(a, system_position) /\ system_position \notin {index, None}
      <4>1. system_position \in Dirs
        BY <1>1, <3>3 DEF Apps
      <4>2. obj' = [obj EXCEPT ![a] =
                      reload([obj[a] EXCEPT !.xdg_position = None], file, system_position)]
        BY <3>3 DEF reload_at
      <4> QED BY <2>1, <4>1, <4>2, ReloadedInv
    <3> QED BY <2>2, <3>1, <3>2, <3>3
  <2> QED BY <2>3, <2>5, <2>6 DEF Inv
<1> QED BY <1>3, <1>4

\* A pointer to an object that is no more.
LEMMA FreedInv == ASSUME Inv, Freed PROVE Inv' /\ EditKept
  BY NobodyChanges DEF Freed, Inv, Disk, Lists, Dialog, Rest, bounds, Programs

\* Whatever is reported, an edit that waits for its save is kept.
LEMMA HandleEventInv == ASSUME Inv, HandleEvent PROVE Inv' /\ EditKept
<1> DEFINE e == Head(events)
<1>1. program = "running" /\ events # <<>>
  BY DEF HandleEvent
<1>2. e.dir \in Dirs /\ Tail(events) \in Seq(Events)
  BY <1>1, FirstEvent
<1>3. CASE HeadIsFreed
  BY <1>3, FreedInv DEF HandleEvent
<1>4. CASE ~HeadIsFreed /\ ~e.deleted
  <2>1. FileWritten(e.dir) /\ UNCHANGED <<editing, bounds, wanted>>
    BY <1>4 DEF HandleEvent
  <2> QED BY <1>1, <1>2, <1>4, <2>1, FileWrittenInv
<1>5. CASE ~HeadIsFreed /\ e.deleted /\ apps = <<>>
  <2>1. events' = Tail(events)
        /\ UNCHANGED <<file, apps, rows, refs, obj, program, mishaps, editing, bounds, wanted>>
    BY <1>5 DEF HandleEvent
  <2>2. Owned' /\ EditKept
    BY <2>1, NobodyChanges
  <2>3. Disk' /\ Lists' /\ Dialog' /\ Rest'
    BY <1>1, <1>2, <2>1 DEF Inv, Disk, Lists, Dialog, Rest, bounds
  <2> QED BY <2>2, <2>3 DEF Inv
<1>6. CASE ~HeadIsFreed /\ e.deleted /\ apps # <<>>
  <2>1. handle_delete(Head(apps), e.dir) /\ UNCHANGED <<editing, bounds, wanted>>
    BY <1>6 DEF HandleEvent
  <2> QED BY <1>1, <1>2, <1>6, <2>1, HandleDeleteInv
<1> QED BY <1>3, <1>4, <1>5, <1>6

-----------------------------------------------------------------------------
(***************************************************************************)
(* The end of the program, and the others.                                 *)
(***************************************************************************)
LEMMA CloseInv == ASSUME Inv, Close PROVE Inv'
<1>1. /\ program' = "closing" /\ events' = <<>> /\ rows' = {}
      /\ UNCHANGED <<file, apps, refs, obj, editing, bounds, wanted, mishaps>>
  BY DEF Close
<1>2. events' \in Seq(Events)
  BY <1>1
<1>3. Disk' /\ Lists' /\ Dialog'
  BY <1>1, <1>2 DEF Inv, Disk, Lists, Dialog
<1>4. Owned'
  BY <1>1, NobodyChanges
<1>5. Rest'
  BY <1>1 DEF Inv, Rest, bounds, Programs
<1> QED BY <1>3, <1>4, <1>5 DEF Inv

\* The window closes and saves, object by object, what was still due.
LEMMA DisposeNextInv == ASSUME Inv, DisposeNext PROVE Inv'
<1>1. program = "closing"
  BY DEF DisposeNext
<1>2. CASE HeadIsFreed
  BY <1>2, FreedInv DEF DisposeNext
<1>3. CASE ~HeadIsFreed /\ apps = <<>>
  <2>1. program' = "closed"
        /\ UNCHANGED <<file, apps, refs, obj, mishaps, events, rows, editing, bounds, wanted>>
    BY <1>3 DEF DisposeNext
  <2>2. Owned'
    BY <2>1, NobodyChanges
  <2>3. Disk' /\ Lists' /\ Dialog' /\ Rest'
    BY <2>1 DEF Inv, Disk, Lists, Dialog, Rest, bounds, Programs
  <2> QED BY <2>2, <2>3 DEF Inv
<1>4. CASE ~HeadIsFreed /\ apps # <<>>
  <2> DEFINE a == Head(apps)
  <2>1. /\ apps' = Tail(apps) /\ program' = program /\ unref(a)
        /\ UNCHANGED <<events, rows, editing, bounds, wanted>>
    BY <1>4 DEF DisposeNext
  <2>2. PICK s \in Released(a, obj[a], file) :
          /\ obj' = [obj EXCEPT ![a] = s.obj] /\ file' = s.file
          /\ mishaps' = mishaps \union s.mishaps
    BY <1>4 DEF DisposeNext
  <2>3. a \in Objects /\ obj[a] \in Apps /\ a \in Alive
    BY <1>4, HeadIsApp, HeadIsAlive
  <2>4. Tail(apps) \in Seq(Objects)
    BY <1>4, HeadAndTail DEF Inv, Lists
  <2>5. /\ Owned' /\ file' \in [Dirs -> Contents] /\ mishaps' \in SUBSET Mishaps
        /\ refs' \in [Objects -> Nat]
    BY <2>1, <2>2, <2>3, ReleasedOwned, Unreferenced DEF Inv, Disk, Rest
  <2>6. Disk' /\ Lists' /\ Dialog' /\ Rest'
    BY <1>1, <2>1, <2>4, <2>5 DEF Inv, Disk, Lists, Dialog, Rest, bounds
  <2> QED BY <2>5, <2>6 DEF Inv
<1> QED BY <1>2, <1>3, <1>4

\* Somebody else writes or deletes, which changes files and reports only.
LEMMA ForeignInv ==
  ASSUME Inv, NEW dir \in Dirs, NEW content \in Contents, NEW notes \in Seq(Events),
         ForeignChange(dir, content, notes)
  PROVE  Inv'
<1>1. /\ Changed /\ file' = [file EXCEPT ![dir] = content] /\ events' = events \o notes
      /\ wanted' = Kept(wanted, UNION {obj[a].save_mask : a \in Pending})
      /\ UNCHANGED <<apps, rows, refs, obj, editing, program, edits, mishaps>>
  BY DEF ForeignChange
<1>2. wanted' \in Decisions
  BY <1>1, KeptType DEF Inv, Rest
<1>3. Disk'
  BY <1>1, Queueing DEF Inv, Disk
<1>4. Owned'
  BY <1>1, NobodyChanges
<1>5. Lists' /\ Dialog'
  BY <1>1 DEF Inv, Lists, Dialog
<1>6. Rest'
  BY <1>1, <1>2, Counting DEF Inv, Rest
<1> QED BY <1>3, <1>4, <1>5, <1>6 DEF Inv

\* Every step keeps the invariant.
LEMMA Step == ASSUME Inv, [Next]_vars PROVE Inv'
<1>1. CASE EditAccepted
  <2>1. PICK exec \in {editing.exec, "new"} : CloseEdit(exec)
    BY <1>1 DEF EditAccepted
  <2>2. editing.app # 0
    BY <2>1, ObjectsAssumption DEF CloseEdit, Alive
  <2>3. exec \in Execs
    BY <2>1, <2>2 DEF Inv, Dialog, Execs
  <2> QED BY <2>1, <2>3, CloseEditInv
<1>2. CASE EditCancelled
  <2>1. CloseEdit(obj[editing.app].exec) /\ editing.app \in Objects
    BY <1>2 DEF EditCancelled, Inv, Dialog
  <2>2. obj[editing.app].exec \in Execs
    BY <2>1, AppIsApp DEF Apps
  <2> QED BY <2>1, <2>2, CloseEditInv
<1>3. CASE ForeignWrite
  <2>1. PICK dir \in Dirs, content \in Written :
          \E notes \in WriteNotes(dir) : ForeignChange(dir, content, notes)
    BY <1>3 DEF ForeignWrite
  <2>2. content \in Contents /\ WriteNotes(dir) \subseteq Seq(Events)
    BY ContentsType, NotesType DEF Inv, Disk
  <2> QED BY <2>1, <2>2, ForeignInv
<1>4. CASE ForeignDelete
  <2>1. PICK dir \in Dirs : ForeignChange(dir, Absent, DeleteNotes(dir, file))
    BY <1>4 DEF ForeignDelete
  <2>2. DeleteNotes(dir, file) \in Seq(Events) /\ Absent \in Contents
    BY ContentsType, NotesType DEF Inv, Disk
  <2> QED BY <2>1, <2>2, ForeignInv
<1>5. CASE UserMeetsFreed
  BY <1>5, FreedInv DEF UserMeetsFreed
<1>6. CASE UNCHANGED vars
  BY <1>6 DEF vars, bounds, Inv, Disk, Lists, Dialog, Owned, Rest
<1> QED
  BY <1>1, <1>2, <1>3, <1>4, <1>5, <1>6, SaveTimeoutInv, ToggleInv, OpenEditInv, DeleteInv,
     CreateInv, CopyInv, HandleEventInv, CloseInv, DisposeNextInv DEF Next

\* The invariant holds in every behaviour.
LEMMA Invariance == Spec => []Inv
<1>1. Inv /\ [Next]_vars => Inv'
  BY Step
<1> QED BY InitInv, <1>1, PTL DEF Spec

\* Every variable keeps its type, and no delay of a save outlives the object it would
\* save: gsp_app_dispose stops it, however list and dialog share the object, and also
\* where they share fewer references than they think.
THEOREM FilesTypeCorrect == Spec => []TypeOK
BY Invariance, InvIsTypeOK, PTL

\* _gsp_app_manager's reports of files that were written and deleted leave an edit
\* that waits for its save alone.
THEOREM EditIsKept == Spec => PendingEditIsKept
<1> DEFINE P == \A a \in Objects :
                  HandleEvent /\ a \in Alive' /\ obj[a].save_timeout = "live" =>
                    obj'[a].hidden = obj[a].hidden /\ obj'[a].exec = obj[a].exec
<1>1. ASSUME Inv, Next PROVE P
  BY <1>1, HandleEventInv DEF EditKept
<1>2. ASSUME Inv, UNCHANGED vars PROVE [P]_vars
  BY <1>2
<1>3. Inv /\ [Next]_vars => [P]_vars
  BY <1>1, <1>2
<1>4. PendingEditIsKept <=> [][P]_vars
  BY DEF PendingEditIsKept
<1> HIDE DEF P
<1> QED BY Invariance, <1>3, <1>4, PTL DEF Spec

-----------------------------------------------------------------------------
(***************************************************************************)
(* What the user has decided, as long as no write fails, the name has one  *)
(* object and no save goes by another file than the session's.             *)
(*                                                                         *)
(* A decision is in one of two places: in the mask of the object, with its *)
(* value in the object, or in the file the session reads.  For the save to *)
(* keep a decision it does not have in its mask, the object has to agree   *)
(* with that file when it is the file the save starts from.                *)
(***************************************************************************)
Field(r, x) == IF x = "hidden" THEN r.hidden ELSE r.exec

Stands(f, w, x) == InForce(f, Dirs) # None /\ Field(f[InForce(f, Dirs)], x) = Field(w, x)
Found(f, w) == \A x \in w.fields : Stands(f, w, x)

\* What is masked is due, and a save that is due is one to the user's file.
Orderly(o) ==
  /\ o.save_timeout # "live" => o.save_mask = {}
  /\ o.xdg_position = 0 \/ o.save_timeout = "live" => o.path = 0

Faithful(o, f, w) ==
  \A x \in w.fields :
    IF x \in o.save_mask THEN Field(o, x) = Field(w, x)
    ELSE Stands(f, w, x) /\ (Basis(o) = InForce(f, Dirs) => Field(o, x) = Field(w, x))

\* The name has one object at most, with a reference of the list and one of the dialog.
Counted ==
  \A a \in Objects :
    refs[a] = (IF apps = <<a>> THEN 1 ELSE 0) + (IF editing.app = a THEN 1 ELSE 0)
Single ==
  /\ apps = <<>> \/ \E a \in Objects : apps = <<a>>
  /\ \A a, b \in Objects : refs[a] >= 1 /\ refs[b] >= 1 => a = b
  /\ Counted

Goes == program \in {"running", "closing", "closed"}
Ending == (program # "running" => editing.app = 0) /\ (program = "closed" => apps = <<>>)

Placed ==
  /\ \A a \in Objects : refs[a] >= 1 => Orderly(obj[a]) /\ Faithful(obj[a], file, wanted)
  /\ (\A a \in Objects : refs[a] = 0) => Found(file, wanted)

Sound == Goes /\ Spared({"failed", "shared", "outdated"})
Decision == Sound => Single /\ Ending /\ Placed

\* The file the session reads is the first that can be read.
LEMMA InForceIs ==
  ASSUME NEW f, NEW D \in SUBSET Dirs
  PROVE  LET d == InForce(f, D) IN
         /\ d # None => d \in D /\ Loadable(f[d])
         /\ \A e \in D : Loadable(f[e]) => d # None /\ d <= e
<1> DEFINE S == {d \in D : Loadable(f[d])}
<1>1. S \in SUBSET Dirs /\ InForce(f, D) = Lowest(S)
  BY DEF InForce
<1>2. /\ S = {} => Lowest(S) = None
      /\ S # {} => Lowest(S) \in S
      /\ \A d \in S : Lowest(S) <= d
  BY <1>1, LowestType
<1>3. S # {} => Lowest(S) # None
  BY <1>1, <1>2, DirsType
<1> QED BY <1>1, <1>2, <1>3

\* The user's file comes before those of the system.
LEMMA UserFileFirst ==
  ASSUME NEW f
  PROVE  /\ Loadable(f[0]) => InForce(f, Dirs) = 0
         /\ ~Loadable(f[0]) => InForce(f, Dirs) = InForce(f, 1..Systems)
<1>1. Dirs \in SUBSET Dirs /\ \A d \in Dirs : d \in Nat /\ d >= 0 /\ (d # 0 => d \in 1..Systems)
  BY SystemsAssumption DEF Dirs
<1>2. ASSUME Loadable(f[0]) PROVE InForce(f, Dirs) = 0
  <2> DEFINE d == InForce(f, Dirs)
  <2>1. d # None /\ d <= 0 /\ d \in Dirs
    BY <1>2, InForceIs, DirsType
  <2> HIDE DEF d
  <2>2. d = 0
    BY <1>1, <2>1
  <2> QED BY <2>2 DEF d
<1>3. ASSUME ~Loadable(f[0]) PROVE InForce(f, Dirs) = InForce(f, 1..Systems)
  <2>1. {d \in Dirs : Loadable(f[d])} = {d \in 1..Systems : Loadable(f[d])}
    BY <1>1, <1>3, DirsType
  <2> QED BY <2>1 DEF InForce
<1> QED BY <1>2, <1>3

\* What happens to the user's file is nothing to the system's.
LEMMA SystemInForce ==
  ASSUME NEW f \in [Dirs -> Contents], NEW c
  PROVE  InForce([f EXCEPT ![0] = c], 1..Systems) = InForce(f, 1..Systems)
<1>1. \A d \in 1..Systems : [f EXCEPT ![0] = c][d] = f[d]
  BY DirsType
<1>2. {d \in 1..Systems : Loadable([f EXCEPT ![0] = c][d])} = {d \in 1..Systems : Loadable(f[d])}
  BY <1>1
<1> QED BY <1>2 DEF InForce

\* A save that goes by the session's file says what was decided.
LEMMA ObjectSays ==
  ASSUME NEW o \in Apps, NEW f, NEW w \in Decisions, Faithful(o, f, w), ~KeepsAnother(o, f)
  PROVE  \A x \in w.fields : /\ Field(o, x) = Field(w, x)
                             /\ x \notin o.save_mask => Basis(o) = InForce(f, Dirs)
<1> TAKE x \in w.fields
<1>1. CASE x \in o.save_mask
  BY <1>1 DEF Faithful
<1>2. CASE x \notin o.save_mask
  <2>1. x \in Fields
    BY DEF Decisions
  <2>2. o.save_mask # Fields
    BY <1>2, <2>1
  <2>3. InForce(f, Dirs) # None
    BY <1>2 DEF Faithful, Stands
  <2>4. Basis(o) = InForce(f, Dirs)
    BY <2>2, <2>3 DEF KeepsAnother
  <2> QED BY <1>2, <2>4 DEF Faithful
<1> QED BY <1>1, <1>2

\* The three ways a save goes: it falls back to a file of the system, it fails, or it
\* writes what is in the mask over what the file had that it starts from.
FallenBack(o) ==
  [save_done_success(o) EXCEPT !.path = o.xdg_system_position,
                               !.xdg_position = o.xdg_system_position]
Saved(o) == [save_done_success(o) EXCEPT !.save_timeout = "none", !.skip = TRUE]
Result(o, f) == Merged(o, f[Basis(o)])
WithUser(f, content) == [f EXCEPT ![0] = content]
Behind(o, f) == \/ o.xdg_system_position # InForce(f, 1..Systems)
                \/ KeepsAnother(o, f)
Surprising(o, f) == Result(o, f).hidden # o.hidden \/ Result(o, f).exec # o.exec

FallBack(o, f) ==
  [obj |-> FallenBack(o), file |-> IF o.path = 0 THEN WithUser(f, Absent) ELSE f,
   notes |-> IF o.path = 0 THEN DeleteNotes(0, f) ELSE <<>>,
   mishaps |-> Reason(Behind(o, f), "outdated")]
Failure(o, f) ==
  [obj |-> [o EXCEPT !.save_timeout = "none"], file |-> f, notes |-> <<>>, mishaps |-> {"failed"}]
Success(o, f, n) ==
  [obj |-> Saved(o), file |-> WithUser(f, Result(o, f)), notes |-> n,
   mishaps |-> Reason(KeepsAnother(o, f), "outdated") \union Reason(Surprising(o, f), "unseen")]

LEMMA SaveGoes ==
  ASSUME NEW o, NEW f
  PROVE  /\ user_equal_system(o, f) => gsp_app_save(o, f) = {FallBack(o, f)}
         /\ ~user_equal_system(o, f) =>
              gsp_app_save(o, f) = {Failure(o, f)}
                \union {Success(o, f, n) : n \in IF o.path = 0 THEN WriteNotes(0) ELSE {}}
  BY DEF gsp_app_save, FallBack, Failure, Success, FallenBack, Saved, Result, WithUser, Behind,
         Surprising

LEMMA FallingBack ==
  ASSUME NEW o, NEW f, user_equal_system(o, f), NEW s \in gsp_app_save(o, f)
  PROVE  /\ s.obj = FallenBack(o)
         /\ s.file = IF o.path = 0 THEN WithUser(f, Absent) ELSE f
         /\ s.notes = IF o.path = 0 THEN DeleteNotes(0, f) ELSE <<>>
         /\ s.mishaps = Reason(Behind(o, f), "outdated")
<1>1. s = FallBack(o, f)
  BY SaveGoes
<1> QED BY <1>1 DEF FallBack

LEMMA Writing ==
  ASSUME NEW o, NEW f, ~user_equal_system(o, f), NEW s \in gsp_app_save(o, f),
         "failed" \notin s.mishaps
  PROVE  /\ s.obj = Saved(o) /\ s.file = WithUser(f, Result(o, f))
         /\ o.path = 0 /\ s.notes \in WriteNotes(0)
         /\ s.mishaps = Reason(KeepsAnother(o, f), "outdated")
                          \union Reason(Surprising(o, f), "unseen")
<1>1. "failed" \in Failure(o, f).mishaps
  BY DEF Failure
<1>2. PICK n \in IF o.path = 0 THEN WriteNotes(0) ELSE {} : s = Success(o, f, n)
  BY <1>1, SaveGoes
<1>3. o.path = 0 /\ n \in WriteNotes(0)
  BY <1>2
<1> QED BY <1>2, <1>3 DEF Success

\* What becomes of the object.
LEMMA SavedIs ==
  ASSUME NEW o \in Apps
  PROVE  /\ FallenBack(o).hidden = o.hidden /\ FallenBack(o).exec = o.exec
         /\ FallenBack(o).save_timeout = o.save_timeout /\ FallenBack(o).save_mask = {}
         /\ FallenBack(o).xdg_position = o.xdg_system_position
         /\ FallenBack(o).path = o.xdg_system_position
         /\ FallenBack(o).xdg_system_position = o.xdg_system_position
         /\ FallenBack(o).skip = o.skip
         /\ Saved(o).hidden = o.hidden /\ Saved(o).exec = o.exec
         /\ Saved(o).save_timeout = "none" /\ Saved(o).save_mask = {}
         /\ Saved(o).path = o.path /\ Saved(o).xdg_position = o.xdg_position
         /\ Saved(o).xdg_system_position = o.xdg_system_position
         /\ Saved(o).skip = TRUE
<1>1. /\ FallenBack(o).hidden = o.hidden /\ FallenBack(o).exec = o.exec
      /\ FallenBack(o).save_timeout = o.save_timeout /\ FallenBack(o).save_mask = {}
      /\ FallenBack(o).xdg_position = o.xdg_system_position
      /\ FallenBack(o).path = o.xdg_system_position
      /\ FallenBack(o).xdg_system_position = o.xdg_system_position
      /\ FallenBack(o).skip = o.skip
  BY DEF FallenBack, save_done_success, Apps
<1>2. /\ Saved(o).hidden = o.hidden /\ Saved(o).exec = o.exec
      /\ Saved(o).save_timeout = "none" /\ Saved(o).save_mask = {}
      /\ Saved(o).path = o.path /\ Saved(o).xdg_position = o.xdg_position
      /\ Saved(o).xdg_system_position = o.xdg_system_position
      /\ Saved(o).skip = TRUE
  BY DEF Saved, save_done_success, Apps
<1> QED BY <1>1, <1>2

\* What becomes of the files.
LEMMA WithUserIs ==
  ASSUME NEW f \in [Dirs -> Contents], NEW c
  PROVE  /\ WithUser(f, c)[0] = c
         /\ \A d \in Dirs \ {0} : WithUser(f, c)[d] = f[d]
         /\ InForce(WithUser(f, c), 1..Systems) = InForce(f, 1..Systems)
         /\ ~Loadable(Absent)
  BY DirsType, SystemInForce DEF WithUser, Loadable, Absent, Content

\* What is written has the fields of the mask, and can be read.
LEMMA ResultIs ==
  ASSUME NEW o \in Apps, NEW f \in [Dirs -> Contents]
  PROVE  /\ Result(o, f).kind = IF Loadable(f[Basis(o)]) THEN f[Basis(o)].kind ELSE "app"
         /\ Loadable(Result(o, f))
         /\ \A x \in Fields :
              Field(Result(o, f), x) =
                IF x \in o.save_mask THEN Field(o, x)
                ELSE IF Loadable(f[Basis(o)]) THEN Field(f[Basis(o)], x)
                ELSE IF x = "hidden" THEN FALSE ELSE "/bin/false"
         /\ Basis(o) \in Dirs
<1>1. Basis(o) \in Dirs
  BY DEF Basis, Apps
<1> DEFINE b == IF Loadable(f[Basis(o)]) THEN f[Basis(o)] ELSE Content("app", FALSE, "/bin/false")
<1>2. /\ b.kind = IF Loadable(f[Basis(o)]) THEN f[Basis(o)].kind ELSE "app"
      /\ b.hidden = IF Loadable(f[Basis(o)]) THEN f[Basis(o)].hidden ELSE FALSE
      /\ b.exec = IF Loadable(f[Basis(o)]) THEN f[Basis(o)].exec ELSE "/bin/false"
  BY DEF Content
<1>3. Result(o, f) = Content(b.kind, IF "hidden" \in o.save_mask THEN o.hidden ELSE b.hidden,
                             IF "exec" \in o.save_mask THEN o.exec ELSE b.exec)
  BY DEF Result, Merged
<1> HIDE DEF b
<1>4. /\ Result(o, f).kind = b.kind
      /\ Result(o, f).hidden = IF "hidden" \in o.save_mask THEN o.hidden ELSE b.hidden
      /\ Result(o, f).exec = IF "exec" \in o.save_mask THEN o.exec ELSE b.exec
  BY <1>3 DEF Content
<1>5. Loadable(Result(o, f))
  BY <1>2, <1>4 DEF Loadable
<1>6. ASSUME NEW x \in Fields
      PROVE  Field(Result(o, f), x) =
                IF x \in o.save_mask THEN Field(o, x)
                ELSE IF Loadable(f[Basis(o)]) THEN Field(f[Basis(o)], x)
                ELSE IF x = "hidden" THEN FALSE ELSE "/bin/false"
  <2>1. CASE x = "hidden"
    BY <1>2, <1>4, <2>1 DEF Field
  <2>2. CASE x = "exec"
    BY <1>2, <1>4, <2>2 DEF Field
  <2> QED BY <2>1, <2>2 DEF Fields
<1> QED BY <1>1, <1>2, <1>4, <1>5, <1>6

\* After a save, what was decided is in the file the session reads, whichever way the
\* save went.
LEMMA SaveFaithful ==
  ASSUME NEW o \in Apps, NEW f \in [Dirs -> Contents], NEW w \in Decisions,
         Faithful(o, f, w), o.path = 0 \/ o.save_mask = {},
         NEW s \in gsp_app_save(o, f), "failed" \notin s.mishaps, "outdated" \notin s.mishaps
  PROVE  /\ Found(s.file, w)
         /\ o.save_timeout # "live" /\ o.path = 0 => Orderly(s.obj) /\ Faithful(s.obj, s.file, w)
<1>1. CASE user_equal_system(o, f)
  <2> DEFINE sys == o.xdg_system_position
             e == FallenBack(o)
  <2>1. /\ s.obj = e /\ s.file = IF o.path = 0 THEN WithUser(f, Absent) ELSE f
        /\ s.mishaps = Reason(Behind(o, f), "outdated")
    BY <1>1, FallingBack
  <2>2. sys = InForce(f, 1..Systems) /\ ~KeepsAnother(o, f)
    BY <2>1 DEF Reason, Behind
  <2>3. \A y : Field(e, y) = Field(o, y)
    BY SavedIs DEF Field
  <2>4. \A y \in w.fields : Field(o, y) = Field(w, y)
    BY <2>2, ObjectSays
  <2>5. /\ sys # None /\ sys \in 1..Systems /\ f[sys].hidden = o.hidden /\ f[sys].exec = o.exec
    <3>1. sys # None /\ f[sys].hidden = o.hidden /\ f[sys].exec = o.exec
      BY <1>1 DEF user_equal_system
    <3> QED BY <2>2, <3>1, InForceIs, DirsType
  <2>6. Found(s.file, w)
    <3>1. CASE o.path = 0
      <4> DEFINE g == WithUser(f, Absent)
      <4>1. sys # 0 /\ sys \in Dirs
        BY <2>5, DirsType
      <4>2. ~Loadable(g[0]) /\ g[sys] = f[sys] /\ InForce(g, 1..Systems) = sys
        BY <2>2, <4>1, WithUserIs
      <4>3. s.file = g
        BY <2>1, <3>1
      <4> HIDE DEF g
      <4>4. InForce(g, Dirs) = sys
        BY <4>2, UserFileFirst
      <4>5. \A y : Field(g[sys], y) = Field(o, y)
        BY <2>5, <4>2 DEF Field
      <4> QED BY <2>4, <2>5, <4>3, <4>4, <4>5 DEF Found, Stands
    <3>2. CASE o.path # 0
      <4>1. s.file = f /\ o.save_mask = {}
        BY <2>1, <3>2
      <4> QED BY <4>1 DEF Found, Faithful
    <3> QED BY <3>1, <3>2
  <2> HIDE DEF e
  <2>7. ASSUME o.save_timeout # "live"
        PROVE  Orderly(e) /\ Faithful(e, s.file, w)
    <3>1. Orderly(e)
      BY <2>7, SavedIs DEF Orderly, e
    <3>2. e.save_mask = {}
      BY SavedIs DEF e
    <3> QED BY <2>3, <2>4, <2>6, <3>1, <3>2 DEF Faithful, Found
  <2> QED BY <2>1, <2>6, <2>7
<1>2. CASE ~user_equal_system(o, f)
  <2> DEFINE merged == Result(o, f)
             g == WithUser(f, merged)
  <2>1. o.path = 0 /\ s.obj = Saved(o) /\ s.file = g /\ ~KeepsAnother(o, f)
    <3>1. Reason(KeepsAnother(o, f), "outdated") \subseteq s.mishaps
      BY <1>2, Writing
    <3> QED BY <1>2, <3>1, Writing DEF Reason
  <2>2. \A x \in w.fields : /\ Field(o, x) = Field(w, x)
                            /\ x \notin o.save_mask => Basis(o) = InForce(f, Dirs)
    BY <2>1, ObjectSays
  <2>3. InForce(g, Dirs) = 0 /\ g[0] = merged
    <3>1. Loadable(merged)
      BY ResultIs
    <3>2. g[0] = merged
      BY WithUserIs
    <3> HIDE DEF g, merged
    <3> QED BY <3>1, <3>2, UserFileFirst
  <2>4. ASSUME NEW x \in w.fields PROVE Field(merged, x) = Field(w, x)
    <3>1. x \in Fields
      BY DEF Decisions
    <3>2. CASE x \in o.save_mask
      BY <2>2, <3>1, <3>2, ResultIs
    <3>3. CASE x \notin o.save_mask
      <4>1. Stands(f, w, x) /\ Basis(o) = InForce(f, Dirs)
        BY <2>2, <3>3 DEF Faithful
      <4>2. Loadable(f[Basis(o)])
        BY <4>1, InForceIs DEF Stands
      <4>3. Field(merged, x) = Field(f[Basis(o)], x)
        BY <3>1, <3>3, <4>2, ResultIs
      <4> QED BY <4>1, <4>3 DEF Stands
    <3> QED BY <3>2, <3>3
  <2> HIDE DEF merged, g
  <2>5. Found(s.file, w)
    BY <2>1, <2>3, <2>4, DirsType DEF Found, Stands
  <2>6. Orderly(Saved(o))
    BY <2>1, SavedIs DEF Orderly
  <2>7. Faithful(Saved(o), s.file, w)
    <3>1. Saved(o).save_mask = {} /\ \A x : Field(Saved(o), x) = Field(o, x)
      BY SavedIs DEF Field
    <3> QED BY <2>2, <2>5, <3>1 DEF Faithful, Found
  <2> QED BY <2>1, <2>5, <2>6, <2>7
<1> QED BY <1>1, <1>2

\* Whoever gives back a reference leaves the decision in the object or in the file.
LEMMA ReleasedFaithful ==
  ASSUME NEW a, NEW o \in Apps, NEW f \in [Dirs -> Contents], NEW w \in Decisions,
         Orderly(o), Faithful(o, f, w), NEW s \in Released(a, o, f),
         "failed" \notin s.mishaps, "outdated" \notin s.mishaps
  PROVE  IF refs[a] > 1 THEN s.obj = o /\ s.file = f ELSE Found(s.file, w)
<1>1. CASE refs[a] > 1
  BY <1>1 DEF Released, Unsaved
<1>2. CASE ~(refs[a] > 1) /\ o.save_timeout = "none"
  <2>1. s.file = f /\ o.save_mask = {}
    BY <1>2 DEF Released, Unsaved, Orderly
  <2> QED BY <1>2, <2>1 DEF Found, Faithful
<1>3. CASE ~(refs[a] > 1) /\ o.save_timeout # "none"
  <2> DEFINE x == [o EXCEPT !.save_timeout = "none"]
  <2>1. PICK t \in gsp_app_save(x, f) : s = [t EXCEPT !.obj = Unused]
    BY <1>3 DEF Released
  <2>2. /\ x \in Apps /\ x.path = o.path /\ x.save_mask = o.save_mask
        /\ x.hidden = o.hidden /\ x.exec = o.exec
        /\ x.old_system_path = o.old_system_path
    BY DEF Apps
  <2> HIDE DEF x
  <2>3. Faithful(x, f, w)
    BY <2>2 DEF Faithful, Field, Basis
  <2>4. x.path = 0 \/ x.save_mask = {}
    BY <2>2 DEF Orderly
  <2>5. s.file = t.file /\ s.mishaps = t.mishaps
    BY <2>1, <2>2, SaveType DEF Results
  <2>6. Found(t.file, w)
    BY <2>2, <2>3, <2>4, <2>5, SaveFaithful
  <2> QED BY <1>3, <2>5, <2>6
<1> QED BY <1>1, <1>2, <1>3

\* The object that is made of a file agrees with it.
LEMMA FreshFaithful ==
  ASSUME NEW dir \in Dirs, NEW sys, NEW f, NEW w, Found(f, w),
         NEW mask, mask = {}
  PROVE  LET o == [AppOf(dir, sys, f[dir]) EXCEPT !.save_mask = mask] IN
         Orderly(o) /\ Faithful(o, f, w)
<1> DEFINE o == [AppOf(dir, sys, f[dir]) EXCEPT !.save_mask = mask]
<1>1. /\ o.path = dir /\ o.xdg_position = dir /\ o.save_timeout = "none" /\ o.save_mask = {}
      /\ o.old_system_path = None /\ o.hidden = f[dir].hidden /\ o.exec = f[dir].exec
  BY DEF AppOf
<1> HIDE DEF o
<1>2. Basis(o) = dir /\ \A x : Field(o, x) = Field(f[dir], x)
  BY <1>1 DEF Basis, Field
<1>3. Orderly(o)
  BY <1>1 DEF Orderly
<1>4. Faithful(o, f, w)
  BY <1>1, <1>2 DEF Faithful, Found, Stands
<1> QED BY <1>3, <1>4 DEF o

\* Reading a file again loses no decision, also where the object has lost its position.
LEMMA ReloadFaithful ==
  ASSUME NEW o \in Apps, NEW f \in [Dirs -> Contents], NEW dir \in Dirs, NEW w \in Decisions,
         Orderly(o), Faithful(o, f, w)
  PROVE  Orderly(reload(o, f, dir)) /\ Faithful(reload(o, f, dir), f, w)
<1> DEFINE r == reload(o, f, dir)
<1>1. CASE IsOwnWrite(o, dir) \/ IsIgnored(o, dir) \/ ~gsp_app_can_launch(f[dir])
  <2>1. /\ r.hidden = o.hidden /\ r.exec = o.exec /\ r.path = o.path
        /\ r.xdg_position = o.xdg_position /\ r.save_timeout = o.save_timeout
        /\ r.save_mask = o.save_mask /\ r.old_system_path = o.old_system_path
    BY <1>1 DEF reload, Apps
  <2> HIDE DEF r
  <2>2. Orderly(r) /\ Faithful(r, f, w)
    BY <2>1 DEF Orderly, Faithful, Field, Basis
  <2> QED BY <2>2 DEF r
<1>2. CASE ~IsOwnWrite(o, dir) /\ ~IsIgnored(o, dir) /\ gsp_app_can_launch(f[dir])
  <2> DEFINE sys == IF dir > 0 THEN dir ELSE o.xdg_system_position
  <2>1. r = [AppOf(dir, sys, f[dir]) EXCEPT !.save_mask = o.save_mask]
    BY <1>2 DEF reload
  <2>2. o.save_mask = {}
    BY <1>2 DEF IsIgnored, Orderly
  <2>3. Found(f, w)
    BY <2>2 DEF Faithful, Found
  <2> HIDE DEF sys, r
  <2>4. LET x == [AppOf(dir, sys, f[dir]) EXCEPT !.save_mask = o.save_mask] IN
        Orderly(x) /\ Faithful(x, f, w)
    BY <2>2, <2>3, FreshFaithful
  <2> QED BY <2>1, <2>4 DEF r
<1> QED BY <1>1, <1>2

\* What is edited is decided, and in the mask.
LEMMA EditFaithful ==
  ASSUME NEW o \in Apps, NEW f, NEW w \in Decisions, Orderly(o), Faithful(o, f, w)
  PROVE  /\ \A h \in BOOLEAN :
              LET e == queue_save(set_hidden(o, h)) IN
              Orderly(e) /\ Faithful(e, f, Decided(w, {"hidden"}, h, e.exec))
         /\ \A exec \in Execs \ {o.exec} :
              LET e == gsp_app_update(o, exec) IN
              Orderly(e) /\ Faithful(e, f, Decided(w, {"exec"}, e.hidden, exec))
<1>1. ASSUME NEW p \in Apps, p.path = o.path, p.xdg_position = o.xdg_position,
             p.old_system_path = o.old_system_path, p.save_timeout = o.save_timeout
      PROVE  /\ queue_save(p).hidden = p.hidden /\ queue_save(p).exec = p.exec
             /\ queue_save(p).save_mask = p.save_mask /\ Orderly(queue_save(p))
             /\ Basis(queue_save(p)) = Basis(o)
  <2>1. o.path \in Dirs /\ p.path # None
    BY <1>1, DirsType DEF Apps
  <2>2. /\ queue_save(p).hidden = p.hidden /\ queue_save(p).exec = p.exec
        /\ queue_save(p).save_mask = p.save_mask
        /\ queue_save(p).path = IF p.xdg_position = 0 THEN p.path ELSE 0
        /\ queue_save(p).save_timeout = "live"
        /\ queue_save(p).old_system_path = IF p.xdg_position # 0 /\ p.old_system_path = None
                                           THEN p.path ELSE p.old_system_path
    BY DEF queue_save, Apps
  <2> QED BY <1>1, <2>1, <2>2 DEF Orderly, Basis
<1>2. ASSUME NEW h \in BOOLEAN
      PROVE  LET e == queue_save(set_hidden(o, h)) IN
             Orderly(e) /\ Faithful(e, f, Decided(w, {"hidden"}, h, e.exec))
  <2> DEFINE p == set_hidden(o, h)
             e == queue_save(p)
             v == Decided(w, {"hidden"}, h, e.exec)
  <2>1. /\ p \in Apps /\ p.path = o.path /\ p.xdg_position = o.xdg_position
        /\ p.old_system_path = o.old_system_path /\ p.save_timeout = o.save_timeout
        /\ p.hidden = h /\ p.exec = o.exec /\ p.save_mask = o.save_mask \union {"hidden"}
    BY SetHiddenType DEF set_hidden, Apps
  <2> HIDE DEF p
  <2>2. /\ e.hidden = h /\ e.exec = o.exec /\ e.save_mask = o.save_mask \union {"hidden"}
        /\ Orderly(e) /\ Basis(e) = Basis(o)
    BY <1>1, <2>1
  <2> HIDE DEF e
  <2>3. v.fields = w.fields \union {"hidden"} /\ v.hidden = h /\ v.exec = w.exec
    BY DEF Decided
  <2> HIDE DEF v
  <2>4. Faithful(e, f, v)
    BY <2>2, <2>3 DEF Faithful, Field, Stands
  <2> QED BY <2>2, <2>4 DEF e, v, p
<1>3. ASSUME NEW exec \in Execs \ {o.exec}
      PROVE  LET e == gsp_app_update(o, exec) IN
             Orderly(e) /\ Faithful(e, f, Decided(w, {"exec"}, e.hidden, exec))
  <2> DEFINE p == [o EXCEPT !.exec = exec, !.save_mask = o.save_mask \union {"exec"}]
             e == gsp_app_update(o, exec)
             v == Decided(w, {"exec"}, e.hidden, exec)
  <2>1. /\ p.path = o.path /\ p.xdg_position = o.xdg_position
        /\ p.old_system_path = o.old_system_path /\ p.save_timeout = o.save_timeout
        /\ p.hidden = o.hidden /\ p.exec = exec /\ p.save_mask = o.save_mask \union {"exec"}
    BY DEF Apps
  <2>2. p \in Apps
    <3>1. o.save_mask \union {"exec"} \in SUBSET Fields
      BY DEF Apps, Fields
    <3> QED BY <3>1 DEF Apps
  <2>3. e = queue_save(p)
    BY DEF gsp_app_update
  <2> HIDE DEF p, e
  <2>4. /\ e.hidden = o.hidden /\ e.exec = exec /\ e.save_mask = o.save_mask \union {"exec"}
        /\ Orderly(e) /\ Basis(e) = Basis(o)
    BY <1>1, <2>1, <2>2, <2>3
  <2>5. v.fields = w.fields \union {"exec"} /\ v.hidden = w.hidden /\ v.exec = exec
    BY DEF Decided
  <2> HIDE DEF v
  <2>6. Faithful(e, f, v)
    <3>1. w.fields \subseteq Fields
      BY DEF Decisions
    <3> QED BY <2>4, <2>5, <3>1 DEF Faithful, Field, Stands, Fields
  <2> QED BY <2>4, <2>6 DEF e, v
<1> QED BY <1>2, <1>3

-----------------------------------------------------------------------------
\* Who has a reference is in the list, in the dialog, or in both.
LEMMA References ==
  ASSUME Inv, Single
  PROVE  /\ \A a \in Objects : /\ refs[a] \in Nat
                               /\ refs[a] >= 1 <=> apps = <<a>> \/ editing.app = a
                               /\ refs[a] > 1 <=> apps = <<a>> /\ editing.app = a
         /\ apps # <<>> => /\ Head(apps) \in Objects /\ apps = <<Head(apps)>>
                           /\ refs[Head(apps)] >= 1 /\ ~HeadIsFreed
         /\ (\A a \in Objects : refs[a] = 0) => apps = <<>> /\ editing.app = 0
<1>1. ASSUME NEW a \in Objects
      PROVE  /\ refs[a] \in Nat
             /\ refs[a] >= 1 <=> apps = <<a>> \/ editing.app = a
             /\ refs[a] > 1 <=> apps = <<a>> /\ editing.app = a
  <2>1. refs[a] = (IF apps = <<a>> THEN 1 ELSE 0) + (IF editing.app = a THEN 1 ELSE 0)
    BY DEF Single, Counted
  <2>2. CASE apps = <<a>>
    BY <2>1, <2>2
  <2>3. CASE apps # <<a>>
    BY <2>1, <2>3
  <2> QED BY <2>2, <2>3
<1>2. ASSUME apps # <<>>
      PROVE  /\ Head(apps) \in Objects /\ apps = <<Head(apps)>>
             /\ refs[Head(apps)] >= 1 /\ ~HeadIsFreed
  <2>1. PICK a \in Objects : apps = <<a>>
    BY <1>2 DEF Single
  <2>2. Head(apps) = a
    BY <2>1
  <2>3. refs[a] >= 1 /\ a \in Alive
    BY <1>1, <2>1, AliveHasReference
  <2> QED BY <2>1, <2>2, <2>3 DEF HeadIsFreed
<1>3. ASSUME \A a \in Objects : refs[a] = 0
      PROVE  apps = <<>> /\ editing.app = 0
  <2>1. editing.app \in Objects \union {0}
    BY DEF Inv, Dialog
  <2>2. \A a \in Objects : ~(refs[a] >= 1)
    BY <1>3
  <2> QED BY <1>1, <2>1, <2>2 DEF Single
<1> QED BY <1>1, <1>2, <1>3

\* One object changes.
LEMMA PlacedStays ==
  ASSUME Inv, Single, NEW a \in Objects, refs[a] >= 1, NEW o, obj' = [obj EXCEPT ![a] = o],
         Orderly(o), Faithful(o, file', wanted'), UNCHANGED <<apps, refs, editing>>
  PROVE  Single' /\ Placed'
<1>1. Single'
  BY DEF Single, Counted
<1>2. obj'[a] = o
  BY DEF Inv, Owned
<1>3. \A b \in Objects : refs'[b] >= 1 => b = a
  BY DEF Single
<1>4. ~(refs'[a] = 0)
  BY References
<1> QED BY <1>1, <1>2, <1>3, <1>4 DEF Placed

\* None does; the files or the decision may.
LEMMA NobodyMoves ==
  ASSUME Single, Placed, UNCHANGED <<obj, apps, refs, editing>>,
         \A a \in Objects : refs[a] >= 1 /\ Faithful(obj[a], file, wanted)
                              => Faithful(obj[a], file', wanted'),
         (\A a \in Objects : refs[a] = 0) => Found(file', wanted')
  PROVE  Single' /\ Placed'
  BY DEF Single, Counted, Placed

\* The list or the dialog gives its object back.
LEMMA SingleLess ==
  ASSUME Inv, Single, NEW a \in Objects, unref(a),
         \/ apps = <<a>> /\ apps' = <<>> /\ editing' = editing
         \/ editing.app = a /\ editing'.app = 0 /\ apps' = apps
  PROVE  /\ Single' /\ \A b \in Objects \ {a} : refs'[b] = 0
         /\ refs[a] > 1 => refs'[a] >= 1
         /\ ~(refs[a] > 1) => refs'[a] = 0
<1>1. a # 0
  BY ObjectsAssumption
<1>2. /\ refs[a] \in Nat /\ refs[a] >= 1
      /\ refs[a] = (IF apps = <<a>> THEN 1 ELSE 0) + (IF editing.app = a THEN 1 ELSE 0)
  BY References DEF Single, Counted
<1>3. /\ refs'[a] = refs[a] - 1 /\ \A b \in Objects \ {a} : refs'[b] = refs[b]
  BY <1>2, Unreferenced, AliveHasReference
<1>4. ASSUME NEW b \in Objects \ {a}
      PROVE  refs'[b] = 0 /\ ~(refs[b] >= 1) /\ apps # <<b>> /\ editing.app # b
  <2>1. ~(refs[b] >= 1)
    BY <1>2 DEF Single
  <2>2. refs[b] \in Nat /\ apps # <<b>> /\ editing.app # b
    BY <2>1, References
  <2> QED BY <1>3, <2>1, <2>2
<1>5. Counted'
  <2>1. refs'[a] = (IF apps' = <<a>> THEN 1 ELSE 0) + (IF editing'.app = a THEN 1 ELSE 0)
    <3>1. CASE apps = <<a>> /\ apps' = <<>> /\ editing' = editing
      BY <1>2, <1>3, <3>1
    <3>2. CASE editing.app = a /\ editing'.app = 0 /\ apps' = apps
      BY <1>1, <1>2, <1>3, <3>2
    <3> QED BY <3>1, <3>2
  <2>2. ASSUME NEW b \in Objects \ {a}
        PROVE  refs'[b] = (IF apps' = <<b>> THEN 1 ELSE 0) + (IF editing'.app = b THEN 1 ELSE 0)
    <3>1. apps' # <<b>> /\ editing'.app # b
      BY <1>4, <2>2, ObjectsAssumption
    <3> QED BY <1>4, <3>1
  <2> QED BY <2>1, <2>2 DEF Counted
<1>6. Single'
  <2>1. apps' = <<>> \/ \E b \in Objects : apps' = <<b>>
    BY DEF Single
  <2>2. \A b, c \in Objects : refs'[b] >= 1 /\ refs'[c] >= 1 => b = c
    BY <1>4
  <2> QED BY <1>5, <2>1, <2>2 DEF Single
<1> QED BY <1>2, <1>3, <1>4, <1>6

\* What is given back is saved, or lives on, with what was decided.
LEMMA PlacedLess ==
  ASSUME Inv, Single, NEW a \in Objects, unref(a),
         \/ apps = <<a>> /\ apps' = <<>> /\ editing' = editing
         \/ editing.app = a /\ editing'.app = 0 /\ apps' = apps,
         NEW o \in Apps, NEW f \in [Dirs -> Contents], wanted' \in Decisions,
         Orderly(o), Faithful(o, f, wanted'), NEW s \in Released(a, o, f),
         obj' = [obj EXCEPT ![a] = s.obj], file' = s.file,
         "failed" \notin s.mishaps, "outdated" \notin s.mishaps
  PROVE  Single' /\ Placed'
<1>1. /\ Single' /\ \A b \in Objects \ {a} : refs'[b] = 0
      /\ refs[a] > 1 => refs'[a] >= 1
      /\ ~(refs[a] > 1) => refs'[a] = 0
  BY SingleLess
<1>2. IF refs[a] > 1 THEN s.obj = o /\ s.file = f ELSE Found(s.file, wanted')
  BY ReleasedFaithful
<1>3. obj'[a] = s.obj
  BY DEF Inv, Owned
<1>4. CASE refs[a] > 1
  <2>1. \A b \in Objects : refs'[b] >= 1 => b = a
    BY <1>1
  <2>2. ~(refs'[a] = 0)
    BY <1>1, <1>4
  <2> QED BY <1>1, <1>2, <1>3, <1>4, <2>1, <2>2 DEF Placed
<1>5. CASE ~(refs[a] > 1)
  <2>1. \A b \in Objects : ~(refs'[b] >= 1)
    BY <1>1, <1>5
  <2> QED BY <1>1, <1>2, <1>5, <2>1 DEF Placed
<1> QED BY <1>4, <1>5

\* A list of one object without it is empty.
LEMMA RemoveOnly ==
  ASSUME NEW a \in Objects
  PROVE  RemoveFirst(<<a>>, a) = <<>>
<1> DEFINE s == <<a>>
<1>1. Len(s) = 1 /\ s[1] = a /\ s \in Seq(Objects)
  OBVIOUS
<1>2. \E i \in 1..Len(s) : s[i] = a
  BY <1>1
<1>3. {i \in 1..Len(s) : s[i] = a} = {1}
  BY <1>1
<1>4. Min({1}) = 1
  BY DEF Min
<1>5. RemoveFirst(s, a) = SubSeq(s, 1, 1 - 1) \o SubSeq(s, 1 + 1, Len(s))
  BY <1>2, <1>3, <1>4 DEF RemoveFirst, RemoveAt, SelectInSeq
<1>6. SubSeq(s, 1, 1 - 1) = <<>> /\ SubSeq(s, 1 + 1, Len(s)) = <<>>
  BY <1>1
<1> QED BY <1>5, <1>6

\* A new object has the name alone.
LEMMA PlacedNew ==
  ASSUME Inv, Single, Alive = {}, NEW a \in Objects, manager_add(a),
         NEW o, obj' = [obj EXCEPT ![a] = o], Orderly(o), Faithful(o, file', wanted'),
         UNCHANGED editing
  PROVE  Single' /\ Placed'
<1>1. \A b \in Objects : refs[b] \in Nat /\ refs[b] = 0
  BY References, AliveHasReference
<1>2. apps = <<>> /\ editing.app = 0
  BY <1>1, References
<1>3. /\ apps' = <<a>> /\ editing'.app = 0
      /\ refs'[a] = 1 /\ \A b \in Objects \ {a} : refs'[b] = 0
  <2>1. apps' = <<a>> \o apps /\ refs' = [refs EXCEPT ![a] = 1]
    BY DEF manager_add
  <2>2. refs \in [Objects -> Nat]
    BY DEF Inv, Lists
  <2> QED BY <1>1, <1>2, <2>1, <2>2
<1>4. \A b \in Objects \ {a} : apps' # <<b>>
  BY <1>3
<1>5. \A b \in Objects : editing'.app # b
  BY <1>3, ObjectsAssumption
<1>6. Counted'
  BY <1>3, <1>4, <1>5 DEF Counted
<1>7. \A b \in Objects : refs'[b] >= 1 => b = a
  BY <1>3
<1>8. obj'[a] = o
  BY DEF Inv, Owned
<1> QED BY <1>3, <1>6, <1>7, <1>8 DEF Single, Placed

\* What has gone wrong stays gone wrong, and a program that has stopped does not go on.
LEMMA SoundBefore ==
  ASSUME [Next]_vars
  PROVE  /\ Goes' => Goes
         /\ mishaps \subseteq mishaps'
         /\ Sound' => Sound
<1>1. Goes' => Goes
  <2>1. CASE UNCHANGED vars
    BY <2>1 DEF vars, Goes
  <2>2. CASE Next
    <3>1. \A exec : CloseEdit(exec) => program = "running"
      BY DEF CloseEdit
    <3> QED BY <2>2, <3>1 DEF Next, Goes, SaveTimeout, Toggle, OpenEdit, Delete, EditAccepted,
               EditCancelled, Create, Copy, HandleEvent, UserMeetsFreed, Close, DisposeNext,
               ForeignWrite, ForeignDelete, ForeignChange, UserActs
  <2> QED BY <2>1, <2>2
<1>2. mishaps \subseteq mishaps'
  <2>1. CASE UNCHANGED vars
    BY <2>1 DEF vars
  <2>2. ASSUME NEW exec, CloseEdit(exec) PROVE mishaps \subseteq mishaps'
    BY <2>2 DEF CloseEdit
  <2>3. ASSUME NEW a, NEW o, NEW f, NEW queue, app_removed(a, o, f, queue)
        PROVE  mishaps \subseteq mishaps'
    BY <2>3 DEF app_removed
  <2>4. ASSUME NEW a, Delete(a) PROVE mishaps \subseteq mishaps'
    BY <2>3, <2>4 DEF Delete
  <2>5. ASSUME NEW content, Copy(content) PROVE mishaps \subseteq mishaps'
    BY <2>5 DEF Copy
  <2>6. Freed => mishaps \subseteq mishaps'
    BY DEF Freed
  <2>7. ASSUME NEW dir, FileWritten(dir) PROVE mishaps \subseteq mishaps'
    BY <2>7 DEF FileWritten
  <2>8. ASSUME NEW a, NEW dir, handle_delete(a, dir) PROVE mishaps \subseteq mishaps'
    BY <2>3, <2>8 DEF handle_delete, reload_at
  <2>9. HandleEvent => mishaps \subseteq mishaps'
    BY <2>6, <2>7, <2>8 DEF HandleEvent
  <2>10. DisposeNext => mishaps \subseteq mishaps'
    BY <2>6 DEF DisposeNext
  <2>11. ASSUME NEW a, SaveTimeout(a) PROVE mishaps \subseteq mishaps'
    BY <2>11 DEF SaveTimeout
  <2>12. Create => mishaps \subseteq mishaps'
    BY DEF Create
  <2>13. ForeignWrite \/ ForeignDelete => mishaps \subseteq mishaps'
    BY DEF ForeignWrite, ForeignDelete, ForeignChange
  <2>14. Close => mishaps \subseteq mishaps'
    BY DEF Close
  <2>15. ASSUME NEW a, Toggle(a) \/ OpenEdit(a) PROVE mishaps \subseteq mishaps'
    BY <2>15 DEF Toggle, OpenEdit
  <2> QED BY <2>1, <2>2, <2>4, <2>5, <2>6, <2>9, <2>10, <2>11, <2>12, <2>13, <2>14, <2>15
          DEF Next, EditAccepted, EditCancelled, UserMeetsFreed
<1> QED BY <1>1, <1>2 DEF Sound, Spared

-----------------------------------------------------------------------------
Clear == "failed" \notin mishaps /\ "shared" \notin mishaps /\ "outdated" \notin mishaps
Good == Single /\ Ending /\ Placed

\* The delayed save.
LEMMA SaveTimeoutGood ==
  ASSUME Inv, Good, NEW a \in Objects, SaveTimeout(a), Clear'
  PROVE  Good'
<1> DEFINE o == [obj[a] EXCEPT !.save_timeout = "stale"]
<1>1. PICK s \in gsp_app_save(o, file) :
        Becomes(a, s, events) /\ mishaps' = mishaps \union s.mishaps
  BY DEF SaveTimeout
<1>2. /\ UNCHANGED <<apps, rows, refs, editing, program, bounds, wanted>> /\ refs[a] >= 1
      /\ obj[a].save_timeout = "live"
  BY AliveHasReference DEF SaveTimeout, Pending
<1>3. Orderly(obj[a]) /\ Faithful(obj[a], file, wanted) /\ obj[a] \in Apps
  BY <1>2, AppIsApp DEF Good, Placed
<1>4. /\ o \in Apps /\ o.path = 0 /\ o.save_timeout = "stale"
      /\ o.save_mask = obj[a].save_mask /\ o.old_system_path = obj[a].old_system_path
      /\ o.hidden = obj[a].hidden /\ o.exec = obj[a].exec
  BY <1>2, <1>3 DEF Apps, Orderly
<1> HIDE DEF o
<1>5. Faithful(o, file, wanted)
  <2>1. obj[a].path = 0
    BY <1>2, <1>3 DEF Orderly
  <2>2. Basis(o) = Basis(obj[a])
    BY <1>4, <2>1 DEF Basis
  <2> QED BY <1>3, <1>4, <2>2 DEF Faithful, Field
<1>6. Orderly(s.obj) /\ Faithful(s.obj, s.file, wanted)
  <2>1. "failed" \notin s.mishaps /\ "outdated" \notin s.mishaps
    BY <1>1 DEF Clear
  <2> QED BY <1>1, <1>4, <1>5, <2>1, SaveFaithful DEF Inv, Disk, Rest
<1>7. Single' /\ Placed'
  BY <1>1, <1>2, <1>6, PlacedStays DEF Good, Becomes
<1> QED BY <1>2, <1>7 DEF Good, Ending

\* The check box.
LEMMA ToggleGood == ASSUME Inv, Good, NEW a \in Objects, Toggle(a) PROVE Good'
<1> DEFINE o == queue_save(set_hidden(obj[a], ~obj[a].hidden))
<1>1. /\ obj' = [obj EXCEPT ![a] = o] /\ DecidesHidden(obj'[a]) /\ UserActs /\ a \in rows
      /\ UNCHANGED <<file, events, apps, rows, refs, editing, program, changes, mishaps>>
  BY DEF Toggle
<1>2. refs[a] >= 1 /\ obj[a] \in Apps
  BY <1>1, RowsAlive, AppIsApp DEF UserActs
<1>3. Orderly(obj[a]) /\ Faithful(obj[a], file, wanted)
  BY <1>2 DEF Good, Placed
<1>4. (~obj[a].hidden) \in BOOLEAN
  <2>1. obj[a].hidden \in BOOLEAN
    BY <1>2 DEF Apps
  <2> QED BY <2>1, Zenon
<1>5. LET e == queue_save(set_hidden(obj[a], ~obj[a].hidden)) IN
      Orderly(e) /\ Faithful(e, file, Decided(wanted, {"hidden"}, ~obj[a].hidden, e.exec))
  BY <1>2, <1>3, <1>4, EditFaithful DEF Inv, Rest
<1>6. o.hidden = (~obj[a].hidden)
  <2>1. set_hidden(obj[a], ~obj[a].hidden) \in Apps
    BY <1>2, <1>4, SetHiddenType
  <2> QED BY <1>2, <2>1 DEF queue_save, set_hidden, Apps
<1> HIDE DEF o
<1>7. obj'[a] = o
  BY <1>1 DEF Inv, Owned
<1>8. Orderly(o) /\ Faithful(o, file', wanted')
  <2>1. wanted' = Decided(wanted, {"hidden"}, ~obj[a].hidden, o.exec)
    BY <1>1, <1>6, <1>7 DEF DecidesHidden
  <2> QED BY <1>1, <1>5, <2>1 DEF o
<1>9. Single' /\ Placed'
  BY <1>1, <1>2, <1>8, PlacedStays DEF Good
<1> QED BY <1>1, <1>9 DEF Good, Ending

\* The dialog opens for the object of the list.
LEMMA OpenEditGood == ASSUME Inv, Good, NEW a \in Objects, OpenEdit(a) PROVE Good'
<1>1. /\ editing' = [app |-> a, exec |-> obj[a].exec] /\ UserActs /\ a \in rows
      /\ refs' = [refs EXCEPT ![a] = refs[a] + 1]
      /\ UNCHANGED <<file, events, apps, rows, obj, program, changes, wanted, mishaps>>
  BY DEF OpenEdit
<1>2. refs[a] >= 1 /\ editing.app = 0 /\ a # 0 /\ program = "running"
  BY <1>1, RowsAlive, ObjectsAssumption DEF UserActs, NotEditing
<1>3. apps = <<a>> /\ refs[a] = 1
  <2>1. apps = <<a>>
    BY <1>2, References DEF Good
  <2>2. refs[a] = (IF apps = <<a>> THEN 1 ELSE 0) + (IF editing.app = a THEN 1 ELSE 0)
    BY DEF Good, Single, Counted
  <2> QED BY <1>2, <2>1, <2>2
<1>4. /\ refs'[a] = 2 /\ \A b \in Objects \ {a} : refs'[b] = refs[b]
      /\ editing'.app = a
  BY <1>1, <1>3 DEF Inv, Lists
<1>5. \A b \in Objects \ {a} : ~(refs[b] >= 1) /\ refs[b] = 0 /\ apps # <<b>>
  <2> TAKE b \in Objects \ {a}
  <2>1. ~(refs[b] >= 1)
    BY <1>2 DEF Good, Single
  <2> QED BY <2>1, References DEF Good
<1>6. Counted'
  BY <1>1, <1>3, <1>4, <1>5 DEF Counted
<1>7. \A b \in Objects : refs'[b] >= 1 => b = a
  BY <1>4, <1>5
<1>8. Single'
  BY <1>1, <1>6, <1>7 DEF Good, Single
<1>9. Placed'
  BY <1>1, <1>2, <1>4, <1>7 DEF Good, Placed
<1> QED BY <1>1, <1>2, <1>8, <1>9 DEF Good, Ending

\* The dialog closes.
LEMMA CloseEditGood ==
  ASSUME Inv, Good, NEW exec \in Execs, CloseEdit(exec), Clear'
  PROVE  Good'
<1> DEFINE a == editing.app
           o == gsp_app_update(obj[a], exec)
<1>1. a \in Objects /\ refs[a] >= 1 /\ a \in Alive
  BY AliveHasReference DEF CloseEdit, Alive
<1>2. obj[a] \in Apps /\ Orderly(obj[a]) /\ Faithful(obj[a], file, wanted)
  BY <1>1, AppIsApp DEF Good, Placed
<1>3. o \in Apps
  BY <1>2, UpdateType
<1>4. PICK s \in Released(a, o, file) :
        Becomes(a, s, events) /\ mishaps' = mishaps \union s.mishaps
  BY DEF CloseEdit
<1>5. /\ editing' = [app |-> 0, exec |-> ""] /\ unref(a) /\ program = "running"
      /\ wanted' = IF exec = obj[a].exec THEN wanted
                   ELSE Decided(wanted, {"exec"}, obj[a].hidden, exec)
      /\ UNCHANGED <<apps, rows, program, bounds>>
  BY DEF CloseEdit
<1>6. wanted' \in Decisions
  BY CloseEditInv DEF Inv, Rest
<1>7. Orderly(o) /\ Faithful(o, file, wanted')
  <2>1. CASE exec = obj[a].exec
    <3>1. o = obj[a] /\ wanted' = wanted
      BY <1>5, <2>1 DEF gsp_app_update
    <3> QED BY <1>2, <3>1
  <2>2. CASE exec # obj[a].exec
    <3>1. LET e == gsp_app_update(obj[a], exec) IN
          Orderly(e) /\ Faithful(e, file, Decided(wanted, {"exec"}, e.hidden, exec))
      BY <1>2, <2>2, EditFaithful DEF Inv, Rest
    <3>2. o.hidden = obj[a].hidden
      BY <1>2, <2>2 DEF gsp_app_update, queue_save, Apps
    <3> QED BY <1>5, <2>2, <3>1, <3>2
  <2> QED BY <2>1, <2>2
<1>8. "failed" \notin s.mishaps /\ "outdated" \notin s.mishaps
  BY <1>4 DEF Clear
<1> HIDE DEF o
<1>9. Single' /\ Placed'
  <2>1. editing'.app = 0 /\ apps' = apps
    BY <1>5
  <2>2. obj' = [obj EXCEPT ![a] = s.obj] /\ file' = s.file /\ file \in [Dirs -> Contents]
    BY <1>4 DEF Becomes, Inv, Disk
  <2> QED BY <1>1, <1>3, <1>4, <1>5, <1>6, <1>7, <1>8, <2>1, <2>2, PlacedLess DEF Good
<1> QED BY <1>5, <1>9 DEF Good, Ending

\* Deletion by the user.
LEMMA DeleteGood == ASSUME Inv, Good, NEW a \in Objects, Delete(a) PROVE Good'
<1> DEFINE o == set_hidden(obj[a], TRUE)
<1>1. UserActs /\ a \in rows /\ UNCHANGED <<editing, program, changes>>
  BY DEF Delete
<1>2. refs[a] >= 1 /\ obj[a] \in Apps /\ editing.app = 0 /\ program = "running" /\ a # 0
  BY <1>1, RowsAlive, AppIsApp, ObjectsAssumption DEF UserActs, NotEditing
<1>3. Orderly(obj[a]) /\ Faithful(obj[a], file, wanted)
  BY <1>2 DEF Good, Placed
<1>4. CASE o.xdg_position = 0 /\ o.xdg_system_position = None
  <2>1. /\ apps' = RemoveFirst(apps, a) /\ unref(a) /\ wanted' = Undecided
    BY <1>4 DEF Delete, app_removed
  <2>2. apps = <<a>> /\ apps' = <<>> /\ ~(refs[a] > 1)
    BY <1>2, <2>1, References, RemoveOnly DEF Good
  <2>3. Single' /\ \A b \in Objects : refs'[b] = 0
    <3>1. editing' = editing
      BY <1>1
    <3>2. /\ Single' /\ \A b \in Objects \ {a} : refs'[b] = 0
          /\ ~(refs[a] > 1) => refs'[a] = 0
      BY <2>1, <2>2, <3>1, SingleLess DEF Good
    <3> QED BY <2>2, <3>2
  <2>4. \A b \in Objects : ~(refs'[b] >= 1)
    BY <2>3
  <2>5. Found(file', wanted')
    BY <2>1 DEF Found, Undecided
  <2> QED BY <1>1, <1>2, <2>3, <2>4, <2>5 DEF Good, Ending, Placed
<1>5. CASE ~(o.xdg_position = 0 /\ o.xdg_system_position = None)
  <2>1. /\ obj' = [obj EXCEPT ![a] = queue_save(o)] /\ DecidesHidden(o)
        /\ UNCHANGED <<file, events, apps, rows, refs, mishaps>>
    BY <1>5 DEF Delete
  <2>2. LET e == queue_save(set_hidden(obj[a], TRUE)) IN
        Orderly(e) /\ Faithful(e, file, Decided(wanted, {"hidden"}, TRUE, e.exec))
    BY <1>2, <1>3, EditFaithful DEF Inv, Rest
  <2>3. o \in Apps /\ o.hidden = TRUE
    BY <1>2, SetHiddenType DEF set_hidden, Apps
  <2>4. queue_save(o).exec = o.exec
    BY <2>3 DEF queue_save, Apps
  <2>5. wanted' = Decided(wanted, {"hidden"}, TRUE, queue_save(o).exec)
    BY <2>1, <2>3, <2>4 DEF DecidesHidden
  <2>6. Orderly(queue_save(o)) /\ Faithful(queue_save(o), file', wanted')
    BY <2>1, <2>2, <2>5
  <2> HIDE DEF o
  <2>7. Single' /\ Placed'
    BY <1>1, <1>2, <2>1, <2>6, PlacedStays DEF Good
  <2> QED BY <1>1, <1>2, <2>7 DEF Good, Ending
<1> QED BY <1>4, <1>5

\* A new object of the user's, as long as the name has no other.
LEMMA CreateGood == ASSUME Inv, Good, Create, Clear' PROVE Good'
<1> DEFINE new == AppOf(0, None, Content("app", FALSE, "new"))
           o == queue_save([new EXCEPT !.save_mask = Fields])
           a == NewObject
<1>1. /\ obj' = [obj EXCEPT ![a] = o] /\ manager_add(a) /\ UserActs /\ FreeObjects # {}
      /\ wanted' = Decided(wanted, Fields, FALSE, "new")
      /\ mishaps' = mishaps \union Reason(Alive # {}, "shared")
      /\ UNCHANGED <<file, events, editing, program, changes>>
  BY DEF Create
<1>2. Alive = {}
  BY <1>1 DEF Clear, Reason
<1>3. a \in Objects
  BY <1>1, NewObjectIsFree DEF FreeObjects
<1>4. /\ o.hidden = FALSE /\ o.exec = "new" /\ o.save_mask = Fields /\ o.path = 0
      /\ o.save_timeout = "live"
  BY DEF queue_save, AppOf, Content
<1>5. wanted'.hidden = FALSE /\ wanted'.exec = "new" /\ wanted'.fields \subseteq Fields
  BY <1>1 DEF Decided, Fields, Inv, Rest, Decisions
<1> HIDE DEF o, a
<1>6. Orderly(o) /\ Faithful(o, file', wanted')
  BY <1>4, <1>5 DEF Orderly, Faithful, Field
<1>7. Single' /\ Placed'
  BY <1>1, <1>2, <1>3, <1>6, PlacedNew DEF Good
<1> QED BY <1>1, <1>7 DEF Good, Ending, UserActs

\* A copy, as long as the name has no other.
LEMMA CopyGood == ASSUME Inv, Good, NEW content \in Written, Copy(content), Clear'
                  PROVE Good'
<1> DEFINE known == apps # <<>>
           copied == [file EXCEPT ![0] = content]
           loaded == /\ gsp_app_can_launch(content)
                     /\ known => ~IsOwnWrite(obj[Head(apps)], 0) /\ ~IsIgnored(obj[Head(apps)], 0)
           a == IF known THEN Head(apps) ELSE NewObject
           o == IF known THEN reload(obj[a], copied, 0) ELSE AppOf(0, None, content)
           x == IF o.hidden THEN queue_save(set_hidden(o, FALSE)) ELSE o
<1>1. /\ UserActs /\ (known \/ FreeObjects # {})
      /\ UNCHANGED <<editing, program, changes>>
      /\ mishaps' = mishaps \union Reason(known /\ loaded, "shared")
                      \union (IF known THEN ReloadMishaps(obj[Head(apps)], 0) ELSE {})
      /\ \E n \in WriteNotes(0) :
           IF loaded
           THEN /\ obj' = [obj EXCEPT ![a] = x] /\ manager_add(a)
                /\ file' = copied /\ events' = events \o n
                /\ wanted' = Decided(wanted, Fields, FALSE, content.exec)
           ELSE /\ obj' = IF known THEN [obj EXCEPT ![a] = o] ELSE obj
                /\ events' = events \o n \o <<Event(0, TRUE)>>
                /\ UNCHANGED <<file, apps, rows, refs, wanted>>
  BY DEF Copy
<1>2. editing.app = 0 /\ program = "running"
  BY <1>1 DEF UserActs, NotEditing
<1>3. content \in Contents /\ file \in [Dirs -> Contents]
  BY ContentsType DEF Inv, Disk
<1>4. CASE loaded
  <2>1. ~known
    BY <1>1, <1>4 DEF Clear, Reason
  <2>2. Alive = {}
    <3>1. \A b \in Objects : apps # <<b>> /\ editing.app # b
      BY <1>2, <2>1, ObjectsAssumption
    <3> QED BY <3>1, References DEF Good, Alive
  <2>3. a \in Objects
    BY <1>1, <2>1, NewObjectIsFree DEF FreeObjects
  <2>4. obj' = [obj EXCEPT ![a] = x] /\ manager_add(a) /\ file' = copied
        /\ wanted' = Decided(wanted, Fields, FALSE, content.exec)
    BY <1>1, <1>4
  <2>5. content.hidden \in BOOLEAN /\ content.exec \in Execs /\ Loadable(content)
    BY <1>3, <1>4, ContentsType
  <2>6. /\ copied[0] = content /\ InForce(copied, Dirs) = 0
    <3>1. copied[0] = content
      BY <1>3, DirsType
    <3> HIDE DEF copied
    <3> QED BY <2>5, <3>1, UserFileFirst
  <2>7. wanted'.fields \subseteq Fields /\ wanted'.hidden = FALSE /\ wanted'.exec = content.exec
    BY <2>4 DEF Decided, Fields, Inv, Rest, Decisions
  <2>8. o = AppOf(0, None, content)
    BY <2>1
  <2>9. /\ x.hidden = FALSE /\ x.exec = content.exec /\ x.path = 0
        /\ x.save_timeout = IF content.hidden THEN "live" ELSE "none"
        /\ x.save_mask = IF content.hidden THEN {"hidden"} ELSE {}
    <3> HIDE DEF o
    <3>1. /\ o.hidden = content.hidden /\ o.exec = content.exec /\ o.path = 0
          /\ o.xdg_position = 0 /\ o.save_timeout = "none" /\ o.save_mask = {}
      BY <2>8 DEF AppOf
    <3>2. o \in Apps
      BY <2>5, <2>8, AppOfType, DirsType
    <3>3. CASE content.hidden
      <4>1. x = queue_save(set_hidden(o, FALSE))
        BY <3>1, <3>3
      <4>2. set_hidden(o, FALSE) = [o EXCEPT !.hidden = FALSE, !.save_mask = {"hidden"}]
        BY <3>1 DEF set_hidden
      <4>3. x = [[o EXCEPT !.hidden = FALSE, !.save_mask = {"hidden"}] EXCEPT !.save_timeout = "live"]
        BY <3>1, <3>2, <4>1, <4>2 DEF queue_save, Apps
      <4> HIDE DEF x
      <4> QED BY <3>1, <3>2, <3>3, <4>3 DEF Apps
    <3>4. CASE ~content.hidden
      <4>1. x = o
        BY <3>1, <3>4
      <4>2. content.hidden = FALSE
        BY <2>5, <3>4
      <4> QED BY <3>1, <3>4, <4>1, <4>2
    <3> QED BY <3>3, <3>4
  <2> HIDE DEF x, a, o, copied
  <2>10. Orderly(x)
    BY <2>9 DEF Orderly
  <2>11. Faithful(x, file', wanted')
    <3>1. ASSUME NEW y \in wanted'.fields PROVE Field(x, y) = Field(wanted', y)
      BY <2>7, <2>9, <3>1 DEF Field
    <3>2. ASSUME NEW y \in wanted'.fields, y \notin x.save_mask
          PROVE  Field(content, y) = Field(wanted', y)
      <4>1. CASE y = "hidden"
        BY <2>5, <2>7, <2>9, <3>2, <4>1 DEF Field
      <4>2. CASE y # "hidden"
        BY <2>7, <4>2 DEF Field
      <4> QED BY <4>1, <4>2
    <3> QED BY <2>4, <2>6, <3>1, <3>2, DirsType DEF Faithful, Stands
  <2>12. Single' /\ Placed'
    BY <1>1, <2>2, <2>3, <2>4, <2>10, <2>11, PlacedNew DEF Good
  <2> QED BY <1>1, <1>2, <2>12 DEF Good, Ending
<1>5. CASE ~loaded
  <2>1. /\ obj' = IF known THEN [obj EXCEPT ![a] = o] ELSE obj
        /\ UNCHANGED <<file, apps, rows, refs, wanted>>
    BY <1>1, <1>5
  <2>2. Single' /\ Placed'
    <3>1. CASE known
      <4>1. a \in Objects /\ refs[a] >= 1
        BY <3>1, References DEF Good
      <4>2. obj[a] \in Apps /\ Orderly(obj[a]) /\ Faithful(obj[a], file, wanted)
        BY <4>1, AppIsApp DEF Good, Placed
      <4>3. o = reload(obj[a], copied, 0) /\ obj' = [obj EXCEPT ![a] = o]
        BY <2>1, <3>1
      <4>4. IsOwnWrite(obj[a], 0) \/ IsIgnored(obj[a], 0) \/ ~gsp_app_can_launch(copied[0])
        BY <1>3, <1>5, <3>1, DirsType
      <4> HIDE DEF copied, o, a
      <4>5. /\ o.hidden = obj[a].hidden /\ o.exec = obj[a].exec /\ o.path = obj[a].path
            /\ o.xdg_position = obj[a].xdg_position /\ o.save_timeout = obj[a].save_timeout
            /\ o.save_mask = obj[a].save_mask /\ o.old_system_path = obj[a].old_system_path
        BY <4>2, <4>3, <4>4 DEF reload, Apps
      <4>6. Orderly(o) /\ Faithful(o, file', wanted')
        BY <2>1, <4>2, <4>5 DEF Orderly, Faithful, Field, Basis
      <4> QED BY <1>1, <2>1, <4>1, <4>3, <4>6, PlacedStays DEF Good
    <3>2. CASE ~known
      BY <1>1, <2>1, <3>2, NobodyMoves DEF Good, Placed
    <3> QED BY <3>1, <3>2
  <2> QED BY <1>1, <1>2, <2>2 DEF Good, Ending
<1> QED BY <1>4, <1>5

\* The object of the list is read again, also after it has lost its position.
LEMMA ReloadedGood ==
  ASSUME Inv, Good, apps # <<>>, NEW position, NEW dir \in Dirs,
         position \in {obj[Head(apps)].xdg_position, None},
         obj' = [obj EXCEPT ![Head(apps)] =
                   reload([obj[Head(apps)] EXCEPT !.xdg_position = position], file, dir)],
         UNCHANGED <<file, wanted, apps, refs, editing>>
  PROVE  Single' /\ Placed'
<1> DEFINE a == Head(apps)
           o == [obj[a] EXCEPT !.xdg_position = position]
           r == reload(o, file, dir)
<1>1. a \in Objects /\ refs[a] >= 1 /\ obj[a] \in Apps
  BY References, AppIsApp DEF Good
<1>2. Orderly(obj[a]) /\ Faithful(obj[a], file, wanted)
  BY <1>1 DEF Good, Placed
<1>3. /\ o \in Apps /\ o.hidden = obj[a].hidden /\ o.exec = obj[a].exec
      /\ o.path = obj[a].path /\ o.old_system_path = obj[a].old_system_path
      /\ o.save_timeout = obj[a].save_timeout /\ o.save_mask = obj[a].save_mask
      /\ o.xdg_position = position
  BY <1>1, DirsType DEF Apps
<1> HIDE DEF o
<1>4. Orderly(o)
  <2>1. None # 0
    BY DirsType
  <2> QED BY <1>2, <1>3, <2>1 DEF Orderly
<1>5. Faithful(o, file, wanted)
  BY <1>2, <1>3 DEF Faithful, Field, Basis
<1>6. Orderly(r) /\ Faithful(r, file, wanted)
  BY <1>3, <1>4, <1>5, ReloadFaithful DEF Inv, Disk, Rest
<1>7. obj' = [obj EXCEPT ![a] = r]
  BY DEF o
<1> HIDE DEF r, a
<1> QED BY <1>1, <1>6, <1>7, PlacedStays DEF Good

\* Nothing moves, and no file.
LEMMA NothingMoves ==
  ASSUME Good, UNCHANGED <<obj, apps, refs, editing, file, wanted>>
  PROVE  Single' /\ Placed'
  BY NobodyMoves DEF Good, Placed

LEMMA SameMask ==
  ASSUME NEW o \in Apps, o.save_mask = {}
  PROVE  [o EXCEPT !.save_mask = {}] = o
  BY DEF Apps

\* The report of a file that was written.
LEMMA FileWrittenGood ==
  ASSUME Inv, Good, NEW dir \in Dirs, FileWritten(dir), UNCHANGED <<editing, wanted>>, Clear'
  PROVE  Single' /\ Placed'
<1>1. file' = file
  BY DEF FileWritten
<1>2. CASE apps = <<>> /\ gsp_app_can_launch(file[dir])
  <2> DEFINE a == NewObject
             sys == IF dir > 0 THEN dir ELSE None
             o == AppOf(dir, sys, file[dir])
  <2>1. /\ obj' = [obj EXCEPT ![a] = o] /\ manager_add(a)
        /\ FreeObjects # {} /\ mishaps' = mishaps \union Reason(Alive # {}, "shared")
    BY <1>2 DEF FileWritten
  <2>2. Alive = {} /\ a \in Objects
    BY <2>1, NewObjectIsFree DEF Clear, Reason, FreeObjects
  <2>3. Found(file, wanted)
    <3>1. \A b \in Objects : refs[b] = 0
      BY <2>2, References, AliveHasReference DEF Good
    <3> QED BY <3>1 DEF Good, Placed
  <2>4. o = [AppOf(dir, sys, file[dir]) EXCEPT !.save_mask = {}]
    <3>1. file[dir].hidden \in BOOLEAN /\ file[dir].exec \in Execs
      BY <1>2, ContentsType DEF Inv, Disk
    <3>2. o \in Apps
      BY <3>1, AppOfType
    <3>3. o.save_mask = {}
      BY DEF AppOf
    <3> HIDE DEF o
    <3>4. o = [o EXCEPT !.save_mask = {}]
      BY <3>2, <3>3, SameMask
    <3> QED BY <3>4 DEF o
  <2> HIDE DEF sys, a, o
  <2>5. LET x == [AppOf(dir, sys, file[dir]) EXCEPT !.save_mask = {}] IN
        Orderly(x) /\ Faithful(x, file, wanted)
    BY <2>3, FreshFaithful
  <2>6. Orderly(o) /\ Faithful(o, file', wanted')
    BY <1>1, <2>4, <2>5
  <2> QED BY <2>1, <2>2, <2>6, PlacedNew DEF Good
<1>3. CASE apps = <<>> /\ ~gsp_app_can_launch(file[dir])
  <2>1. UNCHANGED <<obj, apps, refs>>
    BY <1>3 DEF FileWritten
  <2> QED BY <1>1, <2>1, NothingMoves
<1>4. CASE apps # <<>>
  <2>1. /\ obj' = [obj EXCEPT ![Head(apps)] = reload(obj[Head(apps)], file, dir)]
        /\ UNCHANGED <<apps, refs>>
    BY <1>4 DEF FileWritten
  <2>2. obj[Head(apps)] = [obj[Head(apps)] EXCEPT !.xdg_position = obj[Head(apps)].xdg_position]
    BY <1>4, HeadIsApp, SamePosition
  <2> QED BY <1>1, <1>4, <2>1, <2>2, ReloadedGood
<1> QED BY <1>2, <1>3, <1>4

\* The report of a file that was deleted.
LEMMA HandleDeleteGood ==
  ASSUME Inv, Good, apps # <<>>, NEW index \in Dirs, handle_delete(Head(apps), index),
         UNCHANGED <<editing, wanted>>, Clear'
  PROVE  Single' /\ Placed'
<1> DEFINE a == Head(apps)
           position == obj[a].xdg_position
           system_position == obj[a].xdg_system_position
<1>1. /\ a \in Objects /\ refs[a] >= 1 /\ obj[a] \in Apps /\ apps = <<a>>
      /\ Orderly(obj[a]) /\ Faithful(obj[a], file, wanted)
  BY References, AppIsApp DEF Good, Placed
<1>2. CASE ~(system_position < index) /\ ~(index < position)
           /\ position = index /\ system_position \in {index, None}
  <2>1. app_removed(a, obj[a], file, Tail(events))
    BY <1>2 DEF handle_delete
  <2>2. /\ unref(a) /\ apps' = RemoveFirst(apps, a)
    BY <2>1 DEF app_removed
  <2>3. PICK s \in Released(a, obj[a], file) :
          /\ Becomes(a, s, Tail(events))
          /\ mishaps' = mishaps \union s.mishaps
                          \union Reason(\E d \in Dirs : gsp_app_can_launch(file[d]), "removed")
    BY <2>1 DEF app_removed
  <2> HIDE DEF a
  <2>4. apps' = <<>>
    BY <1>1, <2>2, RemoveOnly
  <2>5. "failed" \notin s.mishaps /\ "outdated" \notin s.mishaps
    BY <2>3 DEF Clear
  <2>6. obj' = [obj EXCEPT ![a] = s.obj] /\ file' = s.file
    BY <2>3 DEF Becomes
  <2>7. file \in [Dirs -> Contents] /\ wanted' \in Decisions /\ Faithful(obj[a], file, wanted')
    BY <1>1 DEF Inv, Disk, Rest
  <2>8. editing' = editing
    OBVIOUS
  <2> QED BY <1>1, <2>2, <2>4, <2>5, <2>6, <2>7, <2>8, PlacedLess DEF Good
<1>3. CASE \/ system_position < index \/ index < position
           \/ ~(position = index /\ system_position \in {index, None})
  <2>1. UNCHANGED <<file, apps, refs>>
    BY <1>3 DEF handle_delete
  <2>2. \/ obj' = obj
        \/ obj' = [obj EXCEPT ![a].xdg_system_position = find_dir_with_basename(index)]
        \/ reload_at(a, system_position) /\ system_position \notin {index, None}
    BY <1>3 DEF handle_delete
  <2>3. CASE obj' = obj
    BY <2>1, <2>3, NothingMoves
  <2>4. CASE obj' = [obj EXCEPT ![a].xdg_system_position = find_dir_with_basename(index)]
    <3> DEFINE d == find_dir_with_basename(index)
               o == [obj[a] EXCEPT !.xdg_system_position = d]
    <3>1. obj' = [obj EXCEPT ![a] = o]
      BY <2>4
    <3> HIDE DEF d
    <3>2. /\ o.hidden = obj[a].hidden /\ o.exec = obj[a].exec
          /\ o.path = obj[a].path /\ o.old_system_path = obj[a].old_system_path
          /\ o.save_timeout = obj[a].save_timeout /\ o.save_mask = obj[a].save_mask
          /\ o.xdg_position = obj[a].xdg_position
      BY <1>1 DEF Apps
    <3> HIDE DEF o, a
    <3>3. Orderly(o) /\ Faithful(o, file', wanted')
      BY <1>1, <2>1, <3>2 DEF Orderly, Faithful, Field, Basis
    <3> QED BY <1>1, <2>1, <3>1, <3>3, PlacedStays DEF Good
  <2>5. CASE reload_at(a, system_position) /\ system_position \notin {index, None}
    <3>1. system_position \in Dirs
      BY <1>1, <2>5 DEF Apps
    <3>2. obj' = [obj EXCEPT ![a] =
                    reload([obj[a] EXCEPT !.xdg_position = None], file, system_position)]
      BY <2>5 DEF reload_at
    <3> QED BY <2>1, <3>1, <3>2, ReloadedGood
  <2> QED BY <2>2, <2>3, <2>4, <2>5
<1> QED BY <1>2, <1>3

LEMMA HandleEventGood == ASSUME Inv, Good, HandleEvent, Goes', Clear' PROVE Good'
<1>1. program' = "running" \/ program' = "aborted"
  <2>1. ~HeadIsFreed
    <3>1. HeadIsFreed => Freed
      BY DEF HandleEvent
    <3> QED BY <3>1 DEF Freed, Goes
  <2>2. ASSUME NEW dir, FileWritten(dir) PROVE program' \in {program, "aborted"}
    BY <2>2 DEF FileWritten
  <2>3. ASSUME NEW a, NEW dir, handle_delete(a, dir) PROVE program' \in {program, "aborted"}
    BY <2>3 DEF handle_delete, reload_at
  <2> QED BY <2>1, <2>2, <2>3 DEF HandleEvent
<1>2. program' = "running"
  BY <1>1 DEF Goes
<1>3. ~HeadIsFreed
  BY <1>2 DEF HandleEvent, Freed
<1>4. events # <<>> /\ UNCHANGED <<editing, wanted>>
  BY <1>3 DEF HandleEvent
<1>5. Head(events).dir \in Dirs
  BY <1>4, FirstEvent DEF Events, Inv, Disk
<1>6. CASE ~Head(events).deleted
  <2>1. FileWritten(Head(events).dir)
    BY <1>3, <1>6 DEF HandleEvent
  <2> QED BY <1>2, <1>4, <1>5, <2>1, FileWrittenGood DEF Good, Ending
<1>7. CASE Head(events).deleted /\ apps = <<>>
  <2>1. UNCHANGED <<file, apps, refs, obj>>
    BY <1>3, <1>7 DEF HandleEvent
  <2> QED BY <1>2, <1>4, <2>1, NothingMoves DEF Good, Ending
<1>8. CASE Head(events).deleted /\ apps # <<>>
  <2>1. handle_delete(Head(apps), Head(events).dir)
    BY <1>3, <1>8 DEF HandleEvent
  <2> QED BY <1>2, <1>4, <1>5, <1>8, <2>1, HandleDeleteGood DEF Good, Ending
<1> QED BY <1>6, <1>7, <1>8

\* The window closes: nothing but the program changes.
LEMMA CloseGood == ASSUME Inv, Good, Close PROVE Good'
<1>1. /\ NotEditing /\ program' = "closing"
      /\ UNCHANGED <<file, apps, refs, obj, editing, wanted>>
  BY DEF Close
<1> QED BY <1>1, NothingMoves DEF Good, Ending, NotEditing

\* The objects are finalized, and what is due is saved.
LEMMA DisposeNextGood == ASSUME Inv, Good, DisposeNext, Goes', Clear' PROVE Good'
<1>1. ~HeadIsFreed /\ program = "closing" /\ editing' = editing /\ wanted' = wanted
  BY DEF DisposeNext, Freed, Goes
<1>2. CASE apps = <<>>
  <2>1. program' = "closed" /\ UNCHANGED <<file, apps, refs, obj>>
    BY <1>1, <1>2 DEF DisposeNext
  <2> QED BY <1>1, <1>2, <2>1, NothingMoves DEF Good, Ending
<1>3. CASE apps # <<>>
  <2> DEFINE a == Head(apps)
  <2>1. apps' = Tail(apps) /\ unref(a) /\ program' = program
    BY <1>1, <1>3 DEF DisposeNext
  <2>2. PICK s \in Released(a, obj[a], file) :
          /\ obj' = [obj EXCEPT ![a] = s.obj] /\ file' = s.file
          /\ mishaps' = mishaps \union s.mishaps
    BY <1>1, <1>3 DEF DisposeNext
  <2>3. /\ a \in Objects /\ refs[a] >= 1 /\ obj[a] \in Apps /\ apps = <<a>>
        /\ Orderly(obj[a]) /\ Faithful(obj[a], file, wanted)
    BY <1>3, References, AppIsApp DEF Good, Placed
  <2> HIDE DEF a
  <2>4. apps' = <<>>
    BY <2>1, <2>3
  <2>5. "failed" \notin s.mishaps /\ "outdated" \notin s.mishaps
    BY <2>2 DEF Clear
  <2>6. file \in [Dirs -> Contents] /\ wanted' \in Decisions /\ Faithful(obj[a], file, wanted')
    BY <1>1, <2>3 DEF Inv, Disk, Rest
  <2>7. Single' /\ Placed'
    BY <1>1, <2>1, <2>2, <2>3, <2>4, <2>5, <2>6, PlacedLess DEF Good
  <2> QED BY <1>1, <2>1, <2>7 DEF Good, Ending
<1> QED BY <1>2, <1>3

\* Others change a file: what stands of the decision is what a save that is due will write.
LEMMA ForeignGood ==
  ASSUME Inv, Good, NEW dir, NEW content, NEW notes, ForeignChange(dir, content, notes)
  PROVE  Good'
<1> DEFINE masked == UNION {obj[a].save_mask : a \in Pending}
<1>1. /\ wanted' = Kept(wanted, masked)
      /\ UNCHANGED <<apps, refs, obj, editing, program>>
  BY DEF ForeignChange
<1> HIDE DEF masked
<1>2. /\ wanted'.fields \subseteq wanted.fields /\ wanted'.fields \subseteq masked
      /\ wanted'.fields \subseteq Fields
      /\ \A x \in wanted'.fields : Field(wanted', x) = Field(wanted, x)
  <2>1. wanted.fields \in SUBSET Fields /\ wanted.hidden \in BOOLEAN
    BY DEF Inv, Rest, Decisions
  <2>2. /\ wanted'.fields = wanted.fields \intersect masked
        /\ wanted'.exec = IF "exec" \in masked THEN wanted.exec ELSE ""
    BY <1>1 DEF Kept
  <2>3. "hidden" \in masked => wanted'.hidden = wanted.hidden
    <3>1. wanted'.hidden = ("hidden" \in masked /\ wanted.hidden)
      BY <1>1 DEF Kept
    <3> QED BY <2>1, <3>1
  <2>4. ASSUME NEW x \in wanted'.fields PROVE Field(wanted', x) = Field(wanted, x)
    <3>1. x \in masked /\ x \in {"hidden", "exec"}
      BY <2>1, <2>2, <2>4 DEF Fields
    <3> QED BY <2>2, <2>3, <3>1 DEF Field
  <2> QED BY <2>1, <2>2, <2>4
<1>3. ASSUME NEW a \in Objects, refs[a] >= 1 PROVE masked \subseteq obj[a].save_mask
  <2>1. \A b \in Pending : b = a
    BY <1>3, AliveHasReference DEF Pending, Alive, Good, Single
  <2> QED BY <2>1 DEF masked
<1>4. ASSUME NEW a \in Objects, refs[a] >= 1, Faithful(obj[a], file, wanted)
      PROVE  Faithful(obj[a], file', wanted')
  BY <1>2, <1>3, <1>4 DEF Faithful
<1>5. ASSUME \A a \in Objects : refs[a] = 0 PROVE Found(file', wanted')
  <2>1. Pending = {}
    BY <1>5 DEF Pending, Alive
  <2>2. masked = {}
    BY <2>1 DEF masked
  <2> QED BY <1>2, <2>2 DEF Found
<1>6. Single' /\ Placed'
  BY <1>1, <1>4, <1>5, NobodyMoves DEF Good
<1> QED BY <1>1, <1>6 DEF Good, Ending

\* The window opens with at most one object, and nothing is decided.
LEMMA InitGood == ASSUME Init, Inv PROVE Good
<1>1. editing.app = 0 /\ program = "running" /\ wanted.fields = {} /\ 0 \notin Objects
  BY ObjectsAssumption DEF Init, Undecided
<1>2. Found(file, wanted)
  BY <1>1 DEF Found
<1>3. CASE \E d \in Dirs : gsp_app_can_launch(file[d])
  <2>1. PICK a \in Objects :
          /\ apps = <<a>> /\ refs = [o \in Objects |-> IF o = a THEN 1 ELSE 0]
          /\ obj = [o \in Objects |-> IF o = a THEN gsp_app_manager_fill(file) ELSE Unused]
    BY <1>3 DEF Init
  <2>2. refs[a] = 1 /\ \A b \in Objects \ {a} : refs[b] = 0 /\ apps # <<b>>
    BY <2>1
  <2>3. \A b \in Objects : editing.app # b
    BY <1>1
  <2>4. Single
    <3>1. \A b \in Objects : refs[b] >= 1 => b = a
      BY <2>2
    <3>2. Counted
      BY <2>1, <2>2, <2>3 DEF Counted
    <3> QED BY <2>1, <3>1, <3>2 DEF Single
  <2>5. Orderly(obj[a])
    <3>1. obj[a] = gsp_app_manager_fill(file)
      BY <2>1
    <3>2. /\ obj[a].save_timeout = "none" /\ obj[a].save_mask = {}
          /\ obj[a].path = obj[a].xdg_position
      BY <3>1 DEF gsp_app_manager_fill, AppOf
    <3> QED BY <3>2 DEF Orderly
  <2>6. \A b \in Objects : refs[b] >= 1 => b = a
    BY <2>2
  <2>7. Placed
    BY <1>1, <1>2, <2>5, <2>6 DEF Placed, Faithful
  <2> QED BY <1>1, <2>4, <2>7 DEF Good, Ending
<1>4. CASE ~\E d \in Dirs : gsp_app_can_launch(file[d])
  <2>1. apps = <<>> /\ \A b \in Objects : refs[b] = 0
    BY <1>4 DEF Init
  <2>2. Single /\ Placed
    BY <1>1, <1>2, <2>1 DEF Single, Counted, Placed
  <2> QED BY <1>1, <2>2 DEF Good, Ending
<1> QED BY <1>3, <1>4

\* Every step keeps the decision.
LEMMA DecisionStep == ASSUME Inv, Decision, [Next]_vars PROVE Decision'
<1> SUFFICES ASSUME Sound' PROVE Good'
  BY DEF Decision, Good
<1>1. Good
  BY SoundBefore DEF Decision, Good
<1>2. Goes' /\ Clear'
  <2>1. Goes' /\ mishaps' \intersect {"failed", "shared", "outdated"} = {}
    BY DEF Sound, Spared
  <2> QED BY <2>1 DEF Clear
<1>3. CASE EditAccepted
  <2>1. PICK exec \in {editing.exec, "new"} : CloseEdit(exec)
    BY <1>3 DEF EditAccepted
  <2>2. editing.app # 0
    BY <2>1, ObjectsAssumption DEF CloseEdit, Alive
  <2>3. exec \in Execs
    BY <2>1, <2>2 DEF Inv, Dialog, Execs
  <2> QED BY <1>1, <1>2, <2>1, <2>3, CloseEditGood
<1>4. CASE EditCancelled
  <2>1. CloseEdit(obj[editing.app].exec) /\ editing.app \in Objects
    BY <1>4 DEF EditCancelled, Inv, Dialog
  <2>2. obj[editing.app].exec \in Execs
    BY <2>1, AppIsApp DEF Apps
  <2> QED BY <1>1, <1>2, <2>1, <2>2, CloseEditGood
<1>5. CASE ForeignWrite \/ ForeignDelete
  BY <1>1, <1>5, ForeignGood DEF ForeignWrite, ForeignDelete
<1>6. CASE UserMeetsFreed
  BY <1>2, <1>6 DEF UserMeetsFreed, Freed, Goes
<1>7. CASE UNCHANGED vars
  <2>1. UNCHANGED <<obj, apps, refs, editing, file, wanted, program>>
    BY <1>7 DEF vars
  <2> QED BY <1>1, <2>1, NothingMoves DEF Good, Ending
<1> QED
  BY <1>1, <1>2, <1>3, <1>4, <1>5, <1>6, <1>7, SaveTimeoutGood, ToggleGood, OpenEditGood,
     DeleteGood, CreateGood, CopyGood, HandleEventGood, CloseGood, DisposeNextGood DEF Next

\* What the user has decided is what the session finds, whatever saves, reports and
\* writes of others the decision crosses, also where a window is closed before the
\* delayed save (_gsp_app_save, gsp_app_new, gsp_app_dispose).  The theorem does not speak
\* of what DecisionIsOnDisk excepts: a write that failed, an entry that two objects or
\* two places of the list share, and a save that went by another file than the session's.
THEOREM DecisionCorrect == Spec => []DecisionIsOnDisk
<1>1. Init => Inv /\ Decision
  BY InitInv, InitGood DEF Decision, Good
<1>2. Inv /\ Decision /\ [Next]_vars => Decision'
  BY DecisionStep
<1>3. ASSUME Inv, Decision PROVE DecisionIsOnDisk
  <2> SUFFICES ASSUME AtRest \/ program = "closed", Spared({"failed", "shared", "outdated"}),
                      wanted.fields # {}
               PROVE  InForce(file, Dirs) # None /\ Says(file[InForce(file, Dirs)], wanted)
    BY DEF DecisionIsOnDisk
  <2>1. Single /\ Ending /\ Placed
    BY <1>3 DEF Decision, Sound, Goes, AtRest
  <2>2. Found(file, wanted)
    <3>1. CASE \A a \in Objects : refs[a] = 0
      BY <2>1, <3>1 DEF Placed
    <3>2. CASE \E a \in Objects : ~(refs[a] = 0)
      <4>1. PICK a \in Objects : ~(refs[a] = 0)
        BY <3>2
      <4>2. refs[a] >= 1
        BY <1>3, <2>1, <4>1, References
      <4>3. AtRest
        <5>1. program = "closed" => apps = <<>> /\ editing.app = 0
          BY <2>1 DEF Ending
        <5>2. apps = <<a>> \/ editing.app = a
          BY <1>3, <2>1, <4>2, References
        <5>3. <<a>> # <<>> /\ a # 0
          BY ObjectsAssumption
        <5> QED BY <5>1, <5>2, <5>3
      <4>4. obj[a].save_timeout # "live"
        BY <1>3, <4>2, <4>3, AliveHasReference DEF AtRest, Quiet, Pending
      <4> QED BY <2>1, <4>2, <4>4 DEF Placed, Orderly, Faithful, Found
    <3> QED BY <3>1, <3>2
  <2>3. InForce(file, Dirs) # None
    BY <2>2 DEF Found, Stands
  <2>4. Says(file[InForce(file, Dirs)], wanted)
    BY <2>2 DEF Found, Stands, Says, Field
  <2> QED BY <2>3, <2>4
<1> QED BY <1>1, <1>2, <1>3, Invariance, InitInv, Step, PTL DEF Spec
=============================================================================
