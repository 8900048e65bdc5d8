--------------------------- MODULE LauncherProofs ---------------------------
(***************************************************************************)
(* The launcher, for any length of the trace and any bounds: it loses no   *)
(* child without an error shown, its status is true, no line of its child  *)
(* is lost on the way to the trace, and it finds the settings it saved.    *)
(***************************************************************************)
EXTENDS Launcher, TLAPS

LEMMA Bounds == MaxOutput \in Nat \ {0}
  BY LauncherAssumption

-----------------------------------------------------------------------------
(* What the launcher computes of its settings.                              *)

LEMMA DefaultTyped == DefaultSettings \in Settings
<1>1. FALSE \in BOOLEAN
  OBVIOUS
<1> QED BY <1>1, Zenon DEF DefaultSettings, Settings, Paths, Texts

\* App::new: an idle application with a port.
LEMMA NewAppTyped ==
  ASSUME NEW saved \in Settings
  PROVE  /\ NewApp(saved) \in Apps
         /\ NewApp(saved).status = "Idle"
         /\ NewApp(saved).settings.port # "" /\ NewApp(saved).settings.addresses # ""
<1> DEFINE one == [saved EXCEPT !.addresses = IF @ = "" THEN "ok" ELSE @]
           two == [one EXCEPT !.port = IF @ = "" THEN "ok" ELSE @]
<1>1. one \in Settings /\ one.addresses # ""
  BY DEF Settings, Texts
<1>2. two = [saved EXCEPT !.addresses = IF @ = "" THEN "ok" ELSE @,
                          !.port = IF @ = "" THEN "ok" ELSE @]
  OBVIOUS
<1> HIDE DEF one
<1>3. two \in Settings /\ two.port # "" /\ two.addresses # ""
  BY <1>1 DEF Settings, Texts
<1> HIDE DEF two
<1> DEFINE no == FALSE
<1>4. NewApp(saved) = [settings |-> two, status |-> "Idle", last_error |-> no]
  BY <1>2, Zenon DEF NewApp
<1>5. no \in BOOLEAN
  OBVIOUS
<1> HIDE DEF no
<1>6. NewApp(saved) \in Apps
  <2>1. "Idle" \in Statuses
    BY DEF Statuses
  <2>2. [settings |-> two, status |-> "Idle", last_error |-> no] \in Apps
    BY <1>3, <1>5, <2>1 DEF Apps
  <2> QED BY <1>4, <2>2, Zenon
<1>7. NewApp(saved).settings = two /\ NewApp(saved).status = "Idle"
  BY <1>4
<1> QED BY <1>3, <1>6, <1>7

\* A status, an error or both are set.
LEMMA StatusSet ==
  ASSUME NEW a \in Apps, NEW status \in Statuses
  PROVE  /\ [a EXCEPT !.status = status] \in Apps
         /\ [a EXCEPT !.status = status].status = status
         /\ [a EXCEPT !.status = status].last_error = a.last_error
  BY DEF Apps

LEMMA ErrorSet ==
  ASSUME NEW a \in Apps, NEW error \in BOOLEAN
  PROVE  /\ [a EXCEPT !.last_error = error] \in Apps
         /\ [a EXCEPT !.last_error = error].status = a.status
         /\ [a EXCEPT !.last_error = error].last_error = error
  BY DEF Apps

LEMMA PanelTyped ==
  ASSUME NEW a \in Apps
  PROVE  /\ FirmwarePanel(a) \in Apps
         /\ FirmwarePanel(a).status = a.status /\ FirmwarePanel(a).last_error = a.last_error
<1> DEFINE s == [a.settings EXCEPT !.selected_variant = None]
<1>1. s \in Settings
  BY DEF Apps, Settings
<1>2. FirmwarePanel(a) = a \/ FirmwarePanel(a) = [a EXCEPT !.settings = s]
  BY DEF FirmwarePanel
<1> HIDE DEF s
<1> QED BY <1>1, <1>2 DEF Apps

LEMMA SelectTyped ==
  ASSUME NEW a \in Apps, NEW variant \in Variants
  PROVE  /\ SelectVariant(a, variant) \in Apps
         /\ SelectVariant(a, variant).status = a.status
         /\ SelectVariant(a, variant).last_error = a.last_error
<1> DEFINE one == [a.settings EXCEPT !.manual = FALSE]
           two == [one EXCEPT !.selected_variant = variant]
           three == [two EXCEPT !.svd = IF Supported(variant) /\ @ = None THEN "chip.svd" ELSE @]
<1>0. FALSE \in BOOLEAN
  OBVIOUS
<1>1. one \in Settings
  BY <1>0 DEF Apps, Settings
<1>2. SelectVariant(a, variant) = [a EXCEPT !.settings = three]
  BY DEF SelectVariant
<1> HIDE DEF one
<1>3. two \in Settings
  BY <1>1 DEF Settings
<1> HIDE DEF two
<1>4. three \in Settings
  BY <1>3 DEF Settings, Paths, Files
<1> HIDE DEF three
<1> QED BY <1>2, <1>4 DEF Apps

\* An edit leaves the status alone.
LEMMA EditsTyped ==
  ASSUME NEW a \in Apps, NEW edited \in Edits(a)
  PROVE  edited \in Apps /\ edited.status = a.status /\ edited.last_error = a.last_error
<1> DEFINE s == a.settings
           changed == {[s EXCEPT !.firmware = "firmware.bin"],
                       [s EXCEPT !.emulator_executable = "emulator"], [s EXCEPT !.manual = ~@]}
           manual == {[s EXCEPT !.manual_svd = "chip.svd"]}
                     \cup {[s EXCEPT !.addresses = t] : t \in Texts}
           board == {[s EXCEPT !.svd = "chip.svd"]}
                    \cup {[s EXCEPT !.port = t] : t \in Texts}
           panel == changed \cup (IF s.manual THEN manual ELSE board)
<1>0. s \in Settings /\ a.status \in Statuses /\ a.last_error \in BOOLEAN
  BY DEF Apps
<1>1. changed \subseteq Settings
  <2> DEFINE m == ~s.manual
  <2>1. m \in BOOLEAN
    OBVIOUS
  <2>2. [s EXCEPT !.manual = m] \in Settings
    <3> HIDE DEF m, s
    <3> QED BY <1>0, <2>1 DEF Settings
  <2>3. [s EXCEPT !.firmware = "firmware.bin"] \in Settings
    BY <1>0 DEF Settings, Paths, Files
  <2>4. [s EXCEPT !.emulator_executable = "emulator"] \in Settings
    BY <1>0 DEF Settings, Paths, Files
  <2> QED BY <2>2, <2>3, <2>4
<1>2. manual \subseteq Settings
  <2>1. [s EXCEPT !.manual_svd = "chip.svd"] \in Settings
    BY <1>0 DEF Settings, Paths, Files
  <2>2. \A t \in Texts : [s EXCEPT !.addresses = t] \in Settings
    BY <1>0 DEF Settings
  <2> QED BY <2>1, <2>2, Zenon
<1>3. board \subseteq Settings
  <2>1. [s EXCEPT !.svd = "chip.svd"] \in Settings
    BY <1>0 DEF Settings, Paths, Files
  <2>2. \A t \in Texts : [s EXCEPT !.port = t] \in Settings
    BY <1>0 DEF Settings
  <2> QED BY <2>1, <2>2, Zenon
<1>4. edited \in [settings : panel, status : {a.status}, last_error : {a.last_error}]
      \/ \E v \in Variants : edited = SelectVariant(a, v)
  BY DEF Edits
<1>5. panel \subseteq Settings
  BY <1>1, <1>2, <1>3
<1> HIDE DEF panel, s
<1>6. ASSUME edited \in [settings : panel, status : {a.status}, last_error : {a.last_error}]
      PROVE  edited \in Apps /\ edited.status = a.status /\ edited.last_error = a.last_error
  BY <1>0, <1>5, <1>6 DEF Apps
<1> QED BY <1>4, <1>6, SelectTyped

-----------------------------------------------------------------------------
(* Types.                                                                   *)

LEMMA KeptTyped ==
  ASSUME NEW lines \in Seq(Lines)
  PROVE  KeptLines(lines) \in Seq(Lines) /\ Len(KeptLines(lines)) <= MaxOutput
<1> DEFINE keep == IF Len(lines) < MaxOutput THEN Len(lines) ELSE MaxOutput
           first == Len(lines) - keep + 1
<1>0. Len(lines) \in Nat
  OBVIOUS
<1>1. /\ Len(lines) \in Nat /\ keep \in Nat /\ keep <= Len(lines) /\ keep <= MaxOutput
      /\ first \in 1..(Len(lines) + 1) /\ Len(lines) - first + 1 = keep
  <2>1. CASE Len(lines) < MaxOutput
    BY <1>0, <2>1, Bounds
  <2>2. CASE ~(Len(lines) < MaxOutput)
    BY <1>0, <2>2, Bounds
  <2> QED BY <2>1, <2>2
<1>2. KeptLines(lines) = SubSeq(lines, first, Len(lines))
  BY DEF KeptLines
<1> HIDE DEF keep, first
<1>3. SubSeq(lines, first, Len(lines)) \in Seq(Lines)
  BY <1>1
<1>4. Len(SubSeq(lines, first, Len(lines))) = keep
  BY <1>1
<1> QED BY <1>1, <1>2, <1>3, <1>4

LEMMA PolledTyped == ASSUME ProcessTyped, Polled
  PROVE  channel' \in Seq(Lines) /\ output' \in Seq(Lines) /\ Len(output') <= MaxOutput
<1>1. output \o channel \in Seq(Lines)
  BY DEF ProcessTyped
<1>2. channel' = <<>> /\ output' = KeptLines(output \o channel)
  BY DEF Polled
<1>3. <<>> \in Seq(Lines)
  OBVIOUS
<1> QED BY <1>1, <1>2, <1>3, KeptTyped

LEMMA EmptyTyped ==
  /\ [s \in Streams |-> <<>>] \in [Streams -> Seq(Lines)]
  /\ <<>> \in Seq(Lines) /\ Len(<<>>) <= MaxOutput
  /\ NoChild.id = 0 /\ NoChild.is = None
  /\ NoChild \in [id : Nat, is : {None, "running", "exited", "failed"}, printed : [Streams -> Nat]]
  BY Bounds DEF NoChild

LEMMA StoppedTyped == ASSUME Stopped PROVE ProcessTyped'
  BY EmptyTyped DEF Stopped, ProcessTyped

LEMMA SpawnedTyped == ASSUME spawned \in Nat, Spawned PROVE ProcessTyped' /\ spawned' \in Nat
<1>1. child' = [id |-> spawned + 1, is |-> "running", printed |-> [s \in Streams |-> 0]]
  BY DEF Spawned, NoChild
<1>2. child' \in [id : Nat, is : {None, "running", "exited", "failed"}, printed : [Streams -> Nat]]
  BY <1>1
<1> QED BY <1>2, EmptyTyped DEF Spawned, ProcessTyped

LEMMA PrintTyped == ASSUME ProcessTyped, NEW s \in Streams, PrintLine(s) PROVE ProcessTyped'
<1> DEFINE line == [stream |-> s, n |-> child.printed[s] + 1]
<1>1. line \in Lines
  BY DEF ProcessTyped, Lines
<1>2. pipe' = [pipe EXCEPT ![s] = Append(@, line)]
  BY DEF PrintLine
<1> HIDE DEF line
<1>3. pipe' \in [Streams -> Seq(Lines)]
  BY <1>1, <1>2 DEF ProcessTyped
<1>4. child' \in [id : Nat, is : {None, "running", "exited", "failed"}, printed : [Streams -> Nat]]
  <2> DEFINE printed == [child.printed EXCEPT ![s] = @ + 1]
  <2>1. printed \in [Streams -> Nat]
    BY DEF ProcessTyped
  <2>2. child' = [child EXCEPT !.printed = printed]
    BY DEF PrintLine
  <2> HIDE DEF printed
  <2> QED BY <2>1, <2>2 DEF ProcessTyped
<1> QED BY <1>3, <1>4 DEF PrintLine, ProcessTyped

LEMMA ReadTyped == ASSUME ProcessTyped, NEW s \in Streams, Read(s) PROVE ProcessTyped'
<1>0. pipe[s] \in Seq(Lines)
  BY DEF ProcessTyped
<1>1. CASE /\ pipe[s] # <<>>
           /\ channel' = Append(channel, Head(pipe[s])) /\ pipe' = [pipe EXCEPT ![s] = Tail(@)]
           /\ UNCHANGED readers
  <2>1. Head(pipe[s]) \in Lines /\ Tail(pipe[s]) \in Seq(Lines)
    BY <1>0, <1>1
  <2>2. channel' \in Seq(Lines) /\ pipe' \in [Streams -> Seq(Lines)]
    BY <1>1, <2>1 DEF ProcessTyped
  <2> QED BY <1>1, <2>2 DEF Read, ProcessTyped
<1>2. CASE readers' = readers \ {s} /\ UNCHANGED <<channel, pipe>>
  BY <1>2 DEF Read, ProcessTyped
<1> QED BY <1>1, <1>2 DEF Read

LEMMA ExitTyped == ASSUME ProcessTyped, NEW success \in BOOLEAN, Exit(success) PROVE ProcessTyped'
<1>1. \E end \in {"exited", "failed"} : child' = [child EXCEPT !.is = end]
  BY DEF Exit
<1>2. child' \in [id : Nat, is : {None, "running", "exited", "failed"}, printed : [Streams -> Nat]]
  BY <1>1 DEF ProcessTyped
<1> QED BY <1>2 DEF Exit, ProcessTyped

-----------------------------------------------------------------------------
(* The invariants.                                                          *)

\* The launcher holds a child exactly when there is one to ask for its status.
Held == child.id = 0 <=> child.is = None

\* What a status says of the child; after Halted it can no longer fail, and a child that runs
\* and is held is not said to be halted or idle.
StatusInv ==
  /\ app.status = "Running" /\ up = "up" => child.id # 0
  /\ app.status = "Crashed" => app.last_error
  /\ app.status = "Halted" => child.is \in {None, "exited"}
  /\ child.is = "running" => app.status \in {"Running", "Crashed"}
  /\ up = "down" => child.is = None

\* What is in the workspace, unless it is torn, is what was saved last, which is what the
\* launcher was closed with unless that save failed; a save still under way is of what the
\* launcher was closed with.
StoreInv ==
  /\ workspace.is = "whole" => workspace.state = kept
  /\ workspace.is = "absent" => kept = DefaultSettings
  /\ ~lost => workspace.is # "torn" /\ kept = closed
  /\ up = "saving" => lost /\ closed = app.settings

LauncherInv == TypeOK /\ Held /\ StatusInv /\ StoreInv

LEMMA RefreshedTyped ==
  ASSUME TypeOK, Held, StatusInv, NEW fault \in BOOLEAN
  PROVE  LET a == Refreshed(app, fault)
         IN  /\ a \in Apps
             /\ a.status = "Running" => app.status = "Running"
             /\ a.status = "Crashed" => a.last_error
             /\ a.status = "Halted" => child.is \in {None, "exited"}
             /\ child.is = "running" => a.status \in {"Running", "Crashed"}
<1>0. /\ app \in Apps /\ child.is \in {None, "running", "exited", "failed"}
      /\ {"Crashed", "Halted"} \subseteq Statuses /\ TRUE \in BOOLEAN
  BY DEF TypeOK, ProcessTyped, Statuses
<1>1. CASE Refreshed(app, fault) = app
  BY <1>0, <1>1 DEF StatusInv
<1>2. CASE Refreshed(app, fault) = [app EXCEPT !.status = "Crashed", !.last_error = TRUE]
  <2> DEFINE yes == TRUE
  <2>1. yes \in BOOLEAN /\ yes
    OBVIOUS
  <2>2. Refreshed(app, fault) = [app EXCEPT !.status = "Crashed", !.last_error = yes]
    BY <1>2
  <2> HIDE DEF yes
  <2>3. /\ Refreshed(app, fault) \in Apps /\ Refreshed(app, fault).status = "Crashed"
        /\ Refreshed(app, fault).last_error = yes
    BY <1>0, <2>1, <2>2 DEF Apps
  <2> QED BY <2>1, <2>3
<1>3. CASE Refreshed(app, fault) = [app EXCEPT !.status = "Halted"] /\ child.is = "exited"
  <2>1. Refreshed(app, fault) \in Apps /\ Refreshed(app, fault).status = "Halted"
    BY <1>0, <1>3, StatusSet
  <2> QED BY <1>3, <2>1
<1>4. child.id = 0 \/ child.is \in {"running", "exited", "failed"}
  BY <1>0 DEF Held
<1> QED BY <1>1, <1>2, <1>3, <1>4 DEF Refreshed

\* Frames: what a frame leaves in app, without a click on Run or Stop.
LEMMA FrameApp ==
  ASSUME TypeOK, Held, StatusInv, Frame
  PROVE  /\ app' \in Apps
         /\ app'.status = "Running" => app.status = "Running"
         /\ app'.status = "Crashed" => app'.last_error
         /\ app'.status = "Halted" => child.is \in {None, "exited"}
         /\ child.is = "running" => app'.status \in {"Running", "Crashed"}
         /\ edits' \in Nat
<1>1. PICK fault \in Failing :
        \/ app' = FirmwarePanel(Refreshed(app, fault)) /\ UNCHANGED edits
        \/ /\ edits < MaxEdits /\ edits' = edits + 1
           /\ \E edited \in Edits(Refreshed(app, fault)) : app' = FirmwarePanel(edited)
  BY DEF Frame
<1>2. fault \in BOOLEAN
  BY DEF Failing
<1> DEFINE a == Refreshed(app, fault)
<1>3. /\ a \in Apps
      /\ a.status = "Running" => app.status = "Running"
      /\ a.status = "Crashed" => a.last_error
      /\ a.status = "Halted" => child.is \in {None, "exited"}
      /\ child.is = "running" => a.status \in {"Running", "Crashed"}
  BY <1>2, RefreshedTyped
<1>4. \/ app' = FirmwarePanel(a)
      \/ \E edited \in Edits(a) : app' = FirmwarePanel(edited)
  BY <1>1
<1> HIDE DEF a
<1>5. app' \in Apps /\ app'.status = a.status /\ app'.last_error = a.last_error
  <2>1. CASE app' = FirmwarePanel(a)
    BY <1>3, <2>1, PanelTyped, Zenon
  <2>2. ASSUME NEW edited \in Edits(a), app' = FirmwarePanel(edited)
        PROVE  app' \in Apps /\ app'.status = a.status /\ app'.last_error = a.last_error
    <3>1. edited \in Apps /\ edited.status = a.status /\ edited.last_error = a.last_error
      BY <1>3, <2>2, EditsTyped, Zenon
    <3> QED BY <2>2, <3>1, PanelTyped, Zenon
  <2> QED BY <1>4, <2>1, <2>2
<1>6. edits' \in Nat
  BY <1>1 DEF TypeOK, StoreTyped
<1> QED BY <1>3, <1>5, <1>6, Zenon

\* The frame's work before a click on Run or Stop.
LEMMA ClickedApp ==
  ASSUME TypeOK, Held, StatusInv, NEW fault \in BOOLEAN
  PROVE  LET a == FirmwarePanel(Refreshed(app, fault))
         IN  /\ a \in Apps
             /\ a.status = "Running" => app.status = "Running"
             /\ a.status = "Crashed" => a.last_error
             /\ a.status = "Halted" => child.is \in {None, "exited"}
             /\ child.is = "running" => a.status \in {"Running", "Crashed"}
<1> DEFINE a == Refreshed(app, fault)
<1>1. /\ a \in Apps
      /\ a.status = "Running" => app.status = "Running"
      /\ a.status = "Crashed" => a.last_error
      /\ a.status = "Halted" => child.is \in {None, "exited"}
      /\ child.is = "running" => a.status \in {"Running", "Crashed"}
  BY RefreshedTyped
<1> SUFFICES /\ FirmwarePanel(a) \in Apps
             /\ FirmwarePanel(a).status = "Running" => app.status = "Running"
             /\ FirmwarePanel(a).status = "Crashed" => FirmwarePanel(a).last_error
             /\ FirmwarePanel(a).status = "Halted" => child.is \in {None, "exited"}
             /\ child.is = "running" => FirmwarePanel(a).status \in {"Running", "Crashed"}
  BY Zenon
<1> HIDE DEF a
<1> QED BY <1>1, PanelTyped, Zenon

-----------------------------------------------------------------------------
(* The steps.                                                               *)

LEMMA FrameStep == ASSUME LauncherInv, Frame PROVE LauncherInv'
<1> USE DEF LauncherInv
<1>1. /\ app' \in Apps
      /\ app'.status = "Running" => app.status = "Running"
      /\ app'.status = "Crashed" => app'.last_error
      /\ app'.status = "Halted" => child.is \in {None, "exited"}
      /\ child.is = "running" => app'.status \in {"Running", "Crashed"}
      /\ edits' \in Nat
  BY FrameApp
<1>2. /\ channel' \in Seq(Lines) /\ output' \in Seq(Lines) /\ Len(output') <= MaxOutput
  BY PolledTyped DEF Frame, TypeOK, ProcessTyped
<1>3. /\ up = "up"
      /\ UNCHANGED <<child, pipe, readers, files, storeVars, up, orphans, spawned, launches>>
  BY DEF Frame
<1>4. TypeOK'
  BY <1>1, <1>2, <1>3 DEF TypeOK, ProcessTyped, StoreTyped, storeVars
<1>5. Held' /\ StatusInv' /\ StoreInv'
  BY <1>1, <1>3 DEF Held, StatusInv, StoreInv, storeVars
<1> QED BY <1>4, <1>5

\* A child that is let go is a number.
LEMMA LeftTyped == ASSUME TypeOK, NEW alive, Left(alive) PROVE orphans' \subseteq Nat
<1>1. orphans \subseteq Nat /\ child.id \in Nat
  BY DEF TypeOK, ProcessTyped, StoreTyped
<1> QED BY <1>1 DEF Left

LEMMA DroppedTyped == ASSUME TypeOK, Dropped PROVE orphans' \subseteq Nat
  BY LeftTyped DEF Dropped

LEMMA StartStep == ASSUME LauncherInv, Start PROVE LauncherInv'
<1> USE DEF LauncherInv
<1>0. PICK fault \in Failing :
        LET a == FirmwarePanel(Refreshed(app, fault))
        IN  /\ up = "up"
            /\ \/ /\ app' = [a EXCEPT !.status = "Running", !.last_error = FALSE]
                  /\ Spawned /\ Dropped
               \/ /\ app' = [a EXCEPT !.last_error = TRUE]
                  /\ IF child.id = 0 THEN UNCHANGED <<output, channel>> ELSE Polled
                  /\ UNCHANGED <<child, pipe, readers, spawned, orphans>>
  BY DEF Start
<1> DEFINE a == FirmwarePanel(Refreshed(app, fault))
<1>1. /\ a \in Apps
      /\ a.status = "Running" => app.status = "Running"
      /\ a.status = "Crashed" => a.last_error
      /\ a.status = "Halted" => child.is \in {None, "exited"}
      /\ child.is = "running" => a.status \in {"Running", "Crashed"}
  <2>1. fault \in BOOLEAN
    BY DEF Failing
  <2> QED BY <2>1, ClickedApp, Zenon
<1>2. up = "up" /\ UNCHANGED <<files, storeVars, up, edits, launches>>
  BY DEF Start
<1>3. CASE app' = [a EXCEPT !.status = "Running", !.last_error = FALSE] /\ Spawned /\ Dropped
  <2> DEFINE no == FALSE
  <2>1. no \in BOOLEAN /\ "Running" \in Statuses
    BY DEF Statuses
  <2>2. app' = [a EXCEPT !.status = "Running", !.last_error = no]
    BY <1>3
  <2> HIDE DEF a, no
  <2>3. app' \in Apps /\ app'.status = "Running"
    BY <1>1, <2>1, <2>2 DEF Apps
  <2>4. ProcessTyped' /\ spawned' \in Nat
    BY <1>3, SpawnedTyped DEF TypeOK, StoreTyped
  <2>5. spawned \in Nat /\ child'.id = spawned + 1 /\ child'.is = "running"
    BY <1>3 DEF Spawned, NoChild, TypeOK, StoreTyped
  <2>6. orphans' \subseteq Nat
    BY <1>3, DroppedTyped
  <2>7. TypeOK'
    BY <1>2, <2>3, <2>4, <2>6 DEF TypeOK, StoreTyped, storeVars
  <2>8. Held' /\ StatusInv'
    BY <1>0, <1>2, <2>3, <2>5 DEF Held, StatusInv, None
  <2>9. StoreInv'
    BY <1>2 DEF StoreInv, storeVars
  <2> QED BY <2>7, <2>8, <2>9
<1>4. CASE /\ app' = [a EXCEPT !.last_error = TRUE]
           /\ IF child.id = 0 THEN UNCHANGED <<output, channel>> ELSE Polled
           /\ UNCHANGED <<child, pipe, readers, spawned, orphans>>
  <2> DEFINE yes == TRUE
  <2>1. yes \in BOOLEAN /\ yes
    OBVIOUS
  <2>2. app' = [a EXCEPT !.last_error = yes]
    BY <1>4
  <2> HIDE DEF a, yes
  <2>3. app' \in Apps /\ app'.status = a.status /\ app'.last_error = yes
    BY <1>1, <2>1, <2>2, ErrorSet
  <2>4. channel' \in Seq(Lines) /\ output' \in Seq(Lines) /\ Len(output') <= MaxOutput
    BY <1>4, PolledTyped DEF TypeOK, ProcessTyped
  <2>5. TypeOK'
    BY <1>2, <1>4, <2>3, <2>4 DEF TypeOK, ProcessTyped, StoreTyped, storeVars
  <2>6. Held' /\ StatusInv'
    BY <1>1, <1>2, <1>4, <2>1, <2>3 DEF Held, StatusInv
  <2>7. StoreInv'
    BY <1>2 DEF StoreInv, storeVars
  <2> QED BY <2>5, <2>6, <2>7
<1> QED BY <1>0, <1>3, <1>4, Zenon

LEMMA StopStep == ASSUME LauncherInv, Stop PROVE LauncherInv'
<1> USE DEF LauncherInv
<1>0. PICK fault \in Failing, failed \in Failing :
        LET a == FirmwarePanel(Refreshed(app, fault))
        IN  /\ app' = [a EXCEPT !.status = "Halted", !.last_error = @ \/ failed]
            /\ \E alive \in {FALSE, failed} : Left(alive)
  BY DEF Stop
<1> DEFINE a == FirmwarePanel(Refreshed(app, fault))
           error == a.last_error \/ failed
<1>1. a \in Apps /\ error \in BOOLEAN
  <2>1. fault \in BOOLEAN
    BY DEF Failing
  <2> QED BY <2>1, ClickedApp, Zenon
<1>2. /\ app' = [a EXCEPT !.status = "Halted", !.last_error = error] /\ Stopped
      /\ up = "up" /\ UNCHANGED <<files, storeVars, up, edits, spawned, launches>>
      /\ orphans' \subseteq Nat
  <2>1. orphans' \subseteq Nat
    BY <1>0, LeftTyped
  <2> QED BY <1>0, <2>1 DEF Stop
<1> HIDE DEF a, error
<1>3. app' \in Apps /\ app'.status = "Halted"
  BY <1>1, <1>2 DEF Apps, Statuses
<1>4. TypeOK'
  BY <1>2, <1>3, StoppedTyped DEF TypeOK, StoreTyped, storeVars
<1>5. child'.id = 0 /\ child'.is = None
  BY <1>2, EmptyTyped DEF Stopped
<1>6. Held' /\ StatusInv' /\ StoreInv'
  BY <1>2, <1>3, <1>5 DEF Held, StatusInv, StoreInv, storeVars, None
<1> QED BY <1>4, <1>6

\* A launcher that ended holds no child; what is in app is nobody's.
LEMMA EndedTyped ==
  ASSUME LauncherInv, Ended, UNCHANGED app
  PROVE  /\ app' \in Apps /\ ProcessTyped' /\ up' = "down" /\ orphans' \subseteq Nat
         /\ Held' /\ StatusInv'
<1>1. up' = "down" /\ Stopped /\ Dropped
  BY DEF Ended
<1>2. child'.id = 0 /\ child'.is = None
  BY <1>1, EmptyTyped DEF Stopped
<1>3. Held' /\ StatusInv'
  BY <1>1, <1>2 DEF LauncherInv, Held, StatusInv, None
<1> QED BY <1>1, <1>3, StoppedTyped, DroppedTyped DEF LauncherInv, TypeOK

LEMMA CloseStep == ASSUME LauncherInv, Close PROVE LauncherInv'
<1> USE DEF LauncherInv
<1> DEFINE yes == TRUE
<1>0. app.settings \in Settings /\ yes \in BOOLEAN /\ yes
  BY DEF TypeOK, Apps
<1>1. up = "up" /\ closed' = app.settings /\ lost' = yes
      /\ UNCHANGED <<app, files, kept, edits, spawned, launches>>
  BY DEF Close
<1> HIDE DEF yes
<1>2. CASE /\ workspace' = [is |-> "torn", state |-> app.settings] /\ up' = "saving"
           /\ UNCHANGED <<processVars, orphans>>
  <2>1. TypeOK'
    BY <1>0, <1>1, <1>2 DEF TypeOK, ProcessTyped, StoreTyped, processVars
  <2>2. Held' /\ StatusInv' /\ StoreInv'
    BY <1>0, <1>1, <1>2 DEF Held, StatusInv, StoreInv, processVars
  <2> QED BY <2>1, <2>2
<1>3. CASE UNCHANGED workspace /\ Ended
  <2>1. /\ app' \in Apps /\ ProcessTyped' /\ up' = "down" /\ orphans' \subseteq Nat
        /\ Held' /\ StatusInv'
    BY <1>1, <1>3, EndedTyped
  <2>2. TypeOK'
    BY <1>0, <1>1, <1>3, <2>1 DEF TypeOK, StoreTyped
  <2>3. StoreInv'
    BY <1>0, <1>1, <1>3, <2>1 DEF StoreInv
  <2> QED BY <2>1, <2>2, <2>3
<1> QED BY <1>2, <1>3 DEF Close, SavedState

LEMMA SavedStep == ASSUME LauncherInv, Saved PROVE LauncherInv'
<1> USE DEF LauncherInv
<1> DEFINE no == FALSE
<1>0. app.settings \in Settings /\ no \in BOOLEAN /\ ~no
  BY DEF TypeOK, Apps
<1>1. /\ Ended /\ up = "saving" /\ UNCHANGED <<app, files, closed, edits, spawned, launches>>
      /\ \/ /\ workspace' = [is |-> "whole", state |-> app.settings]
            /\ kept' = app.settings /\ lost' = no
         \/ UNCHANGED <<workspace, kept, lost>>
  BY DEF Saved, SavedState
<1> HIDE DEF no
<1>2. /\ app' \in Apps /\ ProcessTyped' /\ up' = "down" /\ orphans' \subseteq Nat
      /\ Held' /\ StatusInv'
  BY <1>1, EndedTyped
<1>3. TypeOK'
  BY <1>0, <1>1, <1>2 DEF TypeOK, StoreTyped
<1>4. StoreInv'
  <2>1. CASE /\ workspace' = [is |-> "whole", state |-> app.settings]
             /\ kept' = app.settings /\ lost' = no
    <3>1. workspace'.is = "whole" /\ workspace'.state = kept' /\ kept' = closed'
      BY <1>1, <2>1 DEF StoreInv
    <3> QED BY <1>2, <3>1 DEF StoreInv
  <2>2. CASE UNCHANGED <<workspace, kept, lost>>
    BY <1>1, <1>2, <2>2 DEF StoreInv
  <2> QED BY <1>1, <2>1, <2>2
<1> QED BY <1>2, <1>3, <1>4

LEMMA DieStep == ASSUME LauncherInv, Die PROVE LauncherInv'
<1> USE DEF LauncherInv
<1>1. Ended /\ UNCHANGED <<app, files, storeVars, edits, spawned, launches>>
  BY DEF Die
<1>2. /\ app' \in Apps /\ ProcessTyped' /\ up' = "down" /\ orphans' \subseteq Nat
      /\ Held' /\ StatusInv'
  BY <1>1, EndedTyped
<1>3. TypeOK' /\ StoreInv'
  BY <1>1, <1>2 DEF TypeOK, StoreTyped, StoreInv, storeVars
<1> QED BY <1>2, <1>3

\* What may be read of any file are settings.
LEMMA LoadTyped == ASSUME StoreTyped PROVE Load \subseteq Settings
<1>1. workspace.state \in Settings /\ workspace.is \in {"whole", "torn", "absent"}
  BY DEF StoreTyped
<1>2. ASSUME NEW state \in Settings PROVE Cuts(state) \subseteq Settings
  <2>1. \A t \in Texts : [state EXCEPT !.port = t] \in Settings
    BY DEF Settings
  <2>2. \A t \in Texts : [state EXCEPT !.addresses = t, !.port = ""] \in Settings
    BY DEF Settings, Texts
  <2> QED BY <2>1, <2>2 DEF Cuts
<1> QED BY <1>1, <1>2, DefaultTyped DEF Load

LEMMA LaunchStep == ASSUME LauncherInv, Launch PROVE LauncherInv'
<1> USE DEF LauncherInv
<1> DEFINE yes == TRUE
<1>0. yes \in BOOLEAN /\ yes
  OBVIOUS
<1>1. PICK saved \in Settings : app' = NewApp(saved) /\ (UNCHANGED lost \/ lost' = yes)
  BY LoadTyped, DefaultTyped DEF Launch, TypeOK
<1>2. app' \in Apps /\ app'.status = "Idle"
  BY <1>1, NewAppTyped
<1>3. /\ up = "down" /\ up' = "up" /\ launches' = launches + 1
      /\ UNCHANGED <<processVars, files, workspace, closed, kept, orphans, edits, spawned>>
  BY DEF Launch
<1> HIDE DEF yes
<1>4. TypeOK'
  <2>0. lost' \in BOOLEAN
    BY <1>0, <1>1, Zenon DEF TypeOK, StoreTyped
  <2>1. lost' \in BOOLEAN /\ launches' \in Nat
    BY <1>3, <2>0 DEF TypeOK, StoreTyped
  <2>2. ProcessTyped'
    BY <1>3 DEF TypeOK, ProcessTyped, processVars
  <2>3. StoreTyped'
    BY <1>3, <2>1 DEF TypeOK, StoreTyped
  <2> QED BY <1>2, <2>2, <2>3 DEF TypeOK
<1>5. Held' /\ StatusInv'
  BY <1>2, <1>3 DEF Held, StatusInv, processVars, None
<1>6. StoreInv'
  BY <1>0, <1>1, <1>3 DEF StoreInv
<1> QED BY <1>4, <1>5, <1>6

LEMMA TouchStep == ASSUME LauncherInv, Touch PROVE LauncherInv'
<1> USE DEF LauncherInv
<1>1. files' \subseteq Files /\ edits' \in Nat
  BY DEF Touch, TypeOK, StoreTyped
<1>2. UNCHANGED <<app, processVars, storeVars, up, orphans, spawned, launches>>
  BY DEF Touch
<1>3. TypeOK'
  BY <1>1, <1>2 DEF TypeOK, ProcessTyped, StoreTyped, processVars, storeVars
<1>4. Held' /\ StatusInv' /\ StoreInv'
  BY <1>2 DEF Held, StatusInv, StoreInv, processVars, storeVars
<1> QED BY <1>3, <1>4

\* Steps of the child and of the readers: the launcher's own state stays.
LEMMA OutsideStep ==
  ASSUME LauncherInv, ProcessTyped',
         UNCHANGED <<app, files, storeVars, up, orphans, edits, spawned, launches>>,
         child'.id = child.id,
         child'.is = child.is \/ (child.is = "running" /\ child'.is \in {"exited", "failed"})
  PROVE  LauncherInv'
<1> USE DEF LauncherInv
<1>1. TypeOK'
  BY DEF TypeOK, StoreTyped, storeVars
<1>2. Held' /\ StatusInv'
  BY DEF Held, StatusInv, None
<1>3. StoreInv'
  BY DEF StoreInv, storeVars
<1> QED BY <1>1, <1>2, <1>3

LEMMA InvInit == Init => LauncherInv
<1> SUFFICES ASSUME Init PROVE LauncherInv
  OBVIOUS
<1>1. app \in Apps /\ app.status = "Idle"
  BY NewAppTyped, DefaultTyped DEF Init
<1>2. ProcessTyped
  BY EmptyTyped DEF Init, ProcessTyped
<1>3. StoreTyped
  BY DefaultTyped DEF Init, StoreTyped
<1>4. Held /\ StatusInv /\ StoreInv
  BY <1>1, EmptyTyped DEF Init, Held, StatusInv, StoreInv, None
<1> QED BY <1>1, <1>2, <1>3, <1>4 DEF LauncherInv, TypeOK

LEMMA InvNext == LauncherInv /\ [Next]_vars => LauncherInv'
<1> SUFFICES ASSUME LauncherInv, [Next]_vars PROVE LauncherInv'
  OBVIOUS
<1>0. ProcessTyped
  BY DEF LauncherInv, TypeOK
<1>1. ASSUME NEW s \in Streams, Read(s) PROVE LauncherInv'
  <2>1. ProcessTyped'
    BY <1>0, <1>1, ReadTyped
  <2> QED BY <1>1, <2>1, OutsideStep DEF Read
<1>2. ASSUME NEW s \in Streams, PrintLine(s) PROVE LauncherInv'
  <2>1. ProcessTyped'
    BY <1>0, <1>2, PrintTyped
  <2>2. child'.id = child.id /\ child'.is = child.is
    BY <1>0, <1>2 DEF PrintLine, ProcessTyped
  <2> QED BY <1>2, <2>1, <2>2, OutsideStep DEF PrintLine
<1>3. ASSUME NEW success \in BOOLEAN, Exit(success) PROVE LauncherInv'
  <2>1. ProcessTyped'
    BY <1>0, <1>3, ExitTyped
  <2>2. child'.id = child.id /\ child.is = "running" /\ child'.is \in {"exited", "failed"}
    BY <1>0, <1>3 DEF Exit, ProcessTyped
  <2> QED BY <1>3, <2>1, <2>2, OutsideStep DEF Exit
<1>4. CASE UNCHANGED vars
  <2>1. ProcessTyped'
    BY <1>0, <1>4 DEF vars, processVars, ProcessTyped
  <2> QED BY <1>4, <2>1, OutsideStep DEF vars, processVars
<1> QED BY <1>1, <1>2, <1>3, <1>4, FrameStep, StartStep, StopStep, CloseStep, SavedStep, DieStep,
           LaunchStep, TouchStep DEF Next, Reading

LEMMA Invariant == Spec => []LauncherInv
  BY InvInit, InvNext, PTL DEF Spec

\* The type invariant of the launcher: the trace is never longer than MAX_OUTPUT_LINES, and
\* the panels leave settings that can be saved (poll_output, saved_state).
THEOREM TypeCorrect == Spec => []TypeOK
  BY Invariant, PTL DEF LauncherInv

LEMMA LossNext == LauncherInv /\ [Next]_vars => [LossStep]_vars
<1> SUFFICES ASSUME LauncherInv, Next, orphans' # orphans, up = "up", up' = "up"
             PROVE  app.last_error \/ app'.last_error
  BY DEF LossStep
<1>0. TypeOK /\ StatusInv
  BY DEF LauncherInv
<1>1. Start \/ Stop
  BY Zenon DEF Next, Reading, Frame, Close, Saved, Die, Launch, Touch, Read, PrintLine, Exit, Ended
<1>2. CASE Start
  <2>1. CanRun(app) /\ (Dropped \/ UNCHANGED orphans)
    BY <1>2, Zenon DEF Start
  <2>2. child.is = "running" /\ app.status # "Running"
    BY <2>1 DEF Dropped, Left, Failing, CanRun
  <2> QED BY <1>0, <2>2 DEF StatusInv
<1>3. CASE Stop
  <2>1. PICK fault \in Failing, failed \in Failing :
          LET a == FirmwarePanel(Refreshed(app, fault))
          IN  /\ app' = [a EXCEPT !.status = "Halted", !.last_error = @ \/ failed]
              /\ \E alive \in {FALSE, failed} : Left(alive)
    BY <1>3 DEF Stop
  <2> DEFINE a == FirmwarePanel(Refreshed(app, fault))
             error == a.last_error \/ failed
  <2>2. failed
    <3>1. PICK alive \in {FALSE, failed} : Left(alive)
      BY <2>1
    <3>2. alive
      BY <3>1 DEF Left
    <3> QED BY <3>1, <3>2
  <2>3. a \in Apps /\ fault \in BOOLEAN
    <3>1. fault \in BOOLEAN
      BY DEF Failing
    <3> QED BY <3>1, ClickedApp, Zenon DEF LauncherInv
  <2>4. app' = [a EXCEPT !.status = "Halted", !.last_error = error] /\ error
    BY <2>1, <2>2
  <2> HIDE DEF a, error
  <2>5. app'.last_error = error
    BY <2>3, <2>4 DEF Apps
  <2> QED BY <2>4, <2>5
<1> QED BY <1>1, <1>2, <1>3

\* Whatever is clicked and however often the state of a child cannot be had or a kill fails,
\* no child goes on unheld under a launcher that runs unless an error has been shown (start,
\* stop, drop, can_run).
THEOREM LossIsShown == Spec => LossShown
  BY Invariant, LossNext, PTL DEF Spec, LossShown

\* Status and child agree, whenever a child ends and whether or not its status can be had:
\* no child fails after Halted was shown, since only an end that was seen, or a stop, shows
\* it (refresh_process, stop).
THEOREM StatusCorrect == Spec => []StatusTruthful
<1>1. LauncherInv => StatusTruthful
  BY DEF LauncherInv, StatusInv, StatusTruthful, None
<1> QED BY <1>1, Invariant, PTL

LEMMA RestoredNext == LauncherInv /\ [Next]_vars => [RestoredStep]_vars
<1> SUFFICES ASSUME LauncherInv, Next, launches' > launches
             PROVE  /\ ~lost' => app'.settings = NewApp(closed).settings
                    /\ workspace.is # "torn" =>
                         app'.settings \in {NewApp(kept).settings,
                                            NewApp(DefaultSettings).settings}
                    /\ app'.settings.port # "" /\ app'.settings.addresses # ""
  BY DEF RestoredStep
<1>0. TypeOK /\ StoreInv /\ launches \in Nat /\ Load \subseteq Settings
  BY LoadTyped DEF LauncherInv, TypeOK, StoreTyped
<1>1. launches' # launches
  BY <1>0
<1>2. Launch
  BY <1>1, Zenon DEF Next, Reading, Frame, Start, Stop, Close, Saved, Die, Touch, Read, PrintLine, Exit
<1>3. PICK saved \in Load \cup {DefaultSettings} :
        app' = NewApp(saved) /\ (~lost' => saved \in Load /\ ~lost)
  BY <1>2 DEF Launch
<1>4. app'.settings.port # "" /\ app'.settings.addresses # ""
  <2>1. saved \in Settings
    BY <1>0, DefaultTyped
  <2> QED BY <1>3, <2>1, NewAppTyped
<1>5. workspace.is \in {"absent", "torn", "whole"}
  BY <1>0 DEF TypeOK, StoreTyped
<1>6. /\ workspace.is # "torn" => Load = {kept}
      /\ ~lost => workspace.is # "torn" /\ kept = closed
  BY <1>0, <1>5 DEF StoreInv, Load
<1> QED BY <1>3, <1>4, <1>6

\* A launcher finds the settings it was last closed with, whatever was edited, run or killed
\* before, unless their save or a load failed; without a torn file it then finds the ones
\* saved before or the defaults, and never an empty text (save, load, App::new).
THEOREM SettingsRestored == Spec => Restored
  BY Invariant, RestoredNext, PTL DEF Restored, Spec

-----------------------------------------------------------------------------
(* The lines on their way.                                                  *)

LEMMA LinesTyped ==
  ASSUME NEW q \in Seq(Lines)
  PROVE  /\ Len(q) \in Nat /\ DOMAIN q = 1..Len(q)
         /\ \A i \in 1..Len(q) : q[i].n \in Nat /\ q[i].stream \in Streams
<1>1. Len(q) \in Nat /\ DOMAIN q = 1..Len(q)
  OBVIOUS
<1>2. ASSUME NEW i \in 1..Len(q) PROVE q[i].n \in Nat /\ q[i].stream \in Streams
  <2>1. q[i] \in Lines
    OBVIOUS
  <2> QED BY <2>1 DEF Lines
<1> QED BY <1>1, <1>2

\* What is cut from the front leaves the lines of a stream unbroken.
LEMMA FrontCut ==
  ASSUME NEW q \in Seq(Lines), NEW p \in Seq(Lines), NEW d \in 0..Len(q), NEW s \in Streams,
         NEW last \in Nat, Len(p) = Len(q) - d, \A i \in 1..Len(p) : p[i] = q[i + d],
         Unbroken(q, s, last)
  PROVE  Unbroken(p, s, last)
<1>1. /\ Len(q) \in Nat /\ Len(p) \in Nat /\ DOMAIN q = 1..Len(q) /\ DOMAIN p = 1..Len(p)
      /\ \A i \in 1..Len(q) : q[i].n \in Nat
      /\ \A i \in 1..Len(p) : p[i].n \in Nat
  BY LinesTyped
<1>2. ASSUME NEW i \in Of(p, s) PROVE i \in 1..Len(p) /\ i + d \in Of(q, s) /\ p[i] = q[i + d]
  BY <1>1 DEF Of
<1>3. ASSUME NEW i \in Of(p, s), NEW j \in Of(p, s), i < j PROVE p[i].n < p[j].n
  <2>1. i + d < j + d
    BY <1>1, <1>2, <1>3
  <2> QED BY <1>2, <2>1 DEF Unbroken
<1>4. ASSUME NEW i \in Of(p, s)
      PROVE  p[i].n <= last /\ \A n \in p[i].n..last : Has(p, s, n)
  <2>1. p[i].n <= last
    BY <1>2 DEF Unbroken
  <2>2. ASSUME NEW n \in p[i].n..last PROVE Has(p, s, n)
    <3>1. PICK k \in Of(q, s) : q[k].n = n
      BY <1>2 DEF Unbroken, Has
    <3>2. k \in 1..Len(q) /\ q[k].stream = s
      BY <1>1 DEF Of
    <3>3. ~(k < i + d)
      <4>1. n \in Int /\ q[i + d].n \in Nat /\ n >= q[i + d].n
        BY <1>1, <1>2
      <4>2. k < i + d => q[k].n < q[i + d].n
        BY <1>2 DEF Unbroken
      <4> QED BY <3>1, <4>1, <4>2
    <3>4. k - d \in 1..Len(p) /\ (k - d) + d = k
      <4>1. i \in 1..Len(p) /\ k \in 1..Len(q) /\ d \in 0..Len(q) /\ ~(k < i + d)
        BY <1>2, <3>2, <3>3
      <4>2. Len(q) \in Nat /\ Len(p) = Len(q) - d
        BY <1>1
      <4> QED BY <4>1, <4>2
    <3>5. p[k - d] = q[k]
      BY <3>4
    <3>6. k - d \in Of(p, s)
      BY <1>1, <3>2, <3>4, <3>5 DEF Of
    <3> QED BY <3>1, <3>5, <3>6 DEF Has
  <2> QED BY <2>1, <2>2
<1> QED BY <1>3, <1>4 DEF Unbroken

\* A line printed comes behind the others.
LEMMA LineAdded ==
  ASSUME NEW q \in Seq(Lines), NEW p \in Seq(Lines), NEW s \in Streams, NEW last \in Nat,
         Len(p) = Len(q) + 1, \A i \in 1..Len(q) : p[i] = q[i],
         p[Len(q) + 1].stream = s, p[Len(q) + 1].n = last + 1,
         Unbroken(q, s, last)
  PROVE  /\ Unbroken(p, s, last + 1)
         /\ (\A n \in 1..last : Has(q, s, n)) => \A n \in 1..(last + 1) : Has(p, s, n)
<1> DEFINE new == Len(q) + 1
<1>1. /\ Len(q) \in Nat /\ DOMAIN q = 1..Len(q) /\ DOMAIN p = 1..new
      /\ \A i \in 1..Len(q) : q[i].n \in Nat
  BY LinesTyped
<1>2. new \in Of(p, s) /\ Has(p, s, last + 1)
  BY <1>1 DEF Of, Has
<1>3. ASSUME NEW i \in Of(p, s), i # new PROVE i \in Of(q, s) /\ p[i] = q[i] /\ i < new
  BY <1>1, <1>3 DEF Of
<1>4. ASSUME NEW n, Has(q, s, n) PROVE Has(p, s, n)
  <2>1. PICK k \in Of(q, s) : q[k].n = n
    BY <1>4 DEF Has
  <2>2. k \in Of(p, s) /\ p[k] = q[k]
    BY <1>1 DEF Of
  <2> QED BY <2>1, <2>2 DEF Has
<1>5. ASSUME NEW i \in Of(p, s), NEW j \in Of(p, s), i < j PROVE p[i].n < p[j].n
  <2>1. i # new
    <3>1. i \in 1..new /\ j \in 1..new /\ new \in Nat
      BY <1>1 DEF Of
    <3> HIDE DEF new
    <3> QED BY <1>5, <3>1
  <2>2. i \in Of(q, s) /\ p[i] = q[i] /\ q[i].n <= last /\ i \in 1..Len(q)
    BY <1>1, <1>3, <2>1 DEF Unbroken, Of
  <2>3. CASE j = new
    BY <1>1, <2>2, <2>3
  <2>4. CASE j # new
    BY <1>3, <1>5, <2>2, <2>4 DEF Unbroken
  <2> QED BY <2>3, <2>4
<1>6. ASSUME NEW i \in Of(p, s)
      PROVE  p[i].n <= last + 1 /\ \A n \in p[i].n..(last + 1) : Has(p, s, n)
  <2>1. CASE i = new
    BY <1>2, <2>1
  <2>2. CASE i # new
    <3>1. i \in Of(q, s) /\ p[i] = q[i] /\ i \in 1..Len(q)
      BY <1>1, <1>3, <2>2 DEF Of
    <3>2. p[i].n \in Nat /\ p[i].n <= last /\ \A n \in p[i].n..last : Has(q, s, n)
      BY <1>1, <3>1 DEF Unbroken
    <3>3. \A n \in p[i].n..(last + 1) : n \in p[i].n..last \/ n = last + 1
      BY <3>2
    <3> QED BY <1>2, <1>4, <3>2, <3>3
  <2> QED BY <2>1, <2>2
<1>7. ASSUME \A n \in 1..last : Has(q, s, n), NEW n \in 1..(last + 1) PROVE Has(p, s, n)
  <2>1. n \in 1..last \/ n = last + 1
    OBVIOUS
  <2> QED BY <1>2, <1>4, <1>7, <2>1
<1> QED BY <1>5, <1>6, <1>7 DEF Unbroken

\* A line of another stream that comes in between changes nothing.
LEMMA OtherLine ==
  ASSUME NEW q \in Seq(Lines), NEW p \in Seq(Lines), NEW s \in Streams, NEW last \in Nat,
         NEW m \in 0..Len(q), Len(p) = Len(q) + 1, \A i \in 1..m : p[i] = q[i],
         p[m + 1].stream # s, \A i \in (m + 1)..Len(q) : p[i + 1] = q[i],
         Unbroken(q, s, last)
  PROVE  Unbroken(p, s, last) /\ \A n : Has(q, s, n) => Has(p, s, n)
<1> DEFINE now(i) == IF i <= m THEN i ELSE i + 1
           was(i) == IF i <= m THEN i ELSE i - 1
<1>1. Len(q) \in Nat /\ DOMAIN q = 1..Len(q) /\ DOMAIN p = 1..(Len(q) + 1)
  OBVIOUS
<1>2. ASSUME NEW i \in Of(q, s) PROVE now(i) \in Of(p, s) /\ p[now(i)] = q[i]
  <2>1. i \in 1..Len(q) /\ q[i].stream = s
    BY <1>1 DEF Of
  <2> QED BY <1>1, <2>1 DEF Of
<1>3. ASSUME NEW i \in Of(p, s) PROVE was(i) \in Of(q, s) /\ p[i] = q[was(i)] /\ i \in Nat
  <2>1. i \in 1..(Len(q) + 1) /\ p[i].stream = s /\ i # m + 1
    BY <1>1 DEF Of
  <2>2. CASE i <= m
    BY <1>1, <2>1, <2>2 DEF Of
  <2>3. CASE ~(i <= m)
    <3>1. i - 1 \in (m + 1)..Len(q) /\ (i - 1) + 1 = i
      BY <1>1, <2>1, <2>3
    <3>2. p[i] = q[i - 1]
      BY <3>1
    <3> QED BY <1>1, <2>1, <2>3, <3>1, <3>2 DEF Of
  <2> QED BY <2>2, <2>3
<1>4. ASSUME NEW n, Has(q, s, n) PROVE Has(p, s, n)
  <2> HIDE DEF now
  <2> QED BY <1>2, <1>4 DEF Has
<1>5. ASSUME NEW i \in Of(p, s), NEW j \in Of(p, s), i < j PROVE p[i].n < p[j].n
  <2>1. i \in Nat /\ j \in Nat /\ i # m + 1 /\ j # m + 1
    BY <1>3 DEF Of
  <2>2. was(i) < was(j)
    BY <1>5, <2>1
  <2> HIDE DEF was
  <2> QED BY <1>3, <2>2 DEF Unbroken
<1>6. ASSUME NEW i \in Of(p, s) PROVE p[i].n <= last /\ \A n \in p[i].n..last : Has(p, s, n)
  <2> HIDE DEF was
  <2> QED BY <1>3, <1>4 DEF Unbroken
<1> QED BY <1>4, <1>5, <1>6 DEF Unbroken

\* A full trace keeps the newest lines; one that is not full keeps all (poll_output).
LEMMA KeptCut ==
  ASSUME NEW lines \in Seq(Lines)
  PROVE  LET d == Len(lines) - Len(KeptLines(lines))
         IN  /\ d \in 0..Len(lines)
             /\ \A i \in 1..Len(KeptLines(lines)) : KeptLines(lines)[i] = lines[i + d]
             /\ Len(KeptLines(lines)) < MaxOutput => d = 0
<1> DEFINE keep == IF Len(lines) < MaxOutput THEN Len(lines) ELSE MaxOutput
           first == Len(lines) - keep + 1
<1>1. /\ Len(lines) \in Nat /\ keep \in Nat /\ keep <= Len(lines)
      /\ first \in 1..(Len(lines) + 1) /\ Len(lines) - first + 1 = keep
      /\ first = (Len(lines) - keep) + 1
      /\ keep < MaxOutput => keep = Len(lines)
  <2>0. Len(lines) \in Nat
    OBVIOUS
  <2>1. CASE Len(lines) < MaxOutput
    BY <2>0, <2>1, Bounds
  <2>2. CASE ~(Len(lines) < MaxOutput)
    BY <2>0, <2>2, Bounds
  <2> QED BY <2>1, <2>2
<1>2. KeptLines(lines) = SubSeq(lines, first, Len(lines))
  BY DEF KeptLines
<1> HIDE DEF keep, first
<1>3. /\ Len(KeptLines(lines)) = keep
      /\ \A i \in 1..keep : KeptLines(lines)[i] = lines[first + i - 1]
  BY <1>1, <1>2
<1>4. \A i \in 1..keep : first + i - 1 = i + (Len(lines) - keep)
  BY <1>1
<1> QED BY <1>1, <1>3, <1>4

\* What a stream still has under way, and what is in its pipe is its own.
UnderWay(s) == output \o channel \o pipe[s]
OwnPipes == \A s \in Streams : \A i \in 1..Len(pipe[s]) : pipe[s][i].stream = s
Skipless(s) ==
  /\ Unbroken(UnderWay(s), s, child.printed[s])
  /\ Len(output) < MaxOutput => \A n \in 1..child.printed[s] : Has(UnderWay(s), s, n)
LinesInv == OwnPipes /\ \A s \in Streams : Skipless(s)

LEMMA Joined ==
  ASSUME NEW a \in Seq(Lines), NEW b \in Seq(Lines)
  PROVE  /\ a \o b \in Seq(Lines) /\ Len(a \o b) = Len(a) + Len(b)
         /\ \A i \in 1..Len(a) : (a \o b)[i] = a[i]
         /\ \A i \in 1..Len(b) : (a \o b)[Len(a) + i] = b[i]
<1>1. /\ a \o b \in Seq(Lines) /\ Len(a \o b) = Len(a) + Len(b)
      /\ Len(a) \in Nat /\ Len(b) \in Nat
      /\ \A i \in 1..(Len(a) + Len(b)) :
           (a \o b)[i] = IF i <= Len(a) THEN a[i] ELSE b[i - Len(a)]
  OBVIOUS
<1>2. ASSUME NEW i \in 1..Len(a) PROVE (a \o b)[i] = a[i]
  <2>1. i \in 1..(Len(a) + Len(b)) /\ i <= Len(a)
    BY <1>1
  <2> QED BY <1>1, <2>1
<1>3. ASSUME NEW i \in 1..Len(b) PROVE (a \o b)[Len(a) + i] = b[i]
  <2>1. /\ Len(a) + i \in 1..(Len(a) + Len(b)) /\ ~(Len(a) + i <= Len(a))
        /\ (Len(a) + i) - Len(a) = i
    BY <1>1
  <2> QED BY <1>1, <2>1
<1> QED BY <1>1, <1>2, <1>3

LEMMA SameLines ==
  ASSUME NEW p \in Seq(Lines), NEW q \in Seq(Lines), Len(p) = Len(q),
         \A i \in 1..Len(q) : p[i] = q[i]
  PROVE  p = q
OBVIOUS

\* The places of what is under way.
LEMMA UnderWayParts ==
  ASSUME NEW a \in Seq(Lines), NEW b \in Seq(Lines), NEW c \in Seq(Lines)
  PROVE  /\ a \o b \o c \in Seq(Lines)
         /\ Len(a \o b \o c) = (Len(a) + Len(b)) + Len(c)
         /\ Len(a \o b) = Len(a) + Len(b)
         /\ \A i \in 1..(Len(a) + Len(b)) : (a \o b \o c)[i] = (a \o b)[i]
         /\ \A i \in 1..Len(c) : (a \o b \o c)[(Len(a) + Len(b)) + i] = c[i]
<1> DEFINE ab == a \o b
<1>1. /\ ab \in Seq(Lines) /\ Len(ab) = Len(a) + Len(b)
      /\ Len(a) \in Nat /\ Len(b) \in Nat /\ Len(c) \in Nat
  OBVIOUS
<1> HIDE DEF ab
<1>2. /\ ab \o c \in Seq(Lines) /\ Len(ab \o c) = Len(ab) + Len(c)
      /\ \A i \in 1..Len(ab) : (ab \o c)[i] = ab[i]
      /\ \A i \in 1..Len(c) : (ab \o c)[Len(ab) + i] = c[i]
  BY <1>1, Joined
<1> QED BY <1>1, <1>2 DEF ab

\* Nothing is under way, and nothing was printed.
LEMMA NothingUnderWay ==
  ASSUME output' = <<>>, channel' = <<>>, pipe' = [s \in Streams |-> <<>>],
         \A s \in Streams : child'.printed[s] = 0
  PROVE  LinesInv'
<1>1. OwnPipes'
  BY DEF OwnPipes
<1>2. ASSUME NEW s \in Streams PROVE Skipless(s)'
  <2>1. UnderWay(s)' = <<>>
    BY DEF UnderWay
  <2>2. Of(<<>>, s) = {}
    BY DEF Of
  <2> QED BY <2>1, <2>2 DEF Skipless, Unbroken
<1> QED BY <1>1, <1>2 DEF LinesInv

LEMMA StoppedLines == ASSUME Stopped PROVE LinesInv'
<1>1. \A s \in Streams : child'.printed[s] = 0
  BY DEF Stopped, NoChild
<1> QED BY <1>1, NothingUnderWay DEF Stopped

LEMMA SpawnedLines == ASSUME Spawned PROVE LinesInv'
<1>1. \A s \in Streams : child'.printed[s] = 0
  BY DEF Spawned, NoChild
<1> QED BY <1>1, NothingUnderWay DEF Spawned

LEMMA LinesLeft ==
  ASSUME LinesInv, UNCHANGED <<output, channel, pipe>>, UNCHANGED child.printed
  PROVE  LinesInv'
<1>1. \A s \in Streams : UnderWay(s)' = UnderWay(s)
  BY DEF UnderWay
<1> QED BY <1>1 DEF LinesInv, OwnPipes, Skipless

\* A poll takes everything from the channel, and cuts the front if the trace is full.
LEMMA PolledLines ==
  ASSUME ProcessTyped, LinesInv, Polled, UNCHANGED <<pipe, child>>
  PROVE  LinesInv'
<1> DEFINE lines == output \o channel
           newest == KeptLines(lines)
           d == Len(lines) - Len(newest)
<1>1. /\ output \in Seq(Lines) /\ channel \in Seq(Lines) /\ lines \in Seq(Lines)
      /\ Len(lines) = Len(output) + Len(channel)
      /\ Len(output) \in Nat /\ Len(channel) \in Nat
  BY DEF ProcessTyped
<1>2. output' = newest /\ channel' = <<>>
  BY DEF Polled
<1> HIDE DEF lines
<1>3. newest \in Seq(Lines) /\ Len(newest) \in Nat
  BY <1>1, KeptTyped
<1>4. /\ d \in 0..Len(lines)
      /\ \A i \in 1..Len(newest) : newest[i] = lines[i + d]
      /\ Len(newest) < MaxOutput => d = 0
  BY <1>1, KeptCut
<1> HIDE DEF newest
<1>5. ASSUME NEW s \in Streams PROVE Skipless(s)'
  <2> DEFINE q == lines \o pipe[s]
             p == newest \o pipe[s]
             last == child.printed[s]
  <2>1. pipe[s] \in Seq(Lines) /\ last \in Nat /\ Len(pipe[s]) \in Nat
    BY DEF ProcessTyped
  <2>2. UnderWay(s) = q
    BY DEF UnderWay, lines
  <2>3. UnderWay(s)' = p
    <3>1. newest \o <<>> = newest
      BY <1>3
    <3> QED BY <1>2, <3>1 DEF UnderWay
  <2>4. /\ q \in Seq(Lines) /\ Len(q) = Len(lines) + Len(pipe[s])
        /\ \A i \in 1..Len(lines) : q[i] = lines[i]
        /\ \A i \in 1..Len(pipe[s]) : q[Len(lines) + i] = pipe[s][i]
    BY <1>1, <2>1, Joined
  <2>5. /\ p \in Seq(Lines) /\ Len(p) = Len(newest) + Len(pipe[s])
        /\ \A i \in 1..Len(newest) : p[i] = newest[i]
        /\ \A i \in 1..Len(pipe[s]) : p[Len(newest) + i] = pipe[s][i]
    BY <1>3, <2>1, Joined
  <2> HIDE DEF q, p, last
  <2>6. Len(lines) \in Nat /\ d \in Nat /\ Len(lines) = Len(newest) + d
    BY <1>1, <1>3, <1>4
  <2> HIDE DEF d
  <2>7. d \in 0..Len(q) /\ Len(p) = Len(q) - d
    <3>1. /\ Len(q) = Len(lines) + Len(pipe[s]) /\ Len(p) = Len(newest) + Len(pipe[s])
          /\ Len(lines) = Len(newest) + d
          /\ d \in Nat /\ Len(newest) \in Nat /\ Len(pipe[s]) \in Nat
      BY <1>3, <2>1, <2>4, <2>5, <2>6
    <3>2. \A c, k, n \in Nat : /\ c \in 0..((k + c) + n)
                              /\ k + n = ((k + c) + n) - c
      OBVIOUS
    <3>3. /\ d \in 0..((Len(newest) + d) + Len(pipe[s]))
          /\ Len(newest) + Len(pipe[s]) = ((Len(newest) + d) + Len(pipe[s])) - d
      BY <3>1, <3>2, Zenon
    <3> QED BY <3>1, <3>3, Zenon
  <2>8. ASSUME NEW i \in 1..Len(p) PROVE p[i] = q[i + d]
    <3>1. CASE i <= Len(newest)
      <4>1. i \in 1..Len(newest) /\ i + d \in 1..Len(lines)
        BY <1>3, <2>1, <2>5, <2>6, <3>1
      <4> QED BY <1>4, <2>4, <2>5, <4>1
    <3>2. CASE i > Len(newest)
      <4> DEFINE k == i - Len(newest)
      <4>1. k \in 1..Len(pipe[s]) /\ i = Len(newest) + k /\ i + d = Len(lines) + k
        BY <1>3, <2>1, <2>5, <2>6, <3>2
      <4> HIDE DEF k
      <4> QED BY <2>4, <2>5, <4>1
    <3> QED BY <1>3, <2>1, <2>5, <3>1, <3>2
  <2>9. Unbroken(p, s, last)
    <3>1. Unbroken(q, s, last)
      BY <2>2 DEF LinesInv, Skipless, last
    <3> QED BY <2>1, <2>4, <2>5, <2>7, <2>8, <3>1, FrontCut
  <2>10. ASSUME Len(output') < MaxOutput PROVE \A n \in 1..last : Has(p, s, n)
    <3>1. d = 0
      BY <1>2, <1>4, <2>10
    <3>2. p = q
      <4>1. Len(q) \in Nat /\ Len(p) \in Nat
        BY <2>4, <2>5
      <4>2. Len(p) = Len(q) /\ \A i \in 1..Len(q) : i + d = i
        BY <2>7, <3>1, <4>1
      <4> QED BY <2>4, <2>5, <2>8, <4>2, SameLines
    <3>3. Len(output) < MaxOutput
      BY <1>1, <1>2, <2>6, <2>10, <3>1, Bounds
    <3> QED BY <2>2, <3>2, <3>3 DEF LinesInv, Skipless, last
  <2> QED BY <2>3, <2>9, <2>10 DEF Skipless, last
<1>6. OwnPipes'
  BY DEF LinesInv, OwnPipes
<1> QED BY <1>5, <1>6 DEF LinesInv

\* A line printed is behind all lines of its stream, wherever they are (PrintLine).
LEMMA PrintLines ==
  ASSUME ProcessTyped, LinesInv, NEW s \in Streams, PrintLine(s)
  PROVE  LinesInv'
<1> DEFINE line == [stream |-> s, n |-> child.printed[s] + 1]
           last == child.printed[s]
<1>0. /\ output \in Seq(Lines) /\ channel \in Seq(Lines) /\ last \in Nat
      /\ pipe \in [Streams -> Seq(Lines)]
  BY DEF ProcessTyped
<1>1. /\ output \in Seq(Lines) /\ channel \in Seq(Lines) /\ last \in Nat
      /\ pipe[s] \in Seq(Lines) /\ line \in Lines /\ pipe \in [Streams -> Seq(Lines)]
  <2>1. line \in Lines
    BY <1>0 DEF Lines
  <2> QED BY <1>0, <2>1
<1>2. /\ pipe' = [pipe EXCEPT ![s] = Append(pipe[s], line)]
      /\ UNCHANGED <<output, channel>>
  BY DEF PrintLine
<1>3. /\ child'.printed[s] = last + 1
      /\ \A t \in Streams : t # s => child'.printed[t] = child.printed[t]
  BY DEF PrintLine, ProcessTyped
<1>4. line.stream = s /\ line.n = last + 1
  OBVIOUS
<1> HIDE DEF line
<1>5. /\ Append(pipe[s], line) \in Seq(Lines)
      /\ Len(Append(pipe[s], line)) = Len(pipe[s]) + 1 /\ Len(pipe[s]) \in Nat
      /\ \A i \in 1..Len(pipe[s]) : Append(pipe[s], line)[i] = pipe[s][i]
      /\ Append(pipe[s], line)[Len(pipe[s]) + 1] = line
  BY <1>1
<1>6. Skipless(s)'
  <2> DEFINE q == UnderWay(s)
             p == output \o channel \o Append(pipe[s], line)
             front == Len(output) + Len(channel)
  <2>1. UnderWay(s)' = p
    BY <1>1, <1>2 DEF UnderWay
  <2>2. /\ q \in Seq(Lines) /\ Len(q) = front + Len(pipe[s]) /\ front \in Nat
        /\ \A i \in 1..front : q[i] = (output \o channel)[i]
        /\ \A i \in 1..Len(pipe[s]) : q[front + i] = pipe[s][i]
    BY <1>1, UnderWayParts DEF UnderWay
  <2>3. /\ p \in Seq(Lines) /\ Len(p) = front + (Len(pipe[s]) + 1)
        /\ \A i \in 1..front : p[i] = (output \o channel)[i]
        /\ \A i \in 1..(Len(pipe[s]) + 1) : p[front + i] = Append(pipe[s], line)[i]
    BY <1>1, <1>5, UnderWayParts
  <2> HIDE DEF q, p, front, last
  <2>4. ASSUME NEW i \in 1..Len(q) PROVE p[i] = q[i]
    <3>1. CASE i <= front
      <4>1. i \in 1..front
        BY <1>5, <2>2, <3>1
      <4> QED BY <2>2, <2>3, <4>1
    <3>2. CASE i > front
      <4> DEFINE k == i - front
      <4>1. k \in 1..Len(pipe[s]) /\ i = front + k
        BY <1>5, <2>2, <3>2
      <4> HIDE DEF k
      <4>2. k \in 1..(Len(pipe[s]) + 1)
        BY <1>5, <4>1
      <4> QED BY <1>5, <2>2, <2>3, <4>1, <4>2
    <3> QED BY <1>5, <2>2, <3>1, <3>2
  <2>5. Len(p) = Len(q) + 1 /\ p[Len(q) + 1] = line
    <3>1. Len(pipe[s]) + 1 \in 1..(Len(pipe[s]) + 1)
      BY <1>5
    <3>2. p[front + (Len(pipe[s]) + 1)] = line
      BY <1>5, <2>3, <3>1
    <3>3. front + (Len(pipe[s]) + 1) = Len(q) + 1
      BY <1>5, <2>2
    <3> QED BY <2>3, <3>2, <3>3
  <2>6. Unbroken(q, s, last) /\ (Len(output) < MaxOutput => \A n \in 1..last : Has(q, s, n))
    BY DEF LinesInv, Skipless, q, last
  <2>7. /\ Unbroken(p, s, last + 1)
        /\ (\A n \in 1..last : Has(q, s, n)) => \A n \in 1..(last + 1) : Has(p, s, n)
    BY <1>1, <1>4, <2>2, <2>3, <2>4, <2>5, <2>6, LineAdded
  <2> QED BY <1>2, <1>3, <2>1, <2>6, <2>7 DEF Skipless
<1>7. ASSUME NEW t \in Streams, t # s PROVE Skipless(t)'
  <2>1. pipe'[t] = pipe[t]
    BY <1>1, <1>2, <1>7
  <2>2. UnderWay(t)' = UnderWay(t)
    BY <1>2, <2>1 DEF UnderWay
  <2> QED BY <1>2, <1>3, <1>7, <2>2 DEF LinesInv, Skipless
<1>8. OwnPipes'
  <2>1. ASSUME NEW t \in Streams, NEW i \in 1..Len(pipe'[t]) PROVE pipe'[t][i].stream = t
    <3>1. CASE t = s
      BY <1>1, <1>2, <1>4, <1>5, <2>1, <3>1 DEF LinesInv, OwnPipes
    <3>2. CASE t # s
      BY <1>1, <1>2, <2>1, <3>2 DEF LinesInv, OwnPipes
    <3> QED BY <3>1, <3>2
  <2> QED BY <2>1 DEF OwnPipes
<1> QED BY <1>6, <1>7, <1>8 DEF LinesInv

\* A line that is handed over stays at its place among those of its stream, and comes in
\* between those of the other (spawn_reader).
LEMMA HandedOver ==
  ASSUME ProcessTyped, LinesInv, NEW s \in Streams, pipe[s] # <<>>,
         channel' = Append(channel, Head(pipe[s])), pipe' = [pipe EXCEPT ![s] = Tail(@)],
         UNCHANGED <<output, child>>
  PROVE  LinesInv'
<1> DEFINE line == Head(pipe[s])
           front == Len(output) + Len(channel)
           longer == Append(channel, line)
<1>1. /\ output \in Seq(Lines) /\ channel \in Seq(Lines) /\ pipe \in [Streams -> Seq(Lines)]
      /\ \A t \in Streams : pipe[t] \in Seq(Lines) /\ child.printed[t] \in Nat
  BY DEF ProcessTyped
<1>2. /\ line \in Lines /\ Tail(pipe[s]) \in Seq(Lines) /\ Len(pipe[s]) \in Nat
      /\ Len(pipe[s]) >= 1 /\ Len(Tail(pipe[s])) = Len(pipe[s]) - 1 /\ line = pipe[s][1]
      /\ \A i \in 1..Len(Tail(pipe[s])) : Tail(pipe[s])[i] = pipe[s][i + 1]
  <2> DEFINE own == pipe[s]
  <2>1. own \in Seq(Lines) /\ own # <<>>
    BY <1>1
  <2> HIDE DEF own
  <2>2. /\ Head(own) \in Lines /\ Tail(own) \in Seq(Lines) /\ Len(own) \in Nat
        /\ Len(own) >= 1 /\ Len(Tail(own)) = Len(own) - 1 /\ Head(own) = own[1]
        /\ \A i \in 1..Len(Tail(own)) : Tail(own)[i] = own[i + 1]
    BY <2>1
  <2> QED BY <2>2 DEF own
<1>3. line.stream = s
  <2>1. 1 \in 1..Len(pipe[s])
    BY <1>2
  <2> QED BY <1>2, <2>1 DEF LinesInv, OwnPipes
<1> HIDE DEF line
<1>4. /\ longer \in Seq(Lines) /\ Len(longer) = Len(channel) + 1
      /\ Len(output) \in Nat /\ Len(channel) \in Nat /\ front \in Nat
      /\ \A i \in 1..Len(channel) : longer[i] = channel[i]
      /\ longer[Len(channel) + 1] = line
  BY <1>1, <1>2
<1>5. channel' = longer
  BY DEF line
<1> HIDE DEF longer
\* The front of what is under way is longer by the line.
<1>6. /\ Len(output \o longer) = front + 1
      /\ \A i \in 1..front : (output \o longer)[i] = (output \o channel)[i]
      /\ (output \o longer)[front + 1] = line
  <2>1. /\ Len(output \o longer) = Len(output) + Len(longer)
        /\ \A i \in 1..Len(output) : (output \o longer)[i] = output[i]
        /\ \A i \in 1..Len(longer) : (output \o longer)[Len(output) + i] = longer[i]
    BY <1>1, <1>4, Joined
  <2>2. /\ \A i \in 1..Len(output) : (output \o channel)[i] = output[i]
        /\ \A i \in 1..Len(channel) : (output \o channel)[Len(output) + i] = channel[i]
    BY <1>1, Joined
  <2>3. ASSUME NEW i \in 1..front PROVE (output \o longer)[i] = (output \o channel)[i]
    <3>1. CASE i <= Len(output)
      <4>1. i \in 1..Len(output)
        BY <1>4, <3>1
      <4> QED BY <2>1, <2>2, <4>1
    <3>2. CASE i > Len(output)
      <4> DEFINE k == i - Len(output)
      <4>1. k \in 1..Len(channel) /\ i = Len(output) + k
        BY <1>4, <3>2
      <4> HIDE DEF k
      <4>2. k \in 1..Len(longer)
        BY <1>4, <4>1
      <4> QED BY <1>4, <2>1, <2>2, <4>1, <4>2
    <3> QED BY <1>4, <3>1, <3>2
  <2>4. (output \o longer)[front + 1] = line
    <3>1. Len(longer) \in 1..Len(longer) /\ Len(output) + Len(longer) = front + 1
      BY <1>4
    <3> QED BY <1>4, <2>1, <3>1
  <2>5. Len(output \o longer) = front + 1
    BY <1>4, <2>1
  <2> QED BY <2>3, <2>4, <2>5
<1>7. Skipless(s)'
  <2> DEFINE q == UnderWay(s)
             p == output \o longer \o Tail(pipe[s])
  <2>1. UnderWay(s)' = p
    BY <1>1, <1>5 DEF UnderWay
  <2>2. /\ q \in Seq(Lines) /\ Len(q) = front + Len(pipe[s])
        /\ \A i \in 1..front : q[i] = (output \o channel)[i]
        /\ \A i \in 1..Len(pipe[s]) : q[front + i] = pipe[s][i]
    BY <1>1, UnderWayParts DEF UnderWay
  <2>3. /\ p \in Seq(Lines) /\ Len(p) = (front + 1) + Len(Tail(pipe[s]))
        /\ \A i \in 1..(front + 1) : p[i] = (output \o longer)[i]
        /\ \A i \in 1..Len(Tail(pipe[s])) : p[(front + 1) + i] = Tail(pipe[s])[i]
    <3>1. Len(output) + Len(longer) = front + 1
      BY <1>4
    <3> HIDE DEF front
    <3>2. /\ p \in Seq(Lines) /\ Len(p) = (Len(output) + Len(longer)) + Len(Tail(pipe[s]))
          /\ \A i \in 1..(Len(output) + Len(longer)) : p[i] = (output \o longer)[i]
          /\ \A i \in 1..Len(Tail(pipe[s])) :
               p[(Len(output) + Len(longer)) + i] = Tail(pipe[s])[i]
      <4>1. output \in Seq(Lines) /\ longer \in Seq(Lines) /\ Tail(pipe[s]) \in Seq(Lines)
        BY <1>1, <1>2, <1>4
      <4> QED BY <4>1, UnderWayParts
    <3> QED BY <3>1, <3>2
  <2> HIDE DEF q, p, front
  <2>4. ASSUME NEW i \in 1..Len(q) PROVE p[i] = q[i]
    <3>1. CASE i <= front
      <4>1. i \in 1..front /\ i \in 1..(front + 1)
        BY <1>4, <3>1
      <4> QED BY <1>6, <2>2, <2>3, <4>1
    <3>2. CASE i = front + 1
      <4>1. 1 \in 1..Len(pipe[s]) /\ front + 1 \in 1..(front + 1)
        BY <1>2, <1>4
      <4> QED BY <1>2, <1>6, <2>2, <2>3, <3>2, <4>1
    <3>3. CASE i > front + 1
      <4> DEFINE k == i - (front + 1)
      <4>1. k \in 1..Len(Tail(pipe[s])) /\ i = (front + 1) + k
        BY <1>2, <1>4, <2>2, <3>3
      <4> HIDE DEF k
      <4>2. k + 1 \in 1..Len(pipe[s]) /\ i = front + (k + 1)
        BY <1>2, <1>4, <4>1
      <4>3. p[i] = pipe[s][k + 1]
        BY <1>2, <2>3, <4>1
      <4>4. q[i] = pipe[s][k + 1]
        BY <2>2, <4>2
      <4> QED BY <4>3, <4>4
    <3> QED BY <1>2, <1>4, <2>2, <3>1, <3>2, <3>3
  <2>5. Len(p) = Len(q)
    <3>1. /\ Len(q) = front + Len(pipe[s]) /\ Len(p) = (front + 1) + Len(Tail(pipe[s]))
          /\ Len(Tail(pipe[s])) = Len(pipe[s]) - 1 /\ front \in Nat /\ Len(pipe[s]) \in Nat
      BY <1>2, <1>4, <2>2, <2>3
    <3>2. \A f, n \in Nat : (f + 1) + (n - 1) = f + n
      OBVIOUS
    <3> QED BY <3>1, <3>2, Zenon
  <2>6. p = q
    BY <2>2, <2>3, <2>4, <2>5, SameLines
  <2> QED BY <2>1, <2>6 DEF LinesInv, Skipless, q
<1>8. ASSUME NEW t \in Streams, t # s PROVE Skipless(t)'
  <2> DEFINE q == UnderWay(t)
             p == output \o longer \o pipe[t]
             last == child.printed[t]
  <2>0. pipe[t] \in Seq(Lines) /\ Len(pipe[t]) \in Nat /\ last \in Nat
    BY <1>1
  <2>1. UnderWay(t)' = p
    BY <1>1, <1>5, <1>8 DEF UnderWay
  <2>2. /\ q \in Seq(Lines) /\ Len(q) = front + Len(pipe[t])
        /\ \A i \in 1..front : q[i] = (output \o channel)[i]
        /\ \A i \in 1..Len(pipe[t]) : q[front + i] = pipe[t][i]
    BY <1>1, UnderWayParts DEF UnderWay
  <2>3. /\ p \in Seq(Lines) /\ Len(p) = (front + 1) + Len(pipe[t])
        /\ \A i \in 1..(front + 1) : p[i] = (output \o longer)[i]
        /\ \A i \in 1..Len(pipe[t]) : p[(front + 1) + i] = pipe[t][i]
    <3>1. Len(output) + Len(longer) = front + 1
      BY <1>4
    <3> HIDE DEF front
    <3>2. /\ p \in Seq(Lines) /\ Len(p) = (Len(output) + Len(longer)) + Len(pipe[t])
          /\ \A i \in 1..(Len(output) + Len(longer)) : p[i] = (output \o longer)[i]
          /\ \A i \in 1..Len(pipe[t]) : p[(Len(output) + Len(longer)) + i] = pipe[t][i]
      <4>1. output \in Seq(Lines) /\ longer \in Seq(Lines) /\ pipe[t] \in Seq(Lines)
        BY <1>1, <1>4
      <4> QED BY <4>1, UnderWayParts
    <3> QED BY <3>1, <3>2
  <2> HIDE DEF q, p, front, last
  <2>4. ASSUME NEW i \in 1..front PROVE p[i] = q[i]
    <3>1. i \in 1..(front + 1)
      BY <1>4
    <3> QED BY <1>6, <2>2, <2>3, <3>1
  <2>5. p[front + 1].stream # s \/ p[front + 1] = line
    <3>1. front + 1 \in 1..(front + 1)
      BY <1>4
    <3> QED BY <1>6, <2>3, <3>1
  <2>6. ASSUME NEW i \in (front + 1)..Len(q) PROVE p[i + 1] = q[i]
    <3> DEFINE k == i - front
    <3>1. k \in 1..Len(pipe[t]) /\ i = front + k /\ i + 1 = (front + 1) + k
      BY <1>4, <2>0, <2>2
    <3> HIDE DEF k
    <3> QED BY <2>2, <2>3, <3>1
  <2>7. p[front + 1].stream # t
    <3>1. front + 1 \in 1..(front + 1)
      BY <1>4
    <3> QED BY <1>3, <1>6, <1>8, <2>3, <3>1
  <2>8. front \in 0..Len(q) /\ Len(p) = Len(q) + 1
    <3>1. /\ Len(q) = front + Len(pipe[t]) /\ Len(p) = (front + 1) + Len(pipe[t])
          /\ front \in Nat /\ Len(pipe[t]) \in Nat
      BY <1>4, <2>0, <2>2, <2>3
    <3>2. \A f, n \in Nat : (f + 1) + n = (f + n) + 1 /\ f \in 0..(f + n)
      OBVIOUS
    <3> QED BY <3>1, <3>2, Zenon
  <2>9. Unbroken(q, t, last) /\ (Len(output) < MaxOutput => \A n \in 1..last : Has(q, t, n))
    BY DEF LinesInv, Skipless, q, last
  <2>10. Unbroken(p, t, last) /\ \A n : Has(q, t, n) => Has(p, t, n)
    BY <2>0, <2>2, <2>3, <2>4, <2>6, <2>7, <2>8, <2>9, OtherLine
  <2> QED BY <2>1, <2>9, <2>10 DEF Skipless, last
<1>9. OwnPipes'
  <2>1. ASSUME NEW t \in Streams, NEW i \in 1..Len(pipe'[t]) PROVE pipe'[t][i].stream = t
    <3>1. CASE t = s
      <4>1. pipe'[t] = Tail(pipe[s])
        BY <1>1, <3>1
      <4>2. i \in 1..Len(Tail(pipe[s])) /\ i + 1 \in 1..Len(pipe[s])
        <5>1. i \in 1..Len(Tail(pipe[s]))
          BY <2>1, <4>1
        <5>2. Len(Tail(pipe[s])) = Len(pipe[s]) - 1 /\ Len(pipe[s]) \in Nat
          BY <1>2
        <5> QED BY <5>1, <5>2
      <4> QED BY <1>2, <3>1, <4>1, <4>2 DEF LinesInv, OwnPipes
    <3>2. CASE t # s
      BY <1>1, <2>1, <3>2 DEF LinesInv, OwnPipes
    <3> QED BY <3>1, <3>2
  <2> QED BY <2>1 DEF OwnPipes
<1> QED BY <1>7, <1>8, <1>9 DEF LinesInv

LEMMA LinesInitial == Init => LinesInv
<1> SUFFICES ASSUME Init PROVE LinesInv
  OBVIOUS
<1>1. /\ output = <<>> /\ channel = <<>> /\ pipe = [s \in Streams |-> <<>>]
      /\ \A s \in Streams : child.printed[s] = 0
  BY DEF Init, NoChild
<1>2. ASSUME NEW s \in Streams PROVE Skipless(s)
  <2>1. UnderWay(s) = <<>>
    BY <1>1 DEF UnderWay
  <2>2. Of(<<>>, s) = {}
    BY DEF Of
  <2> QED BY <1>1, <2>1, <2>2 DEF Skipless, Unbroken
<1>3. OwnPipes
  BY <1>1 DEF OwnPipes
<1> QED BY <1>2, <1>3 DEF LinesInv

LEMMA LinesStep == LauncherInv /\ LinesInv /\ [Next]_vars => LinesInv'
<1> SUFFICES ASSUME LauncherInv, LinesInv, [Next]_vars PROVE LinesInv'
  OBVIOUS
<1>0. ProcessTyped
  BY DEF LauncherInv, TypeOK
<1>1. CASE Frame
  <2>1. UNCHANGED <<pipe, child>> /\ (Polled \/ UNCHANGED <<output, channel>>)
    BY <1>1 DEF Frame
  <2> QED BY <1>0, <2>1, PolledLines, LinesLeft
<1>2. CASE Start
  <2>1. \/ Spawned
        \/ UNCHANGED <<pipe, child>> /\ (Polled \/ UNCHANGED <<output, channel>>)
    BY <1>2, Zenon DEF Start
  <2> QED BY <1>0, <2>1, SpawnedLines, PolledLines, LinesLeft
<1>3. CASE Stop \/ Close \/ Saved \/ Die
  <2>1. Stopped \/ UNCHANGED processVars
    BY <1>3, Zenon DEF Stop, Close, Saved, Die, Ended
  <2> QED BY <2>1, StoppedLines, LinesLeft DEF processVars
<1>4. CASE Launch \/ Touch \/ UNCHANGED vars
  BY <1>4, LinesLeft DEF Launch, Touch, vars, processVars
<1>5. ASSUME NEW s \in Streams, Read(s) PROVE LinesInv'
  <2>1. CASE UNCHANGED <<channel, pipe>>
    BY <1>5, <2>1, LinesLeft DEF Read
  <2>2. CASE /\ pipe[s] # <<>>
             /\ channel' = Append(channel, Head(pipe[s]))
             /\ pipe' = [pipe EXCEPT ![s] = Tail(@)]
    BY <1>0, <1>5, <2>2, HandedOver DEF Read
  <2> QED BY <1>5, <2>1, <2>2 DEF Read
<1>6. ASSUME NEW s \in Streams, PrintLine(s) PROVE LinesInv'
  BY <1>0, <1>6, PrintLines
<1>7. ASSUME NEW success \in BOOLEAN, Exit(success) PROVE LinesInv'
  <2>1. \E end \in {"exited", "failed"} : child' = [child EXCEPT !.is = end]
    BY <1>7 DEF Exit
  <2>2. child'.printed = child.printed
    BY <2>1
  <2> QED BY <1>7, <2>2, LinesLeft DEF Exit
<1> QED BY <1>1, <1>2, <1>3, <1>4, <1>5, <1>6, <1>7, Zenon DEF Next, Reading

\* Every line a child prints is in its pipe, in the channel or in the trace, in the order it
\* was printed in, but for the oldest of a full trace: for every length of the trace, and
\* whenever the child ends or is polled (spawn_reader, poll_output).
THEOREM LinesKept == Spec => []NothingSkipped
<1>1. LinesInv => NothingSkipped
  BY DEF LinesInv, Skipless, UnderWay, NothingSkipped
<1> QED BY <1>1, Invariant, LinesInitial, LinesStep, PTL DEF Spec
=============================================================================
