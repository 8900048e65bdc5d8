------------------------------ MODULE Launcher ------------------------------
(***************************************************************************)
(* The native launcher (src/src/bin/stm32-launcher.rs, src/src/launcher/): *)
(* a window whose frames poll a child emulator and react to one click      *)
(* each, reader threads that carry the child's output, and the workspace   *)
(* file the settings are kept in between runs of the launcher.             *)
(*                                                                         *)
(* A path is the name of the file it points to, or None.  The number       *)
(* fields of the manual form and the port are "ok", "bad" or "", the empty *)
(* text that App::new replaces.  Output lines are numbered per stream.     *)
(***************************************************************************)
EXTENDS Integers, Sequences

CONSTANTS
  MaxOutput,      (* MAX_OUTPUT_LINES                                      *)
  MaxPrints,      (* bound: lines a child prints on a stream               *)
  MaxChildren,    (* bound: children spawned                               *)
  MaxEdits,       (* bound: edits of the settings, files that come or go   *)
  MaxLaunches     (* bound: times the launcher is started again            *)

ASSUME LauncherAssumption ==
  MaxOutput \in Nat \ {0} /\ {MaxPrints, MaxChildren, MaxEdits, MaxLaunches} \subseteq Nat

VARIABLES
  app,            \* App: what the panels edit, the status and the error
  child,          \* the process: id (0: none), how it is, what it printed
  pipe, channel, output,  \* lines in its pipes, in the mpsc channel, shown
  readers,        \* streams whose reader thread has not ended
  files,          \* files the user's paths point to that exist
  workspace,      \* workspace.yaml: absent, torn, or whole with the settings in it
  up,             \* is the launcher running: "up", "saving" or "down"
  closed,         \* settings shown when the launcher was last closed in order
  kept,           \* settings shown at the last save that succeeded
  lost,           \* since the last close, has its save or a load failed
  orphans,        \* children that nobody holds, left running
  edits, spawned, launches

processVars == <<child, pipe, channel, output, readers>>
storeVars == <<workspace, closed, kept, lost>>
vars == <<app, processVars, files, storeVars, up, orphans, edits, spawned, launches>>

None == "none"
Streams == {"stdout", "stderr"}
Files == {"firmware.bin", "chip.svd", "emulator"}
Statuses == {"Idle", "Running", "Halted", "Crashed"}
Texts == {"ok", "bad", ""}

NoChild == [id |-> 0, is |-> None, printed |-> [s \in Streams |-> 0]]

\* SavedLauncherState::default
DefaultSettings ==
  [firmware |-> None, svd |-> None, emulator_executable |-> None, selected_variant |-> None,
   manual |-> FALSE, manual_svd |-> None, addresses |-> "", port |-> ""]

-----------------------------------------------------------------------------
(* The settings, and what they amount to.                                   *)

\* App::new: empty texts become the defaults.
NewApp(saved) ==
  [settings |-> [saved EXCEPT !.addresses = IF @ = "" THEN "ok" ELSE @,
                              !.port = IF @ = "" THEN "ok" ELSE @],
   status |-> "Idle", last_error |-> FALSE]

\* saved_state of before there was a port.
SavedStatePortless(a) == [a.settings EXCEPT !.port = ""]

\* saved_state
SavedState(a) == a.settings

\* The registry: the one variant with a profile, and one that is cataloged only.
Variants == {"proteus_f7", "cataloged"}
Supported(variant) == variant = "proteus_f7"

\* select_variant; the SVD it supposes is the repository's.
SelectVariant(a, variant) ==
  [a EXCEPT !.settings.manual = FALSE,
            !.settings.selected_variant = variant,
            !.settings.svd = IF Supported(variant) /\ @ = None THEN "chip.svd" ELSE @]

\* resolved_profile, for_variant, manual, parse_address and parse_port: is there a profile.
Resolves(a) ==
  LET s == a.settings
  IN  /\ s.firmware \in files
      /\ IF s.manual THEN s.manual_svd \in files /\ s.addresses = "ok"
         ELSE /\ s.selected_variant # None /\ Supported(s.selected_variant)
              /\ s.svd \in files
              /\ s.port = "ok"

\* A Run button that a running child does not disable.
CanRunAnyTime(a) ==
  /\ a.settings.firmware # None /\ a.settings.selected_variant # None
  /\ Resolves(a)

\* LauncherState::can_run and App::can_run.
CanRun(a) ==
  /\ a.settings.firmware # None /\ a.settings.selected_variant # None
  /\ a.status # "Running"
  /\ Resolves(a)

-----------------------------------------------------------------------------
(* The child's output.                                                      *)

\* A poll that lets new lines go when the trace is full.
KeptLinesOldest(lines) == SubSeq(lines, 1, IF Len(lines) < MaxOutput THEN Len(lines) ELSE MaxOutput)

\* poll_output: the oldest lines make room.
KeptLines(lines) ==
  SubSeq(lines, Len(lines) - (IF Len(lines) < MaxOutput THEN Len(lines) ELSE MaxOutput) + 1,
         Len(lines))

\* The child prints a line; it is in the pipe, which a reader holds open. (external: the
\* emulator)
PrintLine(s) ==
  /\ child.is = "running" /\ child.printed[s] < MaxPrints /\ s \in readers
  /\ child' = [child EXCEPT !.printed[s] = @ + 1]
  /\ pipe' = [pipe EXCEPT ![s] = Append(@, [stream |-> s, n |-> child.printed[s] + 1])]
  /\ UNCHANGED <<app, channel, output, readers, files, storeVars, up, orphans, edits, spawned,
                 launches>>

\* The child ends by itself. (external)
Exit(success) ==
  /\ child.is = "running"
  /\ child' = [child EXCEPT !.is = IF success THEN "exited" ELSE "failed"]
  /\ UNCHANGED <<app, pipe, channel, output, readers, files, storeVars, up, orphans, edits,
                 spawned, launches>>

\* A reader thread of spawn_reader takes a line, or sees the end or a line that is not UTF-8
\* and returns.
Read(s) ==
  /\ s \in readers
  /\ \/ /\ pipe[s] # <<>>
        /\ channel' = Append(channel, Head(pipe[s]))
        /\ pipe' = [pipe EXCEPT ![s] = Tail(@)]
        /\ UNCHANGED readers
     \/ /\ pipe[s] # <<>> \/ child.is # "running"
        /\ readers' = readers \ {s}
        /\ UNCHANGED <<channel, pipe>>
  /\ UNCHANGED <<app, child, output, files, storeVars, up, orphans, edits, spawned, launches>>

-----------------------------------------------------------------------------
(* A frame: refresh_process, then the panels with at most one click.        *)

\* A frame that takes any end of the child for a halt.
RefreshedAnyExit(a, fault) ==
  IF child.id = 0 THEN a
  ELSE IF child.is = "running" THEN a ELSE [a EXCEPT !.status = "Halted"]

\* refresh_process, when the status cannot be had (fault) and otherwise.
Refreshed(a, fault) ==
  CASE child.id = 0 -> a
    [] child.id # 0 /\ fault -> [a EXCEPT !.status = "Crashed", !.last_error = TRUE]
    [] child.id # 0 /\ ~fault /\ child.is = "running" -> a
    [] child.id # 0 /\ ~fault /\ child.is = "exited" -> [a EXCEPT !.status = "Halted"]
    [] child.id # 0 /\ ~fault /\ child.is = "failed" ->
         [a EXCEPT !.status = "Crashed", !.last_error = TRUE]

\* The checkbox of draw_firmware_panel clears the variant in every frame it is set.
FirmwarePanel(a) ==
  IF a.settings.manual THEN [a EXCEPT !.settings.selected_variant = None] ELSE a

\* A click or an edit in draw_firmware_panel or draw_configuration_panel.
Edits(a) ==
  [settings : {[a.settings EXCEPT !.firmware = "firmware.bin"],
               [a.settings EXCEPT !.emulator_executable = "emulator"],
               [a.settings EXCEPT !.manual = ~@]}
              \cup (IF a.settings.manual
                    THEN {[a.settings EXCEPT !.manual_svd = "chip.svd"]}
                         \cup {[a.settings EXCEPT !.addresses = t] : t \in Texts}
                    ELSE {[a.settings EXCEPT !.svd = "chip.svd"]}
                         \cup {[a.settings EXCEPT !.port = t] : t \in Texts}),
   status : {a.status}, last_error : {a.last_error}]
  \cup (IF a.settings.manual THEN {} ELSE {SelectVariant(a, v) : v \in Variants})

\* What poll_output leaves of the output.
Polled ==
  /\ output' = KeptLines(output \o channel)
  /\ channel' = <<>>

\* What a wait or a kill of the child may do: fail, as long as the child runs.
Failing == {FALSE, child.is = "running"}

\* A frame without Run or Stop.
Frame ==
  /\ up = "up"
  /\ \E fault \in Failing :
       LET a == Refreshed(app, fault)
       IN  \/ app' = FirmwarePanel(a) /\ UNCHANGED edits
           \/ /\ edits < MaxEdits /\ edits' = edits + 1
              /\ \E edited \in Edits(a) : app' = FirmwarePanel(edited)
  /\ IF child.id = 0 THEN UNCHANGED <<output, channel>> ELSE Polled
  /\ UNCHANGED <<child, pipe, readers, files, storeVars, up, orphans, spawned, launches>>

\* The child of another start, with its pipes and its readers.
Spawned ==
  /\ spawned' = spawned + 1
  /\ child' = [NoChild EXCEPT !.id = spawned + 1, !.is = "running"]
  /\ pipe' = [s \in Streams |-> <<>>] /\ channel' = <<>> /\ output' = <<>>
  /\ readers' = Streams

\* The RunningEmulator and its config are gone.
Stopped ==
  /\ child' = NoChild
  /\ pipe' = [s \in Streams |-> <<>>] /\ channel' = <<>> /\ output' = <<>>
  /\ readers' = {}

\* The process a handle was for is killed, or goes on without it.
Left(alive) == orphans' = IF alive THEN orphans \cup {child.id} ELSE orphans

\* A RunningEmulator is dropped: that stops its child, and nobody hears if it cannot.
Dropped == \E alive \in Failing : Left(alive)

\* Run is clicked: start().  The button was enabled when it was pressed and is now.  The
\* executable is the one chosen, or the launcher's sibling; its spawn may fail, and the
\* config written for it goes with it.
Start ==
  \E fault \in Failing :
  LET a == FirmwarePanel(Refreshed(app, fault))
      executable == \/ app.settings.emulator_executable = None
                    \/ app.settings.emulator_executable \in files
  IN  /\ up = "up" /\ CanRun(app) /\ CanRun(a)
      /\ \/ /\ executable /\ spawned < MaxChildren
            /\ app' = [a EXCEPT !.status = "Running", !.last_error = FALSE]
            /\ Spawned
            /\ Dropped
         \/ /\ app' = [a EXCEPT !.last_error = TRUE]
            /\ IF child.id = 0 THEN UNCHANGED <<output, channel>> ELSE Polled
            /\ UNCHANGED <<child, pipe, readers, spawned, orphans>>
      /\ UNCHANGED <<files, storeVars, up, edits, launches>>

\* Stop is clicked: stop().  When it fails its error is shown, and the drop tries once more.
Stop ==
  /\ up = "up"
  /\ \E fault, failed \in Failing :
       LET a == FirmwarePanel(Refreshed(app, fault))
       IN  app' = [a EXCEPT !.status = "Halted", !.last_error = @ \/ failed]
           /\ \E alive \in {FALSE, failed} : Left(alive)
  /\ Stopped
  /\ UNCHANGED <<files, storeVars, up, edits, spawned, launches>>

-----------------------------------------------------------------------------
(* The launcher's own life.                                                 *)

\* The launcher ends; its window's state goes, and with it the RunningEmulator.
Ended == up' = "down" /\ Dropped /\ Stopped

\* CloseRequested: save() truncates the file, or cannot open it; nobody looks at its result.
Close ==
  /\ up = "up"
  /\ closed' = app.settings /\ lost' = TRUE
  /\ \/ /\ workspace' = [is |-> "torn", state |-> SavedState(app)]
        /\ up' = "saving"
        /\ UNCHANGED <<processVars, orphans>>
     \/ UNCHANGED workspace /\ Ended
  /\ UNCHANGED <<app, files, kept, edits, spawned, launches>>

\* The rest of the save: it writes the file, or some of it.
Saved ==
  /\ up = "saving"
  /\ \/ /\ workspace' = [is |-> "whole", state |-> SavedState(app)]
        /\ kept' = app.settings /\ lost' = FALSE
     \/ UNCHANGED <<workspace, kept, lost>>
  /\ Ended
  /\ UNCHANGED <<app, files, closed, edits, spawned, launches>>

\* The launcher panics or is killed; its child may run on.
Die ==
  /\ up # "down" /\ Ended
  /\ UNCHANGED <<app, files, storeVars, edits, spawned, launches>>

\* What may be read of a file that was not written to its end: all of it, but for the end of
\* its last texts, which the parser takes for whole, or nothing.  A port that is missing is
\* "", any other missing field spoils the file.
Cuts(state) ==
  {[state EXCEPT !.port = t] : t \in Texts}
  \cup {[state EXCEPT !.addresses = t, !.port = ""] : t \in Texts}

\* WorkspaceStore::load.
Load ==
  CASE workspace.is = "whole"  -> {workspace.state}
    [] workspace.is = "torn"   -> {DefaultSettings} \cup Cuts(workspace.state)
    [] workspace.is = "absent" -> {DefaultSettings}

\* main; a load that fails is the default.
Launch ==
  /\ up = "down" /\ launches < MaxLaunches
  /\ up' = "up" /\ launches' = launches + 1
  /\ \/ \E saved \in Load : app' = NewApp(saved) /\ UNCHANGED lost
     \/ app' = NewApp(DefaultSettings) /\ lost' = TRUE
  /\ UNCHANGED <<processVars, files, workspace, closed, kept, orphans, edits, spawned>>

\* Files come and go under the launcher.
Touch ==
  /\ edits < MaxEdits /\ edits' = edits + 1
  /\ \E f \in Files : files' = IF f \in files THEN files \ {f} ELSE files \cup {f}
  /\ UNCHANGED <<app, processVars, storeVars, up, orphans, spawned, launches>>

Init ==
  /\ app = NewApp(DefaultSettings)
  /\ child = NoChild
  /\ pipe = [s \in Streams |-> <<>>] /\ channel = <<>> /\ output = <<>>
  /\ readers = {}
  /\ files = Files /\ up = "up"
  /\ workspace = [is |-> "absent", state |-> DefaultSettings]
  /\ closed = DefaultSettings /\ kept = DefaultSettings /\ lost = FALSE
  /\ orphans = {} /\ edits = 0 /\ spawned = 0 /\ launches = 0

Reading == \E s \in Streams : Read(s)

Next ==
  \/ Frame \/ Start \/ Stop \/ Close \/ Saved \/ Die \/ Launch \/ Touch \/ Reading
  \/ \E s \in Streams : PrintLine(s)
  \/ \E success \in BOOLEAN : Exit(success)

Spec == Init /\ [][Next]_vars

-----------------------------------------------------------------------------
Paths == Files \cup {None}
Settings ==
  [firmware : Paths, svd : Paths, emulator_executable : Paths,
   selected_variant : Variants \cup {None}, manual : BOOLEAN, manual_svd : Paths,
   addresses : Texts, port : Texts]
Lines == [stream : Streams, n : Nat]

Apps == [settings : Settings, status : Statuses, last_error : BOOLEAN]
ProcessTyped ==
  /\ child \in [id : Nat, is : {None, "running", "exited", "failed"}, printed : [Streams -> Nat]]
  /\ pipe \in [Streams -> Seq(Lines)] /\ channel \in Seq(Lines)
  /\ output \in Seq(Lines) /\ Len(output) <= MaxOutput
  /\ readers \subseteq Streams
StoreTyped ==
  /\ files \subseteq Files /\ up \in {"up", "saving", "down"}
  /\ workspace \in [is : {"absent", "torn", "whole"}, state : Settings]
  /\ closed \in Settings /\ kept \in Settings /\ lost \in BOOLEAN
  /\ orphans \subseteq Nat /\ edits \in Nat /\ spawned \in Nat /\ launches \in Nat
TypeOK == app \in Apps /\ ProcessTyped /\ StoreTyped

\* A child goes on without a launcher that holds it only when the launcher ends, or when its
\* user has been shown an error: a stop that fails says so, and a start never replaces a
\* child that is taken to run, however often its state cannot be had (start, stop, drop,
\* can_run).
LossStep ==
  orphans' # orphans /\ up = "up" /\ up' = "up" => app.last_error \/ app'.last_error
LossShown == [][LossStep]_vars

\* Lines of a stream in a sequence of lines: they are in order, and of the lines printed
\* since one of them none is missing.
Of(lines, s) == {i \in DOMAIN lines : lines[i].stream = s}
Has(lines, s, n) == \E i \in Of(lines, s) : lines[i].n = n
Unbroken(lines, s, last) ==
  /\ \A i, j \in Of(lines, s) : i < j => lines[i].n < lines[j].n
  /\ \A i \in Of(lines, s) :
       lines[i].n <= last /\ \A n \in lines[i].n..last : Has(lines, s, n)

\* Every line is in the trace, in the channel or still to be read, in the order it was printed
\* in, also when the child ends before its lines are read, but for the oldest of a full trace
\* (spawn_reader, poll_output).  A reader that met a line it cannot decode reads no more.
NothingSkipped ==
  \A s \in Streams :
    LET all == output \o channel \o pipe[s]
        last == child.printed[s]
    IN  /\ Unbroken(all, s, last)
        /\ Len(output) < MaxOutput => \A n \in 1..last : Has(all, s, n)

\* A status that says a run is over tells how it ended: Crashed only with an error to show,
\* Running only while the launcher holds a child, and a child that it holds and that runs is
\* never said to be halted or idle (refresh_process, start, stop).
StatusTruthful ==
  /\ app.status = "Running" /\ up = "up" => child.id # 0
  /\ app.status = "Crashed" => app.last_error
  /\ app.status = "Halted" => child.is # "failed"
  /\ child.is = "running" /\ up = "up" => app.status \in {"Running", "Crashed"}

\* A launcher finds the settings it was last closed with, unless their save or a load failed
\* since; if that left no torn file it finds the ones saved before, or the defaults, and no
\* launcher starts with an empty text (CloseRequested, save, load, App::new).
RestoredStep ==
  launches' > launches =>
    /\ ~lost' => app'.settings = NewApp(closed).settings
    /\ workspace.is # "torn" =>
         app'.settings \in {NewApp(kept).settings, NewApp(DefaultSettings).settings}
    /\ app'.settings.port # "" /\ app'.settings.addresses # ""
Restored == [][RestoredStep]_vars

\* What docs/native-launcher.md says of a manual profile: one that is complete can be run.
ManualRuns ==
  up = "up" /\ app.settings.manual /\ Resolves(app) /\ app.status # "Running" => CanRun(app)
=============================================================================
