----------------------------- MODULE Emulation ------------------------------
(***************************************************************************)
(* Runs of the emulator inside a host application: run_embedded and its    *)
(* guards (src/src/embedded.rs), the registries through which a run's      *)
(* devices find their links (embedded_cdc.rs, embedded_ecu_io.rs), the     *)
(* emulation loop with its process-wide flags (src/src/emulator.rs,        *)
(* system.rs), and the flash contents that outlive a run.                  *)
(*                                                                         *)
(* Worker threads of the host call run_embedded; a run is the thread's     *)
(* `at' going through the function.  The clock counts halfwords.           *)
(***************************************************************************)
EXTENDS Flash, FiniteSets

CONSTANTS
  Threads,        (* of the host                                           *)
  Links,          (* link objects it has, of each kind                     *)
  Budgets,        (* max_instructions it passes; NoBudget for none         *)
  Words,          (* words the firmware programs                           *)
  Registers,      (* sector register values it erases                      *)
  MaxClock,       (* bound: halfwords counted in a run                     *)
  MaxOps,         (* bound: flash operations                               *)
  MaxRuns,        (* bound: calls of run_embedded                          *)
  MaxDeaths       (* bound: times the host process dies                    *)

NoLink == "no link"
NoBudget == 0
Kinds == {"cdc", "ecu"}

ASSUME EmulationAssumption ==
  /\ NoLink \notin Links /\ Budgets \subseteq Nat /\ Erased \notin Words
  /\ Registers \subseteq 0..31
  /\ {MaxClock, MaxOps, MaxRuns, MaxDeaths} \subseteq Nat

VARIABLES
  exercises,                      \* what the host and the firmware use: "links" or "flash"
  at,                             \* where each thread is
  given, device,                  \* links given to its run, links its devices have
  budget, result,                 \* of its run
  embedded_running, stop_requested, continue_execution, busy_loop, clock,  \* the statics
  pending, active,                \* PENDING_DEVICE_LINK and ACTIVE_HOST_LINK, by kind
  returned,                       \* how emu_start returned
  cpu_error,                      \* a CPU error has happened in this run
  flash, file, committed,         \* memory, backing file, contents last persisted
  runs, ops, deaths

runVars == <<at, given, device, budget, result>>
flagVars == <<embedded_running, stop_requested, continue_execution, busy_loop, clock>>
registryVars == <<pending, active>>
flashVars == <<flash, file, committed>>
tallyVars == <<runs, ops, deaths>>
vars == <<exercises, runVars, flagVars, registryVars, returned, cpu_error, flashVars, tallyVars>>

NoLinks == [kind \in Kinds |-> NoLink]
Go(t, place) == at' = [at EXCEPT ![t] = place]

Init ==
  /\ exercises \in {"links", "flash"}
  /\ at = [t \in Threads |-> "idle"] /\ given = [t \in Threads |-> NoLinks]
  /\ device = [t \in Threads |-> NoLinks] /\ budget = [t \in Threads |-> NoBudget]
  /\ result = [t \in Threads |-> "none"]
  /\ embedded_running = FALSE /\ stop_requested = FALSE /\ continue_execution = FALSE
  /\ busy_loop = FALSE /\ clock = 0
  /\ pending = NoLinks /\ active = NoLinks
  /\ returned = "none" /\ cpu_error = FALSE
  /\ flash = FlashInit /\ file = [is |-> "absent", contents |-> KeptRange(FlashInit)]
  /\ committed = KeptRange(FlashInit)
  /\ runs = 0 /\ ops = 0 /\ deaths = 0

-----------------------------------------------------------------------------
(* run_embedded around the emulator.                                        *)

\* compare_exchange finds the flag set.
Refused == embedded_running

\* EmbeddedRunGuard::acquire; a second run is refused.
RunEmbedded(t) ==
  /\ at[t] = "idle" /\ runs < MaxRuns /\ runs' = runs + 1
  /\ \E links \in [Kinds -> IF exercises = "links" THEN Links \cup {NoLink} ELSE {NoLink}],
        b \in IF exercises = "links" THEN Budgets ELSE {NoBudget} :
       IF Refused
       THEN /\ result' = [result EXCEPT ![t] = "refused"]
            /\ UNCHANGED <<at, given, budget, embedded_running>>
       ELSE /\ embedded_running' = TRUE /\ Go(t, "configuring")
            /\ given' = [given EXCEPT ![t] = links] /\ budget' = [budget EXCEPT ![t] = b]
            /\ result' = [result EXCEPT ![t] = "none"]
  /\ UNCHANGED <<exercises, device, stop_requested, continue_execution, busy_loop, clock, registryVars,
                 returned, cpu_error, flashVars, ops, deaths>>

\* The config and the SVD are read; then install_embedded_link, for the links given.
Configure(t) ==
  LET installed(registry) ==
        [kind \in Kinds |-> IF given[t][kind] # NoLink THEN given[t][kind] ELSE registry[kind]]
  IN  /\ at[t] = "configuring"
      /\ \/ /\ Go(t, "starting")
            /\ pending' = installed(pending) /\ active' = installed(active)
            /\ UNCHANGED result
         \/ /\ Go(t, "releasing") /\ result' = [result EXCEPT ![t] = "error"]
            /\ UNCHANGED registryVars
      /\ UNCHANGED <<exercises, given, device, budget, flagVars, returned, cpu_error, flashVars, tallyVars>>

\* The stores at the top of run_emulator.
ResetFlags(t) ==
  /\ at[t] = "starting" /\ Go(t, "preparing")
  /\ clock' = 0 /\ continue_execution' = FALSE /\ busy_loop' = FALSE
  /\ stop_requested' = FALSE
  /\ cpu_error' = FALSE /\ returned' = "none"
  /\ UNCHANGED <<exercises, given, device, budget, result, embedded_running, registryVars, flashVars,
                 tallyVars>>

\* load_persistent accepts the file, or there is none.
Loadable == file.is # "torn"

\* prepare: memory is filled and the range loaded, then the devices that are configured
\* take their pending links; without a link a device binds its port, which may fail.
Prepare(t) ==
  /\ at[t] = "preparing"
  /\ \/ /\ ~Loadable
        /\ flash' = FlashInit /\ Go(t, "clearing")
        /\ result' = [result EXCEPT ![t] = "error"]
        /\ UNCHANGED <<device, pending>>
     \/ /\ Loadable
        /\ flash' = IF file.is = "absent" THEN FlashInit ELSE LoadRange(FlashInit, file.contents)
        /\ \E configured \in SUBSET Kinds :
             /\ device' = [device EXCEPT ![t] =
                  [kind \in Kinds |-> IF kind \in configured THEN pending[kind] ELSE NoLink]]
             /\ pending' = [kind \in Kinds |->
                  IF kind \in configured THEN NoLink ELSE pending[kind]]
             /\ \/ Go(t, "looping") /\ UNCHANGED result
                \/ /\ \E kind \in configured : pending[kind] = NoLink
                   /\ Go(t, "clearing") /\ result' = [result EXCEPT ![t] = "error"]
  /\ UNCHANGED <<exercises, given, budget, flagVars, active, returned, cpu_error, file, committed,
                 tallyVars>>

\* clear_embedded_link that leaves the pending link.
ClearedActiveOnly(t, registry, which) ==
  [kind \in Kinds |-> IF which = "active" /\ registry[kind] = given[t][kind]
                      THEN NoLink ELSE registry[kind]]

\* clear_embedded_link: of a registry, the links that are this run's.
Cleared(t, registry, which) ==
  [kind \in Kinds |-> IF registry[kind] = given[t][kind] THEN NoLink ELSE registry[kind]]

\* The devices and the link guards are dropped.
ClearLinks(t) ==
  /\ at[t] = "clearing" /\ Go(t, "releasing")
  /\ active' = Cleared(t, active, "active") /\ pending' = Cleared(t, pending, "pending")
  /\ device' = [device EXCEPT ![t] = NoLinks]
  /\ UNCHANGED <<exercises, given, budget, result, flagVars, returned, cpu_error, flashVars, tallyVars>>

\* EmbeddedRunGuard is dropped last.
Release(t) ==
  /\ at[t] = "releasing" /\ Go(t, "idle")
  /\ embedded_running' = FALSE
  /\ given' = [given EXCEPT ![t] = NoLinks] /\ cpu_error' = FALSE
  /\ UNCHANGED <<exercises, device, budget, result, stop_requested, continue_execution, busy_loop, clock,
                 registryVars, returned, flashVars, tallyVars>>

-----------------------------------------------------------------------------
(* The emulation loop.                                                      *)

End(t, how) == Go(t, "clearing") /\ result' = [result EXCEPT ![t] = how]

\* The top of the loop: what is left of the budget.  A negative rest panics in a build with
\* overflow checks; in another it is a budget that is never used up.
LoopTop(t) ==
  /\ at[t] = "looping"
  /\ \/ /\ budget[t] # NoBudget /\ clock = budget[t]
        /\ End(t, "ok") /\ UNCHANGED budget
     \/ /\ budget[t] # NoBudget /\ clock > budget[t]
        /\ \/ End(t, "panic") /\ UNCHANGED budget
           \/ Go(t, "emulating") /\ budget' = [budget EXCEPT ![t] = NoBudget] /\ UNCHANGED result
     \/ /\ budget[t] = NoBudget \/ clock < budget[t]
        /\ Go(t, "emulating") /\ UNCHANGED <<budget, result>>
  /\ returned' = "none"
  /\ UNCHANGED <<exercises, given, device, flagVars, registryVars, cpu_error, flashVars, tallyVars>>

\* The block hook counts a block; a short block that follows itself ends the run if asked.
Block(t, halfwords) ==
  /\ at[t] = "emulating" /\ budget[t] # NoBudget /\ clock + halfwords <= MaxClock
  /\ clock' = clock + halfwords
  /\ \/ UNCHANGED <<at, busy_loop, returned>>
     \/ Go(t, "returned") /\ busy_loop' = TRUE /\ returned' = "ok"
  /\ UNCHANGED <<exercises, given, device, budget, result, embedded_running, stop_requested,
                 continue_execution, registryVars, cpu_error, flashVars, tallyVars>>

\* emu_start returns: an interrupt is dispatched, the stop address or the budget is reached,
\* the window is closed, memory is not mapped, or the CPU fails.
EmuReturns(t, how) ==
  /\ at[t] = "emulating" /\ Go(t, "returned")
  /\ returned' = how
  /\ how = "counted" => budget[t] # NoBudget /\ clock >= budget[t]
  /\ stop_requested' = (stop_requested \/ how = "quit")
  /\ continue_execution' = (continue_execution \/ how = "unmapped")
  /\ cpu_error' = (cpu_error \/ how = "failed")
  /\ UNCHANGED <<exercises, given, device, budget, result, embedded_running, busy_loop, clock,
                 registryVars, flashVars, tallyVars>>

\* A loop that does not take the flag back.
ContinueAfterKept(flag) == flag

\* CONTINUE_EXECUTION.swap
ContinueAfter(flag) == FALSE

\* A loop that looks for a stop only when emu_start fails.
StopSeenOnError == stop_requested /\ returned \in {"unmapped", "failed"}

\* The loop's first look after emu_start.
StopSeen == stop_requested

\* After emu_start: the checks of the loop in their order.
AfterEmu(t) ==
  LET error == returned \in {"unmapped", "failed"}
  IN  /\ at[t] = "returned"
      /\ \/ StopSeen /\ End(t, "ok") /\ UNCHANGED continue_execution
         \/ /\ ~StopSeen /\ error
            /\ IF continue_execution THEN Go(t, "looping") /\ UNCHANGED result ELSE End(t, "error")
            /\ continue_execution' = ContinueAfter(continue_execution)
         \/ /\ ~StopSeen /\ ~error
            /\ IF returned = "stop_addr" \/ busy_loop THEN End(t, "ok")
               ELSE Go(t, "looping") /\ UNCHANGED result
            /\ UNCHANGED continue_execution
      /\ UNCHANGED <<exercises, given, device, budget, embedded_running, stop_requested, busy_loop, clock,
                     registryVars, returned, cpu_error, flashVars, tallyVars>>

\* The host asks for a stop, from any thread and at any time.
RequestStop ==
  /\ stop_requested' = TRUE
  /\ UNCHANGED <<exercises, runVars, embedded_running, continue_execution, busy_loop, clock, registryVars,
                 returned, cpu_error, flashVars, tallyVars>>

-----------------------------------------------------------------------------
(* The firmware and its flash.                                              *)

\* A key, an erase, or a word.
FlashOp(t) ==
  /\ exercises = "flash" /\ at[t] = "emulating" /\ ops < MaxOps /\ ops' = ops + 1
  /\ \/ \E key \in {1, 2} : flash' = WriteKey(flash, key)
     \/ \E register \in Registers : flash' = StartErase(flash, register)
     \/ \E k \in Places, word \in Words : flash' = Program(flash, k, word)
  /\ UNCHANGED <<exercises, runVars, flagVars, registryVars, returned, cpu_error, file, committed, runs,
                 deaths>>

\* write_control with LOCK on an unlocked flash: persist creates the file, empty, or
\* fails to, which sets OPERR.
FlashLock(t) ==
  /\ at[t] = "emulating" /\ ~flash.locked
  /\ \/ /\ flash' = [flash EXCEPT !.locked = TRUE]
        /\ Go(t, "persisting")
        /\ file' = [file EXCEPT !.is = "torn"]
     \/ /\ flash' = [flash EXCEPT !.locked = TRUE, !.operr = TRUE]
        /\ UNCHANGED <<at, file>>
  /\ UNCHANGED <<exercises, given, device, budget, result, flagVars, registryVars, returned, cpu_error,
                 committed, tallyVars>>

\* A persist that writes what the alias holds.
PersistedAlias == [k \in Persistent |-> flash.alias[k]]

\* What persist writes.
Persisted == KeptRange(flash)

\* The rest of persist: the bytes are written, or not all of them; an error in that or in
\* the sync that follows sets OPERR.
FlashWrite(t) ==
  /\ at[t] = "persisting" /\ Go(t, "emulating")
  /\ \/ /\ file' = [is |-> "whole", contents |-> Persisted] /\ committed' = KeptRange(flash)
        /\ UNCHANGED flash \/ flash' = [flash EXCEPT !.operr = TRUE]
     \/ flash' = [flash EXCEPT !.operr = TRUE] /\ UNCHANGED <<file, committed>>
  /\ UNCHANGED <<exercises, given, device, budget, result, flagVars, registryVars, returned, cpu_error,
                 tallyVars>>

\* The host process dies and is started again; only the file is left.
Die ==
  /\ deaths < MaxDeaths /\ deaths' = deaths + 1
  /\ at' = [t \in Threads |-> "idle"] /\ given' = [t \in Threads |-> NoLinks]
  /\ device' = [t \in Threads |-> NoLinks] /\ budget' = [t \in Threads |-> NoBudget]
  /\ result' = [t \in Threads |-> "none"]
  /\ embedded_running' = FALSE /\ stop_requested' = FALSE /\ continue_execution' = FALSE
  /\ busy_loop' = FALSE /\ clock' = 0
  /\ pending' = NoLinks /\ active' = NoLinks
  /\ returned' = "none" /\ cpu_error' = FALSE
  /\ flash' = FlashInit
  /\ UNCHANGED <<exercises, file, committed, runs, ops>>

Returns == {"interrupt", "stop_addr", "counted", "quit", "unmapped", "failed"}

Run(t) ==
  \/ Configure(t) \/ ResetFlags(t) \/ Prepare(t) \/ ClearLinks(t) \/ Release(t)
  \/ LoopTop(t) \/ AfterEmu(t) \/ FlashWrite(t)

Next ==
  \/ \E t \in Threads :
       \/ RunEmbedded(t) \/ Run(t) \/ FlashOp(t) \/ FlashLock(t)
       \/ \E halfwords \in 1..2 : Block(t, halfwords)
       \/ \E how \in Returns : EmuReturns(t, how)
  \/ RequestStop \/ Die

Spec == Init /\ [][Next]_vars

\* A run goes on, and the firmware's timer keeps interrupting it.
FairSpec ==
  /\ Spec
  /\ \A t \in Threads : WF_vars(Run(t)) /\ WF_vars(EmuReturns(t, "interrupt"))

-----------------------------------------------------------------------------
Stations ==
  {"idle", "configuring", "starting", "preparing", "looping", "emulating", "returned",
   "persisting", "clearing", "releasing"}
Registry == [Kinds -> Links \cup {NoLink}]
Memory == [Places -> Words \cup {Erased}]
Contents == [Persistent -> Words \cup {Erased}]

FlashState ==
  [main : Memory, alias : Memory, locked : BOOLEAN, key_stage : 0..1, operr : BOOLEAN]

RunsTyped ==
  /\ at \in [Threads -> Stations]
  /\ given \in [Threads -> Registry] /\ device \in [Threads -> Registry]
  /\ budget \in [Threads -> Nat]
  /\ result \in [Threads -> {"none", "refused", "ok", "error", "panic"}]
  /\ pending \in Registry /\ active \in Registry
FlagsTyped ==
  /\ embedded_running \in BOOLEAN /\ stop_requested \in BOOLEAN
  /\ continue_execution \in BOOLEAN /\ busy_loop \in BOOLEAN /\ cpu_error \in BOOLEAN
  /\ clock \in 0..MaxClock
  /\ returned \in Returns \cup {"none", "ok"}
  /\ exercises \in {"links", "flash"}
  /\ runs \in Nat /\ ops \in Nat /\ deaths \in Nat
FlashTyped ==
  /\ flash \in FlashState
  /\ file \in [is : {"absent", "torn", "whole"}, contents : Contents]
  /\ committed \in Contents
TypeOK == RunsTyped /\ FlagsTyped /\ FlashTyped

Holding == {t \in Threads : at[t] # "idle"}

\* One run at a time; its devices hold no link but its own, also when an earlier run left
\* its link unclaimed; while it loops the host finds the links it gave it; and nothing is
\* registered when none runs (EmbeddedRunGuard, take_pending_device_link,
\* active_embedded_link, clear_embedded_link).
OwnLinks ==
  /\ Cardinality(Holding) <= 1
  /\ \A t \in Holding, kind \in Kinds : device[t][kind] \in {NoLink, given[t][kind]}
  /\ \A t \in Holding : at[t] \notin {"configuring", "releasing"} => active = given[t]
  /\ Holding = {} => active = NoLinks /\ pending = NoLinks

\* A run that ends as if nothing was wrong had no CPU error, unless a stop was asked for:
\* an earlier access to unmapped memory never makes one be passed over (the loop's use of
\* CONTINUE_EXECUTION).
ErrorReported ==
  \A t \in Holding :
    cpu_error /\ ~stop_requested => at[t] = "returned" \/ result[t] = "error"

\* A run starts with what the firmware last locked away, in the alias too, and never with
\* part of it: a file cut short by a death or an error stops it from starting (persist,
\* load_persistent).
Recovered ==
  \A t \in Holding :
    at[t] = "looping" /\ returned = "none" =>
      \A k \in Persistent : flash.main[k] = committed[k] /\ flash.alias[k] = committed[k]

\* An erase changes one sector, as the reference manual places them, and all of it; and
\* only with the flash unlocked (write_control, sector_range, erase_sector).
EraseStep ==
  LET wiped == {k \in Places : flash.main[k] # Erased /\ flash'.main[k] = Erased}
      emulating == \E t \in Threads : at[t] = "emulating" /\ at'[t] = "emulating"
  IN  emulating /\ wiped # {} =>
        /\ ~flash.locked
        /\ \A j \in wiped, k \in Places :
             flash'.main[k] = Erased <=> SectorOf(j) = SectorOf(k) \/ flash.main[k] = Erased
EraseExact == [][EraseStep]_vars

\* A stop that is requested once the flags are reset, while the run is prepared or loops,
\* ends the run, as long as interrupts are dispatched: only emu_start's return makes the
\* loop look (request_stop, the loop).  One requested before the reset is forgotten.
StopHonoured ==
  \A t \in Threads :
    stop_requested /\ at[t] \in {"preparing", "looping", "emulating", "persisting", "returned"}
      ~> at[t] \in {"clearing", "idle"}
=============================================================================
