-------------------------- MODULE EmulationProofs ---------------------------
(***************************************************************************)
(* Runs inside a host application, for any threads, links, budgets, flash  *)
(* places, words, registers and bounds: one run at a time with its own     *)
(* links, no CPU error passed over, flash as it was last locked away, and  *)
(* erases that are exact.                                                  *)
(*                                                                         *)
(* The invariants follow a thread through run_embedded and say for every   *)
(* place what the process-wide state is (LinksInv, FaultsInv); FileInv     *)
(* ties the file to what was committed.  A thread that holds the run guard *)
(* is alone (Alone), so only its own steps and the host's disturb it.      *)
(***************************************************************************)
EXTENDS Emulation, FiniteSetTheorems, TLAPS

LEMMA Bounds == MaxClock \in Nat /\ MaxOps \in Nat /\ MaxRuns \in Nat /\ MaxDeaths \in Nat
  BY EmulationAssumption

-----------------------------------------------------------------------------
(* Types.                                                                   *)

LEMMA FlashInitTyped ==
  /\ FlashInit \in FlashState
  /\ KeptRange(FlashInit) \in Contents
  BY FlashAssumption DEF FlashInit, FlashState, AllErased, Memory, Contents, KeptRange


LEMMA TypeInit == Init => TypeOK
<1> SUFFICES ASSUME Init PROVE TypeOK
  OBVIOUS
<1>1. NoLinks \in Registry
  BY DEF NoLinks, Registry
<1>2. RunsTyped
  BY <1>1 DEF Init, RunsTyped, Stations, NoBudget
<1>3. FlagsTyped
  <2>1. /\ embedded_running \in BOOLEAN /\ stop_requested \in BOOLEAN
        /\ continue_execution \in BOOLEAN /\ busy_loop \in BOOLEAN /\ cpu_error \in BOOLEAN
    BY Zenon DEF Init
  <2>2. /\ clock \in 0..MaxClock /\ returned \in Returns \cup {"none", "ok"}
        /\ exercises \in {"links", "flash"} /\ runs \in Nat /\ ops \in Nat /\ deaths \in Nat
    BY Bounds, SMT DEF Init
  <2> QED BY <2>1, <2>2 DEF FlagsTyped
<1>4. FlashTyped
  BY FlashInitTyped DEF Init, FlashTyped
<1> QED BY <1>2, <1>3, <1>4 DEF TypeOK

LEMMA RunEmbeddedType == ASSUME TypeOK, NEW t \in Threads, RunEmbedded(t) PROVE TypeOK'
<1> USE DEF TypeOK
<1>1. PICK links \in [Kinds -> IF exercises = "links" THEN Links \cup {NoLink} ELSE {NoLink}],
           b \in IF exercises = "links" THEN Budgets ELSE {NoBudget} :
         IF Refused
         THEN /\ result' = [result EXCEPT ![t] = "refused"]
              /\ UNCHANGED <<at, given, budget, embedded_running>>
         ELSE /\ embedded_running' = TRUE /\ Go(t, "configuring")
              /\ given' = [given EXCEPT ![t] = links] /\ budget' = [budget EXCEPT ![t] = b]
              /\ result' = [result EXCEPT ![t] = "none"]
  BY DEF RunEmbedded
<1>2. links \in Registry /\ b \in Nat
  BY EmulationAssumption DEF Registry, NoBudget
<1>3. UNCHANGED <<device, pending, active>>
  BY DEF RunEmbedded, registryVars
<1>4. RunsTyped'
  <2>1. CASE Refused
    BY <1>1, <1>3, <2>1 DEF RunsTyped
  <2>2. CASE ~Refused
    BY <1>1, <1>2, <1>3, <2>2 DEF Go, Stations, RunsTyped
  <2> QED BY <2>1, <2>2
<1>5. FlagsTyped'
  <2>1. embedded_running' \in BOOLEAN
    BY <1>1 DEF FlagsTyped
  <2> QED BY <2>1 DEF RunEmbedded, FlagsTyped
<1>6. FlashTyped'
  BY DEF RunEmbedded, flashVars, FlashTyped
<1> QED BY <1>4, <1>5, <1>6

LEMMA ConfigureType == ASSUME TypeOK, NEW t \in Threads, Configure(t) PROVE TypeOK'
<1> USE DEF TypeOK
<1> DEFINE installed(registry) ==
      [kind \in Kinds |-> IF given[t][kind] # NoLink THEN given[t][kind] ELSE registry[kind]]
<1>1. given[t] \in Registry
  BY DEF RunsTyped
<1>2. \A registry \in Registry : installed(registry) \in Registry
  BY <1>1 DEF Registry
<1>3. /\ Go(t, "starting") \/ Go(t, "releasing")
      /\ pending' = pending \/ pending' = installed(pending)
      /\ active' = active \/ active' = installed(active)
      /\ result' = result \/ result' = [result EXCEPT ![t] = "error"]
      /\ UNCHANGED <<given, device, budget>>
  BY DEF Configure, registryVars
<1> HIDE DEF installed
<1>4. pending' \in Registry /\ active' \in Registry
  BY <1>2, <1>3 DEF RunsTyped
<1>5. RunsTyped'
  BY <1>3, <1>4 DEF RunsTyped, Go, Stations
<1>6. FlagsTyped' /\ FlashTyped'
  BY DEF Configure, FlagsTyped, FlashTyped, flagVars, flashVars, tallyVars
<1> QED BY <1>5, <1>6

LEMMA ResetFlagsType == ASSUME TypeOK, NEW t \in Threads, ResetFlags(t) PROVE TypeOK'
<1> USE DEF TypeOK
<1>1. RunsTyped'
  BY DEF ResetFlags, RunsTyped, Go, Stations, registryVars
<1>2. FlagsTyped'
  <2>1. /\ stop_requested' \in BOOLEAN /\ continue_execution' \in BOOLEAN
        /\ busy_loop' \in BOOLEAN /\ cpu_error' \in BOOLEAN
    BY Zenon DEF ResetFlags
  <2>2. clock' \in 0..MaxClock /\ returned' \in Returns \cup {"none", "ok"}
    BY Bounds, SMT DEF ResetFlags
  <2> QED BY <2>1, <2>2 DEF ResetFlags, FlagsTyped, tallyVars
<1>3. FlashTyped'
  BY DEF ResetFlags, FlashTyped, flashVars
<1> QED BY <1>1, <1>2, <1>3

\* What is loaded at a start is flash.
LEMMA LoadTyped ==
  ASSUME NEW contents \in Contents
  PROVE  /\ LoadRange(FlashInit, contents) \in FlashState
         /\ \A k \in Persistent :
              /\ LoadRange(FlashInit, contents).main[k] = contents[k]
              /\ LoadRange(FlashInit, contents).alias[k] = contents[k]
<1> DEFINE after == [k \in Places |-> IF k \in Persistent THEN contents[k] ELSE AllErased[k]]
<1>1. after \in Memory
  BY FlashAssumption DEF Memory, Contents, AllErased
<1>2. LoadRange(FlashInit, contents) =
        [main |-> after, alias |-> after, locked |-> TRUE, key_stage |-> 0, operr |-> FALSE]
  <2>1. FlashInit.main = AllErased /\ FlashInit.alias = AllErased
    BY DEF FlashInit
  <2>2. LoadRange(FlashInit, contents) = [FlashInit EXCEPT !.main = after, !.alias = after]
    BY <2>1 DEF LoadRange
  <2> QED BY <2>2 DEF FlashInit
<1>3. \A k \in Persistent : after[k] = contents[k]
  BY FlashAssumption
<1> HIDE DEF after
<1> QED BY <1>1, <1>2, <1>3 DEF FlashState

LEMMA PrepareType == ASSUME TypeOK, NEW t \in Threads, Prepare(t) PROVE TypeOK'
<1> USE DEF TypeOK
<1>1. CASE ~Loadable
  <2>1. FlashTyped'
    BY <1>1, FlashInitTyped DEF Prepare, FlashTyped
  <2>2. RunsTyped'
    BY <1>1 DEF Prepare, RunsTyped, Go, Stations
  <2>3. FlagsTyped'
    BY DEF Prepare, FlagsTyped, flagVars, tallyVars
  <2> QED BY <2>1, <2>2, <2>3
<1>2. CASE Loadable
  <2>1. FlashTyped'
    <3>1. file.contents \in Contents
      BY DEF FlashTyped
    <3>2. flash' \in FlashState
      BY <1>2, <3>1, FlashInitTyped, LoadTyped DEF Prepare
    <3> QED BY <3>2 DEF Prepare, FlashTyped
  <2>2. PICK configured \in SUBSET Kinds :
          /\ device' = [device EXCEPT ![t] =
               [kind \in Kinds |-> IF kind \in configured THEN pending[kind] ELSE NoLink]]
          /\ pending' = [kind \in Kinds |->
               IF kind \in configured THEN NoLink ELSE pending[kind]]
          /\ \/ Go(t, "looping") /\ UNCHANGED result
             \/ /\ \E kind \in configured : pending[kind] = NoLink
                /\ Go(t, "clearing") /\ result' = [result EXCEPT ![t] = "error"]
    BY <1>2 DEF Prepare
  <2>3. /\ [kind \in Kinds |-> IF kind \in configured THEN pending[kind] ELSE NoLink] \in Registry
        /\ pending' \in Registry
    BY <2>2 DEF RunsTyped, Registry
  <2>4. device' \in [Threads -> Registry]
    BY <2>2, <2>3 DEF RunsTyped
  <2>5. /\ at' \in [Threads -> Stations]
        /\ result' \in [Threads -> {"none", "refused", "ok", "error", "panic"}]
    BY <2>2 DEF RunsTyped, Go, Stations
  <2>6. RunsTyped'
    BY <2>3, <2>4, <2>5 DEF Prepare, RunsTyped
  <2>7. FlagsTyped'
    BY DEF Prepare, FlagsTyped, flagVars, tallyVars
  <2> QED BY <2>1, <2>6, <2>7
<1> QED BY <1>1, <1>2

LEMMA ClearedTyped ==
  ASSUME RunsTyped, NEW t \in Threads, NEW registry \in Registry, NEW which
  PROVE  Cleared(t, registry, which) \in Registry
  BY DEF Cleared, Registry

LEMMA ClearLinksType == ASSUME TypeOK, NEW t \in Threads, ClearLinks(t) PROVE TypeOK'
<1> USE DEF TypeOK
<1>1. NoLinks \in Registry
  BY DEF NoLinks, Registry
<1>2. active' \in Registry /\ pending' \in Registry
  BY ClearedTyped DEF ClearLinks, RunsTyped
<1>3. RunsTyped'
  BY <1>1, <1>2 DEF ClearLinks, RunsTyped, Go, Stations
<1>4. FlagsTyped' /\ FlashTyped'
  BY DEF ClearLinks, FlagsTyped, FlashTyped, flagVars, flashVars, tallyVars
<1> QED BY <1>3, <1>4

LEMMA ReleaseType == ASSUME TypeOK, NEW t \in Threads, Release(t) PROVE TypeOK'
<1> USE DEF TypeOK
<1>1. NoLinks \in Registry
  BY DEF NoLinks, Registry
<1>2. RunsTyped'
  BY <1>1 DEF Release, RunsTyped, Go, Stations, registryVars
<1>3. embedded_running' \in BOOLEAN /\ cpu_error' \in BOOLEAN
  BY Zenon DEF Release
<1>4. FlagsTyped'
  BY <1>3 DEF Release, FlagsTyped, tallyVars
<1>5. FlashTyped'
  BY DEF Release, FlashTyped, flashVars
<1> QED BY <1>2, <1>4, <1>5

LEMMA LoopTopType == ASSUME TypeOK, NEW t \in Threads, LoopTop(t) PROVE TypeOK'
<1> USE DEF TypeOK
<1>1. /\ Go(t, "clearing") \/ Go(t, "emulating")
      /\ result' = result \/ (\E how \in {"ok", "panic"} : result' = [result EXCEPT ![t] = how])
      /\ budget' = budget \/ budget' = [budget EXCEPT ![t] = NoBudget]
      /\ UNCHANGED <<given, device, pending, active>>
  BY DEF LoopTop, End, registryVars
<1>2. RunsTyped'
  BY <1>1 DEF RunsTyped, Go, Stations, NoBudget
<1>3. FlagsTyped' /\ FlashTyped'
  BY DEF LoopTop, FlagsTyped, FlashTyped, flagVars, flashVars, tallyVars
<1> QED BY <1>2, <1>3

LEMMA BlockType ==
  ASSUME TypeOK, NEW t \in Threads, NEW halfwords \in 1..2, Block(t, halfwords) PROVE TypeOK'
<1> USE DEF TypeOK
<1>1. RunsTyped'
  BY DEF Block, RunsTyped, Go, Stations, registryVars
<1>2. FlagsTyped'
  <2>1. clock' \in 0..MaxClock
    BY Bounds DEF Block, FlagsTyped
  <2>2. busy_loop' \in BOOLEAN /\ returned' \in Returns \cup {"none", "ok"}
    BY DEF Block, FlagsTyped
  <2> QED BY <2>1, <2>2 DEF Block, FlagsTyped, tallyVars
<1>3. FlashTyped'
  BY DEF Block, FlashTyped, flashVars
<1> QED BY <1>1, <1>2, <1>3

LEMMA EmuReturnsType ==
  ASSUME TypeOK, NEW t \in Threads, NEW how \in Returns, EmuReturns(t, how) PROVE TypeOK'
<1> USE DEF TypeOK
<1>1. RunsTyped'
  BY DEF EmuReturns, RunsTyped, Go, Stations, registryVars
<1>2. /\ stop_requested' \in BOOLEAN /\ continue_execution' \in BOOLEAN /\ cpu_error' \in BOOLEAN
  BY DEF EmuReturns
<1>3. FlagsTyped'
  BY <1>2 DEF EmuReturns, FlagsTyped, tallyVars
<1>4. FlashTyped'
  BY DEF EmuReturns, FlashTyped, flashVars
<1> QED BY <1>1, <1>3, <1>4

LEMMA AfterEmuType == ASSUME TypeOK, NEW t \in Threads, AfterEmu(t) PROVE TypeOK'
<1> USE DEF TypeOK
<1>1. /\ Go(t, "clearing") \/ Go(t, "looping")
      /\ result' = result \/ (\E how \in {"ok", "error"} : result' = [result EXCEPT ![t] = how])
      /\ UNCHANGED <<given, device, budget, pending, active>>
  BY DEF AfterEmu, End, registryVars
<1>2. RunsTyped'
  BY <1>1 DEF RunsTyped, Go, Stations
<1>3. continue_execution' \in BOOLEAN
  BY DEF AfterEmu, ContinueAfter, FlagsTyped
<1>4. FlagsTyped' /\ FlashTyped'
  BY <1>3 DEF AfterEmu, FlagsTyped, FlashTyped, flashVars, tallyVars
<1> QED BY <1>2, <1>4

\* Keys, erases and words keep flash what it is.
LEMMA WriteKeyTyped ==
  ASSUME NEW f \in FlashState, NEW key \in {1, 2}
  PROVE  WriteKey(f, key) \in FlashState /\ WriteKey(f, key).main = f.main
<1>1. \/ WriteKey(f, key) = [f EXCEPT !.key_stage = 1]
      \/ WriteKey(f, key) = [f EXCEPT !.key_stage = 0, !.locked = FALSE]
      \/ WriteKey(f, key) = [f EXCEPT !.key_stage = 0]
  BY DEF WriteKey
<1>2. CASE WriteKey(f, key) = [f EXCEPT !.key_stage = 1]
  BY <1>2 DEF FlashState
<1>3. CASE WriteKey(f, key) = [f EXCEPT !.key_stage = 0, !.locked = FALSE]
  <2> DEFINE g == [f EXCEPT !.key_stage = 0]
  <2>1. g \in FlashState /\ g.main = f.main
    BY DEF FlashState
  <2>2. WriteKey(f, key) = [g EXCEPT !.locked = FALSE]
    BY <1>3
  <2> HIDE DEF g
  <2>3. FALSE \in BOOLEAN
    OBVIOUS
  <2>4. [g EXCEPT !.locked = FALSE] \in FlashState /\ [g EXCEPT !.locked = FALSE].main = g.main
    BY <2>1, <2>3 DEF FlashState
  <2> QED BY <2>1, <2>2, <2>4
<1>4. CASE WriteKey(f, key) = [f EXCEPT !.key_stage = 0]
  BY <1>4 DEF FlashState
<1> QED BY <1>1, <1>2, <1>3, <1>4

LEMMA StartEraseTyped ==
  ASSUME NEW f \in FlashState, NEW register
  PROVE  /\ StartErase(f, register) \in FlashState
         /\ \/ StartErase(f, register).main = f.main
            \/ /\ ~f.locked
               /\ StartErase(f, register).main =
                    [k \in Places |-> IF k \in SectorRange(register) THEN Erased ELSE f.main[k]]
<1> DEFINE after(mem) == [k \in Places |-> IF k \in SectorRange(register) THEN Erased ELSE mem[k]]
<1>1. after(f.main) \in Memory /\ after(f.alias) \in Memory
  BY DEF FlashState, Memory
<1>2. \/ StartErase(f, register) = f
      \/ StartErase(f, register) = [f EXCEPT !.operr = TRUE]
      \/ ~f.locked /\ StartErase(f, register) = [f EXCEPT !.main = after(f.main), !.alias = after(f.alias)]
  BY DEF StartErase, EraseSector
<1> DEFINE m == after(f.main)
           a == after(f.alias)
<1> HIDE DEF m, a
<1>3. m \in Memory /\ a \in Memory
  BY <1>1 DEF m, a
<1>4. \/ StartErase(f, register) = f
      \/ StartErase(f, register) = [f EXCEPT !.operr = TRUE]
      \/ ~f.locked /\ StartErase(f, register) = [f EXCEPT !.main = m, !.alias = a]
  BY <1>2 DEF m, a
<1>5. StartErase(f, register) \in FlashState
      /\ (StartErase(f, register).main = f.main \/ (~f.locked /\ StartErase(f, register).main = m))
  BY <1>3, <1>4 DEF FlashState
<1> QED BY <1>5 DEF m

LEMMA ProgramTyped ==
  ASSUME NEW f \in FlashState, NEW k \in Places, NEW word \in Words
  PROVE  /\ Program(f, k, word) \in FlashState
         /\ Program(f, k, word).main = [f.main EXCEPT ![k] = word]
<1> DEFINE m == [f.main EXCEPT ![k] = word]
<1>1. m \in Memory
  BY DEF FlashState, Memory
<1>2. Program(f, k, word) = [f EXCEPT !.main = m]
  BY DEF Program
<1> HIDE DEF m
<1>3. Program(f, k, word) \in FlashState /\ Program(f, k, word).main = m
  BY <1>1, <1>2 DEF FlashState
<1> QED BY <1>3 DEF m

LEMMA FlashOpType == ASSUME TypeOK, NEW t \in Threads, FlashOp(t) PROVE TypeOK'
<1> USE DEF TypeOK
<1>1. flash' \in FlashState
  <2>1. flash \in FlashState
    BY DEF FlashTyped
  <2>2. ASSUME NEW key \in {1, 2}, flash' = WriteKey(flash, key) PROVE flash' \in FlashState
    BY <2>1, <2>2, WriteKeyTyped
  <2>3. ASSUME NEW register \in Registers, flash' = StartErase(flash, register)
        PROVE  flash' \in FlashState
    BY <2>1, <2>3, StartEraseTyped
  <2>4. ASSUME NEW k \in Places, NEW word \in Words, flash' = Program(flash, k, word)
        PROVE  flash' \in FlashState
    BY <2>1, <2>4, ProgramTyped
  <2> QED BY <2>2, <2>3, <2>4 DEF FlashOp
<1>2. FlashTyped'
  BY <1>1 DEF FlashOp, FlashTyped
<1>3. RunsTyped'
  BY DEF FlashOp, RunsTyped, runVars, registryVars
<1>4. FlagsTyped'
  BY DEF FlashOp, FlagsTyped, flagVars
<1> QED BY <1>2, <1>3, <1>4

LEMMA FlashLockType == ASSUME TypeOK, NEW t \in Threads, FlashLock(t) PROVE TypeOK'
<1> USE DEF TypeOK
<1>1. /\ flash' \in FlashState
      /\ file' \in [is : {"absent", "torn", "whole"}, contents : Contents]
  BY DEF FlashLock, FlashTyped, FlashState
<1>2. FlashTyped'
  BY <1>1 DEF FlashLock, FlashTyped
<1>3. RunsTyped'
  BY DEF FlashLock, RunsTyped, registryVars, Go, Stations
<1>4. FlagsTyped'
  BY DEF FlashLock, FlagsTyped, flagVars, tallyVars
<1> QED BY <1>2, <1>3, <1>4

LEMMA KeptTyped == ASSUME FlashTyped PROVE KeptRange(flash) \in Contents
  BY FlashAssumption DEF FlashTyped, FlashState, Memory, KeptRange, Contents

LEMMA FlashWriteType == ASSUME TypeOK, NEW t \in Threads, FlashWrite(t) PROVE TypeOK'
<1> USE DEF TypeOK
<1>1. [flash EXCEPT !.operr = TRUE] \in FlashState
  BY DEF FlashTyped, FlashState
<1>2. FlashTyped'
  <2>1. CASE file' = [is |-> "whole", contents |-> Persisted] /\ committed' = KeptRange(flash)
             /\ (UNCHANGED flash \/ flash' = [flash EXCEPT !.operr = TRUE])
    <3>1. KeptRange(flash) \in Contents
      BY KeptTyped
    <3>2. flash' \in FlashState
      BY <1>1, <2>1 DEF FlashTyped
    <3> QED BY <2>1, <3>1, <3>2 DEF FlashTyped, Persisted
  <2>2. CASE flash' = [flash EXCEPT !.operr = TRUE] /\ UNCHANGED <<file, committed>>
    BY <1>1, <2>2 DEF FlashTyped
  <2> QED BY <2>1, <2>2 DEF FlashWrite
<1>3. RunsTyped'
  BY DEF FlashWrite, RunsTyped, registryVars, Go, Stations
<1>4. FlagsTyped'
  BY DEF FlashWrite, FlagsTyped, flagVars, tallyVars
<1> QED BY <1>2, <1>3, <1>4

LEMMA DieType == ASSUME TypeOK, Die PROVE TypeOK'
<1> USE DEF TypeOK
<1>1. NoLinks \in Registry
  BY DEF NoLinks, Registry
<1>2. RunsTyped'
  BY <1>1 DEF Die, RunsTyped, Stations, NoBudget
<1>3. FlagsTyped'
  <2>1. /\ embedded_running' \in BOOLEAN /\ stop_requested' \in BOOLEAN
        /\ continue_execution' \in BOOLEAN /\ busy_loop' \in BOOLEAN /\ cpu_error' \in BOOLEAN
    BY Zenon DEF Die
  <2>2. /\ clock' \in 0..MaxClock /\ returned' \in Returns \cup {"none", "ok"}
        /\ exercises' \in {"links", "flash"} /\ runs' \in Nat /\ ops' \in Nat /\ deaths' \in Nat
    BY Bounds, SMT DEF Die, FlagsTyped
  <2> QED BY <2>1, <2>2 DEF FlagsTyped
<1>4. FlashTyped'
  BY FlashInitTyped DEF Die, FlashTyped
<1> QED BY <1>2, <1>3, <1>4

LEMMA TypeNext == TypeOK /\ [Next]_vars => TypeOK'
<1> SUFFICES ASSUME TypeOK, [Next]_vars PROVE TypeOK'
  OBVIOUS
<1>1. ASSUME NEW t \in Threads, Run(t) PROVE TypeOK'
  BY <1>1, ConfigureType, ResetFlagsType, PrepareType, ClearLinksType, ReleaseType,
     LoopTopType, AfterEmuType, FlashWriteType DEF Run
<1>2. ASSUME NEW t \in Threads, RunEmbedded(t) \/ FlashOp(t) \/ FlashLock(t) PROVE TypeOK'
  BY <1>2, RunEmbeddedType, FlashOpType, FlashLockType
<1>3. ASSUME NEW t \in Threads, NEW halfwords \in 1..2, Block(t, halfwords) PROVE TypeOK'
  BY <1>3, BlockType
<1>4. ASSUME NEW t \in Threads, NEW how \in Returns, EmuReturns(t, how) PROVE TypeOK'
  BY <1>4, EmuReturnsType
<1>5. CASE RequestStop
  <2>1. stop_requested' \in BOOLEAN
    BY <1>5, Zenon DEF RequestStop
  <2> QED
    BY <1>5, <2>1 DEF RequestStop, TypeOK, RunsTyped, FlagsTyped, FlashTyped, runVars,
       registryVars, flashVars, tallyVars
<1>6. CASE Die
  BY <1>6, DieType
<1>7. CASE UNCHANGED vars
  BY <1>7 DEF vars, TypeOK, RunsTyped, FlagsTyped, FlashTyped, runVars, flagVars,
     registryVars, flashVars, tallyVars
<1> QED BY <1>1, <1>2, <1>3, <1>4, <1>5, <1>6, <1>7 DEF Next

\* The type invariant of the runs: registries hold links of the host, flash and file
\* what the firmware programmed.
THEOREM TypeCorrect == Spec => []TypeOK
  BY TypeInit, TypeNext, PTL DEF Spec
-----------------------------------------------------------------------------
(* The invariant.                                                           *)

\* One thread at most is in run_embedded, and the flag says whether one is.
Alone ==
  /\ \A t, u \in Threads : at[t] # "idle" /\ at[u] # "idle" => t = u
  /\ embedded_running <=> \E t \in Threads : at[t] # "idle"

\* Where a thread's run is between its links being installed and cleared.
Installed == {"starting", "preparing"}
Claimed == {"looping", "emulating", "returned", "persisting", "clearing"}

\* What is registered, by the place of the thread that runs.
Registered(t) ==
  /\ at[t] \in {"idle", "configuring", "releasing"} \cup Installed => device[t] = NoLinks
  /\ at[t] \in {"configuring", "releasing"} => active = NoLinks /\ pending = NoLinks
  /\ at[t] \in Installed => active = given[t] /\ pending = given[t]
  /\ at[t] \in Claimed =>
       /\ active = given[t]
       /\ \A kind \in Kinds : /\ device[t][kind] \in {NoLink, given[t][kind]}
                              /\ pending[kind] \in {NoLink, given[t][kind]}

LinksInv ==
  /\ \A t \in Threads : Registered(t)
  /\ ~embedded_running => active = NoLinks /\ pending = NoLinks

\* What CONTINUE_EXECUTION and a CPU error mean, by the place of the thread.
Faults(t) ==
  /\ at[t] \in {"configuring", "starting", "preparing", "looping", "emulating", "persisting"} =>
       ~cpu_error
  /\ at[t] \in {"preparing", "looping", "emulating", "persisting"} => ~continue_execution
  /\ at[t] = "returned" => /\ returned # "none"
                           /\ cpu_error => returned = "failed"
                           /\ continue_execution => returned = "unmapped"
  /\ at[t] \in {"clearing", "releasing"} /\ cpu_error => stop_requested \/ result[t] = "error"

FaultsInv ==
  /\ \A t \in Threads : Faults(t)
  /\ ~embedded_running => ~cpu_error

\* A file that is whole holds what was last committed; without one nothing was.
FileInv ==
  /\ file.is = "whole" => file.contents = committed
  /\ file.is = "absent" => committed = KeptRange(FlashInit)

-----------------------------------------------------------------------------
(* Who runs.                                                                *)

\* Between acquiring the guard and dropping it, nothing touches the guard.
Inside(t) ==
  \/ Configure(t) \/ ResetFlags(t) \/ Prepare(t) \/ ClearLinks(t) \/ LoopTop(t)
  \/ AfterEmu(t) \/ FlashWrite(t) \/ FlashOp(t) \/ FlashLock(t)
  \/ \E halfwords \in 1..2 : Block(t, halfwords)
  \/ \E how \in Returns : EmuReturns(t, how)

LEMMA NextCases ==
  Next <=> \/ \E t \in Threads : RunEmbedded(t) \/ Inside(t) \/ Release(t)
           \/ RequestStop \/ Die
  BY Zenon DEF Next, Run, Inside

LEMMA InsideStays ==
  ASSUME TypeOK, NEW t \in Threads, Inside(t)
  PROVE  /\ at[t] # "idle" /\ at'[t] # "idle"
         /\ \A u \in Threads \ {t} : at'[u] = at[u] /\ given'[u] = given[u]
                                     /\ device'[u] = device[u] /\ result'[u] = result[u]
         /\ given'[t] = given[t]
         /\ embedded_running' = embedded_running
<1>0. /\ at \in [Threads -> Stations] /\ given \in [Threads -> Registry]
      /\ device \in [Threads -> Registry] /\ DOMAIN result = Threads
  BY DEF TypeOK, RunsTyped
<1>1. CASE Configure(t)
  BY <1>0, <1>1 DEF Configure, Go, flagVars
<1>2. CASE ResetFlags(t)
  BY <1>0, <1>2 DEF ResetFlags, Go
<1>3. CASE Prepare(t)
  BY <1>0, <1>3 DEF Prepare, Go, flagVars
<1>4. CASE ClearLinks(t)
  BY <1>0, <1>4 DEF ClearLinks, Go, flagVars
<1>5. CASE LoopTop(t)
  BY <1>0, <1>5 DEF LoopTop, End, Go, flagVars
<1>6. CASE AfterEmu(t)
  BY <1>0, <1>6 DEF AfterEmu, End, Go
<1>7. CASE FlashWrite(t)
  BY <1>0, <1>7 DEF FlashWrite, Go, flagVars
<1>8. CASE FlashOp(t)
  BY <1>0, <1>8 DEF FlashOp, runVars, flagVars
<1>9. CASE FlashLock(t)
  BY <1>0, <1>9 DEF FlashLock, Go, flagVars
<1>10. ASSUME NEW halfwords \in 1..2, Block(t, halfwords)
       PROVE  /\ at[t] # "idle" /\ at'[t] # "idle"
              /\ \A u \in Threads \ {t} : at'[u] = at[u]
              /\ UNCHANGED <<given, device, result, embedded_running>>
  BY <1>0, <1>10 DEF Block, Go
<1>11. ASSUME NEW how \in Returns, EmuReturns(t, how)
       PROVE  /\ at[t] # "idle" /\ at'[t] # "idle"
              /\ \A u \in Threads \ {t} : at'[u] = at[u]
              /\ UNCHANGED <<given, device, result, embedded_running>>
  BY <1>0, <1>11 DEF EmuReturns, Go
<1> QED
  BY <1>1, <1>2, <1>3, <1>4, <1>5, <1>6, <1>7, <1>8, <1>9, <1>10, <1>11 DEF Inside

LEMMA AloneNext == TypeOK /\ Alone /\ [Next]_vars => Alone'
<1> SUFFICES ASSUME TypeOK, Alone, [Next]_vars PROVE Alone'
  OBVIOUS
<1>0. at \in [Threads -> Stations]
  BY DEF TypeOK, RunsTyped
<1>1. ASSUME NEW t \in Threads, RunEmbedded(t) PROVE Alone'
  <2>1. CASE Refused
    BY <1>1, <2>1 DEF RunEmbedded, Alone
  <2>2. CASE ~Refused
    <3>1. at' = [at EXCEPT ![t] = "configuring"] /\ embedded_running' = TRUE
      BY <1>1, <2>2 DEF RunEmbedded, Go
    <3>2. \A u \in Threads : at[u] = "idle"
      BY <2>2 DEF Refused, Alone
    <3> QED BY <1>0, <3>1, <3>2 DEF Alone
  <2> QED BY <2>1, <2>2
<1>2. ASSUME NEW t \in Threads, Inside(t) PROVE Alone'
  BY <1>2, InsideStays DEF Alone
<1>3. ASSUME NEW t \in Threads, Release(t) PROVE Alone'
  <2>1. at' = [at EXCEPT ![t] = "idle"] /\ embedded_running' = FALSE /\ at[t] = "releasing"
    BY <1>3 DEF Release, Go
  <2>2. \A u \in Threads : at'[u] = "idle"
    BY <1>0, <2>1 DEF Alone
  <2> QED BY <2>1, <2>2 DEF Alone
<1>4. CASE RequestStop
  BY <1>4 DEF RequestStop, runVars, Alone
<1>5. CASE Die
  BY <1>5 DEF Die, Alone
<1>6. CASE UNCHANGED vars
  BY <1>6 DEF vars, runVars, flagVars, Alone
<1> QED BY <1>1, <1>2, <1>3, <1>4, <1>5, <1>6, NextCases

-----------------------------------------------------------------------------
(* Links.                                                                   *)

\* A step inside the run leaves the other threads where they are, without links.
LEMMA OthersApart ==
  ASSUME TypeOK, Alone, NEW t \in Threads, Inside(t), NEW u \in Threads, u # t
  PROVE  at[u] = "idle" /\ at'[u] = "idle"
  BY InsideStays DEF Alone

LEMMA LinksInside ==
  ASSUME TypeOK, Alone, LinksInv, NEW t \in Threads, Inside(t)
  PROVE  LinksInv'
<1>0. /\ at \in [Threads -> Stations] /\ given \in [Threads -> Registry]
      /\ device \in [Threads -> Registry] /\ pending \in Registry /\ active \in Registry
      /\ given[t] \in Registry /\ Registered(t)
  BY DEF TypeOK, RunsTyped, LinksInv
<1>1. embedded_running' = embedded_running /\ embedded_running
  BY InsideStays DEF Alone
<1>2. \A u \in Threads \ {t} : Registered(u)'
  <2> SUFFICES ASSUME NEW u \in Threads \ {t} PROVE Registered(u)'
    OBVIOUS
  <2>1. at[u] = "idle" /\ at'[u] = "idle" /\ device'[u] = device[u]
    BY OthersApart, InsideStays
  <2>2. device[u] = NoLinks
    BY <2>1 DEF LinksInv, Registered
  <2> QED BY <2>1, <2>2 DEF Registered, Installed, Claimed
<1> SUFFICES Registered(t)'
  BY <1>1, <1>2 DEF LinksInv
<1>3. CASE Configure(t)
  <2> DEFINE installed(registry) ==
        [kind \in Kinds |-> IF given[t][kind] # NoLink THEN given[t][kind] ELSE registry[kind]]
  <2>1. at[t] = "configuring" /\ active = NoLinks /\ pending = NoLinks /\ device[t] = NoLinks
    BY <1>0, <1>3 DEF Configure, Registered
  <2>2. installed(NoLinks) = given[t]
    BY <1>0 DEF NoLinks, Registry
  <2>3. CASE Go(t, "starting") /\ pending' = installed(pending) /\ active' = installed(active)
    BY <1>0, <1>3, <2>1, <2>2, <2>3 DEF Configure, Go, Registered, Installed, Claimed
  <2>4. CASE Go(t, "releasing") /\ UNCHANGED registryVars
    BY <1>0, <1>3, <2>1, <2>4 DEF Configure, Go, Registered, Installed, Claimed, registryVars
  <2> QED BY <1>3, <2>3, <2>4 DEF Configure
<1>4. CASE ResetFlags(t)
  BY <1>0, <1>4 DEF ResetFlags, Go, Registered, Installed, Claimed, registryVars
<1>5. CASE Prepare(t)
  <2>1. at[t] = "preparing" /\ active = given[t] /\ pending = given[t] /\ device[t] = NoLinks
    BY <1>0, <1>5 DEF Prepare, Registered, Installed
  <2>2. at'[t] \in Claimed /\ given' = given /\ active' = active
    BY <1>0, <1>5 DEF Prepare, Go, Claimed
  <2>3. \A kind \in Kinds : /\ device'[t][kind] \in {NoLink, given[t][kind]}
                            /\ pending'[kind] \in {NoLink, given[t][kind]}
    <3>1. CASE UNCHANGED <<device, pending>>
      BY <2>1, <3>1 DEF NoLinks
    <3>2. ASSUME NEW configured \in SUBSET Kinds,
                 device' = [device EXCEPT ![t] =
                   [kind \in Kinds |-> IF kind \in configured THEN pending[kind] ELSE NoLink]],
                 pending' = [kind \in Kinds |->
                   IF kind \in configured THEN NoLink ELSE pending[kind]]
          PROVE  \A kind \in Kinds : /\ device'[t][kind] \in {NoLink, given[t][kind]}
                                     /\ pending'[kind] \in {NoLink, given[t][kind]}
      BY <1>0, <2>1, <3>2
    <3> QED BY <1>5, <3>1, <3>2 DEF Prepare
  <2> QED BY <2>1, <2>2, <2>3 DEF Registered, Installed, Claimed
<1>6. CASE ClearLinks(t)
  <2>1. at[t] = "clearing" /\ active = given[t]
        /\ \A kind \in Kinds : pending[kind] \in {NoLink, given[t][kind]}
    BY <1>0, <1>6 DEF ClearLinks, Registered, Claimed
  <2>2. Cleared(t, active, "active") = NoLinks /\ Cleared(t, pending, "pending") = NoLinks
    BY <2>1 DEF Cleared, NoLinks
  <2> QED BY <1>0, <1>6, <2>2 DEF ClearLinks, Go, Registered, Installed, Claimed
<1>7. ASSUME at[t] \in Claimed \ {"clearing"}, at'[t] \in Claimed,
             UNCHANGED <<given, device, pending, active>>
      PROVE  Registered(t)'
  BY <1>0, <1>7 DEF Registered, Claimed, Installed
<1>8. CASE LoopTop(t) \/ AfterEmu(t)
  BY <1>0, <1>7, <1>8 DEF LoopTop, AfterEmu, End, Go, Claimed, registryVars
<1>9. CASE FlashWrite(t) \/ FlashOp(t) \/ FlashLock(t)
  BY <1>0, <1>7, <1>9 DEF FlashWrite, FlashOp, FlashLock, Go, Claimed, registryVars, runVars
<1>10. ASSUME NEW halfwords \in 1..2, Block(t, halfwords) PROVE Registered(t)'
  BY <1>0, <1>7, <1>10 DEF Block, Go, Claimed, registryVars
<1>11. ASSUME NEW how \in Returns, EmuReturns(t, how) PROVE Registered(t)'
  BY <1>0, <1>7, <1>11 DEF EmuReturns, Go, Claimed, registryVars
<1> QED BY <1>3, <1>4, <1>5, <1>6, <1>8, <1>9, <1>10, <1>11 DEF Inside

LEMMA LinksNext == TypeOK /\ Alone /\ LinksInv /\ [Next]_vars => LinksInv'
<1> SUFFICES ASSUME TypeOK, Alone, LinksInv, [Next]_vars PROVE LinksInv'
  OBVIOUS
<1>0. /\ at \in [Threads -> Stations] /\ given \in [Threads -> Registry]
      /\ device \in [Threads -> Registry]
  BY DEF TypeOK, RunsTyped
<1>1. ASSUME NEW t \in Threads, RunEmbedded(t) PROVE LinksInv'
  <2>1. UNCHANGED <<device, pending, active>>
    BY <1>1 DEF RunEmbedded, registryVars
  <2>2. CASE Refused
    <3>1. UNCHANGED <<at, given, embedded_running>>
      BY <1>1, <2>2 DEF RunEmbedded
    <3> QED BY <2>1, <3>1 DEF LinksInv, Registered
  <2>3. CASE ~Refused
    <3>1. \A u \in Threads : at[u] = "idle" /\ device[u] = NoLinks
      BY <2>3 DEF Refused, Alone, LinksInv, Registered
    <3>2. active = NoLinks /\ pending = NoLinks
      BY <2>3 DEF Refused, LinksInv
    <3>3. embedded_running' /\ \A u \in Threads : at'[u] \in {"idle", "configuring"}
      BY <1>0, <1>1, <2>3, <3>1 DEF RunEmbedded, Go
    <3> QED BY <2>1, <3>1, <3>2, <3>3 DEF LinksInv, Registered, Installed, Claimed
  <2> QED BY <2>2, <2>3
<1>2. ASSUME NEW t \in Threads, Inside(t) PROVE LinksInv'
  BY <1>2, LinksInside
<1>3. ASSUME NEW t \in Threads, Release(t) PROVE LinksInv'
  <2>1. at[t] = "releasing" /\ at' = [at EXCEPT ![t] = "idle"] /\ UNCHANGED <<device, pending, active>>
    BY <1>3 DEF Release, Go, registryVars
  <2>2. \A u \in Threads : at'[u] = "idle" /\ device[u] = NoLinks
    BY <1>0, <2>1 DEF Alone, LinksInv, Registered
  <2>3. active = NoLinks /\ pending = NoLinks
    BY <2>1 DEF LinksInv, Registered
  <2> QED BY <2>1, <2>2, <2>3 DEF LinksInv, Registered, Installed, Claimed
<1>4. CASE RequestStop
  BY <1>4 DEF RequestStop, runVars, registryVars, LinksInv, Registered
<1>5. CASE Die
  BY <1>5 DEF Die, LinksInv, Registered, Installed, Claimed
<1>6. CASE UNCHANGED vars
  BY <1>6 DEF vars, runVars, flagVars, registryVars, LinksInv, Registered
<1> QED BY <1>1, <1>2, <1>3, <1>4, <1>5, <1>6, NextCases

LEMMA LinksInit == Init => Alone /\ LinksInv
  BY DEF Init, Alone, LinksInv, Registered, Installed, Claimed

LEMMA LinksFollow == TypeOK /\ Alone /\ LinksInv => OwnLinks
<1> SUFFICES ASSUME TypeOK, Alone, LinksInv PROVE OwnLinks
  OBVIOUS
<1>0. at \in [Threads -> Stations] /\ device \in [Threads -> Registry]
  BY DEF TypeOK, RunsTyped
<1>1. Cardinality(Holding) <= 1
  <2>1. CASE Holding = {}
    BY <2>1, FS_EmptySet
  <2>2. CASE Holding # {}
    <3>1. PICK t \in Holding : TRUE
      BY <2>2
    <3>2. Holding = {t}
      BY <3>1 DEF Holding, Alone
    <3>3. Cardinality({t}) = 1
      BY FS_Singleton, Zenon
    <3> QED BY <3>2, <3>3
  <2> QED BY <2>1, <2>2
<1>2. ASSUME NEW t \in Holding
      PROVE  /\ \A kind \in Kinds : device[t][kind] \in {NoLink, given[t][kind]}
             /\ at[t] \notin {"configuring", "releasing"} => active = given[t]
  <2>1. t \in Threads /\ Registered(t) /\ at[t] \in Stations \ {"idle"}
    BY <1>0 DEF Holding, LinksInv
  <2>2. CASE at[t] \in Claimed
    BY <2>1, <2>2 DEF Registered, Claimed
  <2>3. CASE at[t] \notin Claimed
    <3>1. at[t] \in {"configuring", "releasing"} \cup Installed
      BY <2>1, <2>3 DEF Claimed, Installed, Stations
    <3>2. device[t] = NoLinks
      BY <2>1, <3>1 DEF Registered
    <3> QED BY <2>1, <3>1, <3>2 DEF Registered, Installed, NoLinks
  <2> QED BY <2>2, <2>3
<1>3. Holding = {} => active = NoLinks /\ pending = NoLinks
  BY DEF Holding, Alone, LinksInv
<1> QED BY <1>1, <1>2, <1>3 DEF OwnLinks

\* One run at a time with its own links, however threads, stop requests, failed starts and
\* deaths interleave: an acquired EmbeddedRunGuard keeps every other thread out until the
\* link guards have cleared both registries (run_embedded, install_embedded_link,
\* take_pending_device_link, clear_embedded_link).
THEOREM LinksOwned == Spec => []OwnLinks
<1>1. TypeOK /\ Alone /\ LinksInv /\ [Next]_vars => (TypeOK /\ Alone /\ LinksInv)'
  BY TypeNext, AloneNext, LinksNext
<1> QED BY TypeInit, LinksInit, <1>1, LinksFollow, PTL DEF Spec

-----------------------------------------------------------------------------
(* CPU errors.                                                              *)

LEMMA FaultsInside ==
  ASSUME TypeOK, Alone, FaultsInv, NEW t \in Threads, Inside(t)
  PROVE  FaultsInv'
<1>0. /\ at \in [Threads -> Stations] /\ Faults(t)
      /\ result \in [Threads -> {"none", "refused", "ok", "error", "panic"}]
      /\ continue_execution \in BOOLEAN /\ cpu_error \in BOOLEAN
  BY DEF TypeOK, RunsTyped, FlagsTyped, FaultsInv
<1>1. embedded_running' = embedded_running /\ embedded_running
  BY InsideStays DEF Alone
<1>2. \A u \in Threads \ {t} : Faults(u)'
  BY OthersApart DEF Faults
<1> SUFFICES Faults(t)'
  BY <1>1, <1>2 DEF FaultsInv
<1>3. CASE Configure(t)
  <2>1. at[t] = "configuring" /\ UNCHANGED cpu_error /\ at'[t] \in {"starting", "releasing"}
    BY <1>0, <1>3 DEF Configure, Go
  <2> QED BY <1>0, <2>1 DEF Faults
<1>4. CASE ResetFlags(t)
  BY <1>0, <1>4 DEF ResetFlags, Go, Faults
<1>5. CASE Prepare(t)
  <2>1. at[t] = "preparing" /\ UNCHANGED <<cpu_error, continue_execution>>
        /\ at'[t] \in {"looping", "clearing"}
    BY <1>0, <1>5 DEF Prepare, Go, flagVars
  <2> QED BY <1>0, <2>1 DEF Faults
<1>6. CASE ClearLinks(t)
  BY <1>0, <1>6 DEF ClearLinks, Go, Faults, flagVars
<1>7. CASE LoopTop(t)
  <2>1. at[t] = "looping" /\ UNCHANGED <<cpu_error, continue_execution>>
        /\ at'[t] \in {"emulating", "clearing"}
    BY <1>0, <1>7 DEF LoopTop, End, Go, flagVars
  <2> QED BY <1>0, <2>1 DEF Faults
<1>8. CASE AfterEmu(t)
  <2>0. /\ at[t] = "returned" /\ UNCHANGED <<cpu_error, stop_requested>>
        /\ cpu_error => returned = "failed"
        /\ continue_execution => returned = "unmapped"
    BY <1>0, <1>8 DEF AfterEmu, Faults
  <2>1. CASE StopSeen
    <3>1. stop_requested /\ at'[t] = "clearing"
      BY <1>0, <1>8, <2>1 DEF AfterEmu, End, Go, StopSeen
    <3> QED BY <2>0, <3>1 DEF Faults
  <2>2. CASE ~StopSeen /\ returned \in {"unmapped", "failed"}
    <3>1. CASE continue_execution
      <4>1. at'[t] = "looping" /\ continue_execution' = FALSE
        BY <1>0, <1>8, <2>2, <3>1 DEF AfterEmu, End, Go, ContinueAfter
      <4>2. ~cpu_error
        BY <2>0, <3>1
      <4> QED BY <2>0, <4>1, <4>2 DEF Faults
    <3>2. CASE ~continue_execution
      <4>1. at'[t] = "clearing" /\ result'[t] = "error"
        BY <1>0, <1>8, <2>2, <3>2 DEF AfterEmu, End, Go
      <4> QED BY <4>1 DEF Faults
    <3> QED BY <3>1, <3>2
  <2>3. CASE ~StopSeen /\ returned \notin {"unmapped", "failed"}
    <3>1. ~cpu_error /\ ~continue_execution
      BY <2>0, <2>3
    <3>2. at'[t] \in {"clearing", "looping"} /\ UNCHANGED continue_execution
      BY <1>0, <1>8, <2>3 DEF AfterEmu, End, Go
    <3> QED BY <2>0, <3>1, <3>2 DEF Faults
  <2> QED BY <2>1, <2>2, <2>3
<1>9. CASE FlashWrite(t) \/ FlashOp(t) \/ FlashLock(t)
  <2>1. /\ at[t] \in {"emulating", "persisting"} /\ at'[t] \in {"emulating", "persisting"}
        /\ UNCHANGED <<cpu_error, continue_execution>>
    BY <1>0, <1>9 DEF FlashWrite, FlashOp, FlashLock, Go, flagVars, runVars
  <2> QED BY <1>0, <2>1 DEF Faults
<1>10. ASSUME NEW halfwords \in 1..2, Block(t, halfwords) PROVE Faults(t)'
  <2>1. /\ at[t] = "emulating" /\ UNCHANGED <<cpu_error, continue_execution>>
        /\ at'[t] = "emulating" \/ (at'[t] = "returned" /\ returned' = "ok")
    BY <1>0, <1>10 DEF Block, Go
  <2> QED BY <1>0, <2>1 DEF Faults
<1>11. ASSUME NEW how \in Returns, EmuReturns(t, how) PROVE Faults(t)'
  <2>1. /\ at[t] = "emulating" /\ at'[t] = "returned" /\ returned' = how
        /\ continue_execution' = (continue_execution \/ how = "unmapped")
        /\ cpu_error' = (cpu_error \/ how = "failed")
    BY <1>0, <1>11 DEF EmuReturns, Go
  <2>2. ~cpu_error /\ ~continue_execution /\ how # "none"
    BY <1>0, <2>1 DEF Faults, Returns
  <2> QED BY <2>1, <2>2 DEF Faults
<1> QED BY <1>3, <1>4, <1>5, <1>6, <1>7, <1>8, <1>9, <1>10, <1>11 DEF Inside

LEMMA FaultsNext == TypeOK /\ Alone /\ FaultsInv /\ [Next]_vars => FaultsInv'
<1> SUFFICES ASSUME TypeOK, Alone, FaultsInv, [Next]_vars PROVE FaultsInv'
  OBVIOUS
<1>0. /\ at \in [Threads -> Stations]
      /\ result \in [Threads -> {"none", "refused", "ok", "error", "panic"}]
  BY DEF TypeOK, RunsTyped
<1>1. ASSUME NEW t \in Threads, RunEmbedded(t) PROVE FaultsInv'
  <2>1. UNCHANGED <<stop_requested, continue_execution, returned, cpu_error>>
    BY <1>1 DEF RunEmbedded
  <2>2. CASE Refused
    <3>1. UNCHANGED <<at, embedded_running>> /\ at[t] = "idle"
      BY <1>1, <2>2 DEF RunEmbedded
    <3>2. \A u \in Threads \ {t} : result'[u] = result[u]
      BY <1>0, <1>1, <2>2 DEF RunEmbedded
    <3> QED BY <2>1, <3>1, <3>2 DEF FaultsInv, Faults
  <2>3. CASE ~Refused
    <3>1. /\ embedded_running'
          /\ \A u \in Threads : at'[u] \in {"idle", "configuring"}
      BY <1>0, <1>1, <2>3 DEF RunEmbedded, Go, Refused, Alone
    <3>2. ~cpu_error
      BY <2>3 DEF Refused, FaultsInv
    <3> QED BY <2>1, <3>1, <3>2 DEF FaultsInv, Faults
  <2> QED BY <2>2, <2>3
<1>2. ASSUME NEW t \in Threads, Inside(t) PROVE FaultsInv'
  BY <1>2, FaultsInside
<1>3. ASSUME NEW t \in Threads, Release(t) PROVE FaultsInv'
  <2>1. at[t] = "releasing" /\ at' = [at EXCEPT ![t] = "idle"] /\ cpu_error' = FALSE
    BY <1>3 DEF Release, Go
  <2>2. \A u \in Threads : at'[u] = "idle"
    BY <1>0, <2>1 DEF Alone
  <2> QED BY <2>1, <2>2 DEF FaultsInv, Faults
<1>4. CASE RequestStop
  BY <1>4 DEF RequestStop, runVars, FaultsInv, Faults
<1>5. CASE Die
  BY <1>5 DEF Die, FaultsInv, Faults
<1>6. CASE UNCHANGED vars
  BY <1>6 DEF vars, runVars, flagVars, FaultsInv, Faults
<1> QED BY <1>1, <1>2, <1>3, <1>4, <1>5, <1>6, NextCases

LEMMA FaultsInit == Init => FaultsInv
  BY DEF Init, FaultsInv, Faults

LEMMA FaultsFollow == TypeOK /\ FaultsInv => ErrorReported
<1> SUFFICES ASSUME TypeOK, FaultsInv, NEW t \in Holding, cpu_error, ~stop_requested
             PROVE  at[t] = "returned" \/ result[t] = "error"
  BY DEF ErrorReported
<1>1. t \in Threads /\ at[t] \in Stations \ {"idle"} /\ Faults(t)
  BY DEF Holding, TypeOK, RunsTyped, FaultsInv
<1> QED BY <1>1 DEF Faults, Stations

\* A CPU error ends its run with an error unless a stop was asked for, whatever unmapped
\* accesses came before it: the swap takes CONTINUE_EXECUTION back before the loop goes on,
\* so the flag is set only between the return of emu_start it belongs to and the look at it
\* (run_emulator).
THEOREM ErrorsReported == Spec => []ErrorReported
<1>1. /\ TypeOK /\ Alone /\ FaultsInv /\ [Next]_vars => (TypeOK /\ Alone /\ FaultsInv)'
  BY TypeNext, AloneNext, FaultsNext
<1> QED BY TypeInit, LinksInit, FaultsInit, <1>1, FaultsFollow, PTL DEF Spec

-----------------------------------------------------------------------------
(* Flash from one run to the next.                                          *)

LEMMA FileInit == Init => FileInv /\ Recovered
  BY DEF Init, FileInv, Recovered, Holding

LEMMA FileNext == TypeOK /\ FileInv /\ [Next]_vars => FileInv'
<1> SUFFICES ASSUME TypeOK, FileInv, [Next]_vars PROVE FileInv'
  OBVIOUS
<1>0. file \in [is : {"absent", "torn", "whole"}, contents : Contents]
  BY DEF TypeOK, FlashTyped
<1>1. ASSUME NEW t \in Threads, FlashLock(t) PROVE FileInv'
  <2>1. UNCHANGED committed /\ (UNCHANGED file \/ file'.is = "torn")
    BY <1>0, <1>1 DEF FlashLock
  <2> QED BY <2>1 DEF FileInv
<1>2. ASSUME NEW t \in Threads, FlashWrite(t) PROVE FileInv'
  <2>1. \/ UNCHANGED <<file, committed>>
        \/ file' = [is |-> "whole", contents |-> KeptRange(flash)] /\ committed' = KeptRange(flash)
    BY <1>2 DEF FlashWrite, Persisted
  <2> QED BY <2>1 DEF FileInv
<1>3. ASSUME UNCHANGED <<file, committed>> PROVE FileInv'
  BY <1>3 DEF FileInv
<1>4. ASSUME NEW t \in Threads, RunEmbedded(t) \/ Release(t) PROVE UNCHANGED <<file, committed>>
  BY <1>4 DEF RunEmbedded, Release, flashVars
<1>5. ASSUME NEW t \in Threads,
             Configure(t) \/ ResetFlags(t) \/ Prepare(t) \/ ClearLinks(t) \/ LoopTop(t)
               \/ AfterEmu(t) \/ FlashOp(t)
      PROVE  UNCHANGED <<file, committed>>
  BY <1>5 DEF Configure, ResetFlags, Prepare, ClearLinks, LoopTop, AfterEmu, FlashOp, flashVars
<1>6. ASSUME NEW t \in Threads, NEW halfwords \in 1..2, Block(t, halfwords)
      PROVE  UNCHANGED <<file, committed>>
  BY <1>6 DEF Block, flashVars
<1>7. ASSUME NEW t \in Threads, NEW how \in Returns, EmuReturns(t, how)
      PROVE  UNCHANGED <<file, committed>>
  BY <1>7 DEF EmuReturns, flashVars
<1>8. CASE RequestStop \/ Die \/ UNCHANGED vars
  BY <1>3, <1>8 DEF RequestStop, Die, vars, flashVars
<1> QED BY <1>1, <1>2, <1>3, <1>4, <1>5, <1>6, <1>7, <1>8, NextCases DEF Inside

\* What a run finds in flash when it has been prepared.
LEMMA PrepareRecovers ==
  ASSUME TypeOK, FileInv, NEW t \in Threads, Prepare(t), at'[t] = "looping"
  PROVE  \A k \in Persistent : flash'.main[k] = committed[k] /\ flash'.alias[k] = committed[k]
<1>0. at \in [Threads -> Stations] /\ file.contents \in Contents
      /\ file.is \in {"absent", "torn", "whole"}
  BY DEF TypeOK, RunsTyped, FlashTyped
<1>1. Loadable
  BY <1>0 DEF Prepare, Go
<1>2. CASE file.is = "absent"
  <2>1. flash' = FlashInit /\ committed = KeptRange(FlashInit)
    BY <1>1, <1>2 DEF Prepare, FileInv
  <2> QED BY <2>1, FlashAssumption DEF FlashInit, KeptRange, AllErased
<1>3. CASE file.is = "whole"
  <2>1. flash' = LoadRange(FlashInit, file.contents) /\ committed = file.contents
    BY <1>1, <1>3 DEF Prepare, FileInv
  <2> QED BY <1>0, <2>1, LoadTyped
<1> QED BY <1>0, <1>1, <1>2, <1>3 DEF Loadable

LEMMA RecoveredNext ==
  TypeOK /\ Alone /\ FaultsInv /\ FileInv /\ Recovered /\ [Next]_vars => Recovered'
<1> SUFFICES ASSUME TypeOK, Alone, FaultsInv, FileInv, Recovered, [Next]_vars,
                    NEW u \in Threads, at'[u] = "looping", returned' = "none"
             PROVE  \A k \in Persistent :
                      flash'.main[k] = committed'[k] /\ flash'.alias[k] = committed'[k]
  BY DEF Recovered, Holding
<1>0. at \in [Threads -> Stations]
  BY DEF TypeOK, RunsTyped
<1>1. ASSUME at[u] = "looping", UNCHANGED <<returned, flash, committed>>
      PROVE  \A k \in Persistent :
               flash'.main[k] = committed'[k] /\ flash'.alias[k] = committed'[k]
  BY <1>1 DEF Recovered, Holding
<1>2. ASSUME NEW t \in Threads, RunEmbedded(t) \/ Release(t)
      PROVE  at[u] = "looping" /\ UNCHANGED <<returned, flash, committed>>
  BY <1>0, <1>2 DEF RunEmbedded, Release, Go, flashVars
<1>3. ASSUME NEW t \in Threads, Inside(t)
      PROVE  \A k \in Persistent :
               flash'.main[k] = committed'[k] /\ flash'.alias[k] = committed'[k]
  <2>1. t = u
    BY <1>3, OthersApart
  <2>2. CASE Prepare(u)
    <3>1. committed' = committed
      BY <2>2 DEF Prepare
    <3> QED BY <2>2, <3>1, PrepareRecovers
  <2>3. CASE AfterEmu(u)
    <3>1. at[u] = "returned" /\ returned' = returned
      BY <2>3 DEF AfterEmu
    <3>2. returned # "none"
      BY <3>1 DEF FaultsInv, Faults
    <3> QED BY <3>1, <3>2
  <2>4. ASSUME Configure(u) \/ ResetFlags(u) \/ ClearLinks(u) \/ LoopTop(u) \/ FlashWrite(u)
                 \/ FlashOp(u) \/ FlashLock(u)
        PROVE  FALSE
    BY <1>0, <2>4 DEF Configure, ResetFlags, ClearLinks, LoopTop, FlashWrite, FlashOp, FlashLock,
       End, Go, runVars
  <2>5. ASSUME NEW halfwords \in 1..2, Block(u, halfwords) PROVE FALSE
    BY <1>0, <2>5 DEF Block, Go
  <2>6. ASSUME NEW how \in Returns, EmuReturns(u, how) PROVE FALSE
    BY <1>0, <2>6 DEF EmuReturns, Go
  <2> QED BY <1>3, <2>1, <2>2, <2>3, <2>4, <2>5, <2>6 DEF Inside
<1>4. CASE RequestStop
  BY <1>1, <1>4 DEF RequestStop, runVars, flashVars
<1>5. CASE Die
  BY <1>5 DEF Die
<1>6. CASE UNCHANGED vars
  BY <1>1, <1>6 DEF vars, runVars, flashVars
<1> QED BY <1>1, <1>2, <1>3, <1>4, <1>5, <1>6, NextCases

\* A run starts with exactly what the firmware last locked away, in both mappings, after any
\* sequence of runs, failed writes and deaths of the host: a whole file holds what was last
\* committed, and a torn one is never loaded (persist, load_persistent).
THEOREM FlashRecovered == Spec => []Recovered
<1> DEFINE Inv == TypeOK /\ Alone /\ FaultsInv /\ FileInv /\ Recovered
<1>1. Init => Inv
  BY TypeInit, LinksInit, FaultsInit, FileInit
<1>2. Inv /\ [Next]_vars => Inv'
  BY TypeNext, AloneNext, FaultsNext, FileNext, RecoveredNext
<1>3. Inv => Recovered
  OBVIOUS
<1> HIDE DEF Inv
<1> QED BY <1>1, <1>2, <1>3, PTL DEF Spec

-----------------------------------------------------------------------------
(* Sectors.                                                                 *)

\* The offsets of both banks, in KiB, and the values the sector field can have.
Offsets == 0..2047
SectorField == 0..31

\* sector_range is the inverse of the reference manual's table: a register value that names
\* a sector stands for the places of that sector, and any other for none.
LEMMA SectorExact ==
  ASSUME NEW register \in SectorField, NEW k \in Offsets
  PROVE  k \in SectorRange(register) <=> SectorOf(k) = register
  BY SMTT(30) DEF SectorField, Offsets, SectorRange, SectorOf

\* While a run stays with the firmware, only the firmware changes its flash.
LEMMA OnlyFirmwareWrites ==
  ASSUME TypeOK, Alone, Next, NEW t \in Threads, at[t] = "emulating", at'[t] = "emulating"
  PROVE  flash'.main = flash.main \/ FlashOp(t)
<1>0. at \in [Threads -> Stations] /\ flash \in FlashState
  BY DEF TypeOK, RunsTyped, FlashTyped
<1>1. ASSUME NEW u \in Threads, RunEmbedded(u) \/ Release(u) PROVE UNCHANGED flash
  BY <1>1 DEF RunEmbedded, Release, flashVars
<1>2. ASSUME NEW u \in Threads, Inside(u) PROVE flash'.main = flash.main \/ FlashOp(t)
  <2>1. t = u
    BY <1>2, OthersApart
  <2>2. CASE FlashLock(t)
    BY <1>0, <2>2 DEF FlashLock, FlashState
  <2>3. ASSUME Configure(t) \/ ResetFlags(t) \/ Prepare(t) \/ ClearLinks(t) \/ LoopTop(t)
                 \/ AfterEmu(t) \/ FlashWrite(t)
        PROVE  FALSE
    BY <2>3 DEF Configure, ResetFlags, Prepare, ClearLinks, LoopTop, AfterEmu, FlashWrite
  <2>4. ASSUME NEW halfwords \in 1..2, Block(t, halfwords) PROVE UNCHANGED flash
    BY <2>4 DEF Block, flashVars
  <2>5. ASSUME NEW how \in Returns, EmuReturns(t, how) PROVE UNCHANGED flash
    BY <2>5 DEF EmuReturns, flashVars
  <2> QED BY <1>2, <2>1, <2>2, <2>3, <2>4, <2>5 DEF Inside
<1>3. CASE RequestStop
  BY <1>3 DEF RequestStop, flashVars
<1>4. CASE Die
  BY <1>4 DEF Die
<1> QED BY <1>1, <1>2, <1>3, <1>4, NextCases

LEMMA EraseNext == TypeOK /\ Alone /\ [Next]_vars => [EraseStep]_vars
<1> SUFFICES ASSUME TypeOK, Alone, Next,
                    NEW t \in Threads, at[t] = "emulating", at'[t] = "emulating",
                    NEW j \in Places, flash.main[j] # Erased, flash'.main[j] = Erased
             PROVE  /\ ~flash.locked
                    /\ \A k \in Places :
                         flash'.main[k] = Erased <=> SectorOf(j) = SectorOf(k) \/ flash.main[k] = Erased
  BY DEF EraseStep
<1>0. flash \in FlashState /\ flash.main \in Memory
  BY DEF TypeOK, FlashTyped, FlashState
<1>1. FlashOp(t)
  BY OnlyFirmwareWrites
<1>2. ASSUME NEW key \in {1, 2}, flash' = WriteKey(flash, key) PROVE FALSE
  BY <1>0, <1>2, WriteKeyTyped
<1>3. ASSUME NEW k \in Places, NEW word \in Words, flash' = Program(flash, k, word) PROVE FALSE
  <2>1. flash'.main = [flash.main EXCEPT ![k] = word]
    BY <1>0, <1>3, ProgramTyped
  <2> QED BY <1>0, <2>1, EmulationAssumption DEF Memory
<1>4. PICK register \in Registers : flash' = StartErase(flash, register)
  BY <1>1, <1>2, <1>3 DEF FlashOp
<1>5. /\ ~flash.locked
      /\ flash'.main = [k \in Places |-> IF k \in SectorRange(register) THEN Erased ELSE flash.main[k]]
  BY <1>0, <1>4, StartEraseTyped
<1>6. j \in SectorRange(register)
  BY <1>5
<1>7. ASSUME NEW k \in Places
      PROVE  k \in SectorRange(register) <=> SectorOf(j) = SectorOf(k)
  <2>1. register \in SectorField /\ j \in Offsets /\ k \in Offsets
    <3>1. Places \subseteq Offsets
      BY FlashAssumption DEF Offsets
    <3>2. Registers \subseteq SectorField
      BY EmulationAssumption DEF SectorField
    <3> QED BY <3>1, <3>2, Zenon
  <2>2. j \in SectorRange(register) <=> SectorOf(j) = register
    BY <2>1, SectorExact, Zenon
  <2>3. k \in SectorRange(register) <=> SectorOf(k) = register
    BY <2>1, SectorExact, Zenon
  <2> QED BY <1>6, <2>2, <2>3, Zenon
<1> QED BY <1>5, <1>7

\* An erase wipes one sector of the reference manual's table and all of it, and only with the
\* flash unlocked, for every place of both banks and every value the sector field can have
\* (write_control, sector_range, erase_sector).
THEOREM ErasesExact == Spec => EraseExact
<1>1. TypeOK /\ Alone /\ [Next]_vars => (TypeOK /\ Alone)'
  BY TypeNext, AloneNext
<1> QED BY TypeInit, LinksInit, <1>1, EraseNext, PTL DEF Spec, EraseExact
=============================================================================
