------------------------------- MODULE Gpio --------------------------------
(***************************************************************************)
(* One GPIO port (src/peripherals/gpio.rs).  Configuration registers are   *)
(* plain storage; writing ODR or BSRR calls the write callbacks of the     *)
(* pins concerned, reading IDR asks the read callbacks.                    *)
(***************************************************************************)
EXTENDS Bus, SequencesExt

(* A port: the storage registers, the output data register and the calls  *)
(* the last write made, a sequence of pins with the level each was given.  *)
NewPort == [mode |-> {}, od |-> {}, lck |-> {}]

(* iter_port_reg_changes with stride 1: the changed pins, lowest first.    *)
Changes(old, new) ==
  SetToSortSeq((old \ new) \cup (new \ old), LAMBDA p, q : p < q)

Calls(pins, level) == [i \in DOMAIN pins |-> [pin |-> pins[i], level |-> level]]

(* Gpio::write of ODR: callbacks for the pins that change, with their bit. *)
OdrCalls(g, value) ==
  LET pins == Changes(g.od, value)
  IN [i \in DOMAIN pins |-> [pin |-> pins[i], level |-> pins[i] \in value]]

WriteOdr(g, value) == [g EXCEPT !.od = value]

(* Gpio::write of BSRR: callbacks for every set bit, then for every reset  *)
(* bit, whether or not the level changes; od gives the set bits the last   *)
(* word.                                                                   *)
BsrrCalls(set, reset) == Calls(Changes({}, set), TRUE) \o Calls(Changes({}, reset), FALSE)

WriteBsrr(g, set, reset) == [g EXCEPT !.od = (@ \ reset) \cup set]

(* read_port: the pins some read callback holds high; levels maps pins with *)
(* a callback to what it returns.                                          *)
ReadIdr(levels) == {p \in DOMAIN levels : levels[p]}
=============================================================================
