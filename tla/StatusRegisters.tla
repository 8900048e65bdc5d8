-------------------------- MODULE StatusRegisters --------------------------
(***************************************************************************)
(* The peripherals whose only purpose is to let start-up code go on: RCC,  *)
(* PWR, RTC, CAN, I2C and USART (src/peripherals/).  Writing a request bit *)
(* makes the bit that acknowledges it readable at once; words are sets of  *)
(* bits.                                                                   *)
(***************************************************************************)
EXTENDS Bus

(* Rcc: SWS mirrors SW, LSIRDY mirrors LSION, LSERDY mirrors LSEON.        *)
CfgrAfterWrite(value) == (value \ {2, 3}) \cup Shl(value \cap {0, 1}, 2)

ReadyAfterWrite(value) == IF 0 \in value THEN value \cup {1} ELSE value \ {1}

(* Pwr: VOSRDY, ODRDY and ODSWRDY out of CR1; BRR mirrors BRE in CSR1.     *)
Csr1AfterCr1Write(cr1) ==
  (IF cr1 \cap {14, 15} # {} THEN {14} ELSE {}) \cup (cr1 \cap {16, 17})

Csr1AfterWrite(value) == IF 9 \in value THEN value \cup {3} ELSE value \ {3}

(* Rtc: INITF mirrors INIT. *)
IsrAfterWrite(value) == IF 7 \in value THEN value \cup {6} ELSE value \ {6}

(* Can: INAK and SLAK mirror INRQ and SLEEP; the mailboxes are empty.      *)
MsrAfterMcrWrite(mcr) == mcr \cap {0, 1}

MailboxesEmpty == {26, 27, 28}

Cleared == [cfgr |-> {}, csr |-> {}, bdcr |-> {}, cr1 |-> {}, csr1 |-> {},
            isr |-> {0, 1, 2}, mcr |-> {}, toggle |-> 0, plain |-> {}]

(* What a register reads as; "plain" stands for any storage register.      *)
ReadRegister(r, reg) ==
  CASE reg = "cr" -> 0 .. 31
    [] reg = "csr1" -> Csr1AfterCr1Write(r.cr1) \cup r.csr1
    [] reg = "msr" -> MsrAfterMcrWrite(r.mcr)
    [] reg = "tsr" -> MailboxesEmpty
    [] reg = "usart_sr" -> {4, 5, 6, 7}
    [] OTHER -> r[reg]

WriteRegister(r, reg, value) ==
  [r EXCEPT ![reg] =
     CASE reg = "cfgr" -> CfgrAfterWrite(value)
       [] reg \in {"csr", "bdcr"} -> ReadyAfterWrite(value)
       [] reg = "csr1" -> Csr1AfterWrite(value)
       [] reg = "isr" -> IsrAfterWrite(value)
       [] OTHER -> value]

(* A toggle of even length. *)
ToggledEven(r) == [r EXCEPT !.toggle = (@ + 1) % 4]

(* I2c: every read of SR1 or SR2 moves the toggle, modulo 5; SR1 reads all *)
(* ones when bit 1 of it is set, SR2 when bit 0 is.                        *)
Toggled(r) == [r EXCEPT !.toggle = (@ + 1) % 5]

Sr1Set(r) == (r.toggle \div 2) % 2 = 1

Sr2Set(r) == r.toggle % 2 = 1

(* UsartProbe::write: a line feed ends the line, which is shown and cleared. *)
ProbeWrite(rx, byte) == IF byte = 10 THEN <<>> ELSE Append(rx, byte)
=============================================================================
