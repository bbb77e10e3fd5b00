------------------------------- MODULE Boards -------------------------------
(***************************************************************************)
(* The nine boards, as their platform.c sets them up and their linker      *)
(* scripts lay them out.  The set-up of a board is the sequence of its     *)
(* effects on the hardware: clock tree, peripheral clocks, pins, timer,    *)
(* bit timing and receive filter; the calls that only fill in registers of *)
(* one effect are one step.  Frequencies are in MHz, sizes in KB.          *)
(***************************************************************************)
EXTENDS Integers, Sequences

(* RCC: the PLL multiplies its divided source; the APB1 bus is divided again. *)
Pll(source, prediv, mul, ppre1) ==
  LET sys == (source \div prediv) * mul
  IN  [op |-> "clock", sys |-> sys, apb1 |-> sys \div ppre1]
HSI == 8                              (* the internal oscillator of the F1 and F3 *)
Hse3v3_168 == [op |-> "clock", sys |-> 168, apb1 |-> 42]  (* of libopencm3 *)

WaitStates(n) == [op |-> "wait", states |-> n]  (* of the flash *)

Enable(peripheral) == [op |-> "enable", unit |-> peripheral]
Pins(port, use) == [op |-> "pins", unit |-> port, use |-> use]
Timer(f_cpu, timeout_ms) == [op |-> "timer", mhz |-> f_cpu, ms |-> timeout_ms]
Bits(prescaler, ts1, ts2) == [op |-> "bits", unit |-> "CAN", div |-> prescaler * (1 + ts1 + ts2)]
(* The fields of an identifier that must be zero: the mask. *)
Filter(fields) == [op |-> "filter", unit |-> "CAN", zero |-> fields]
AnyStandard == {"ide", "rtr"}
BootloaderOnly == {"ide", "rtr", "high"}

Reboot == [op |-> "reboot"]
Hang == [op |-> "hang"]

-----------------------------------------------------------------------------
can_io_board == [
  main  |-> <<WaitStates(2), Pll(16, 2, 9, 2), Enable("A"), Enable("B"), Pins("A", "can"), Pins("B", "transceiver"),
              Pins("A", "led"), Timer(72, 10000), Enable("CAN"), Bits(2, 10, 7), Filter(BootloaderOnly)>>,
  fault |-> <<Reboot>>]

motor_board_v1 == [
  main  |-> <<WaitStates(2), Pll(16, 2, 9, 2), Enable("A"), Enable("B"), Pins("B", "can"), Pins("A", "transceiver"),
              Pins("A", "led"), Timer(72, 10000), Enable("CAN"), Bits(2, 10, 7), Filter(BootloaderOnly)>>,
  fault |-> <<Reboot>>]

sensor_board == [
  main  |-> <<WaitStates(2), Pll(16, 2, 9, 2), Enable("A"), Enable("B"), Pins("A", "can"), Pins("A", "transceiver"),
              Pins("A", "led"), Timer(72, 10000), Enable("CAN"), Bits(2, 10, 7), Filter(BootloaderOnly)>>,
  fault |-> <<Reboot>>]

actuator_board == [
  main  |-> <<WaitStates(2), Pll(16, 2, 9, 2), Enable("A"), Enable("B"), Pins("A", "can"),
              Pins("B", "led"), Timer(72, 10000), Enable("CAN"), Bits(2, 10, 7), Filter(BootloaderOnly)>>,
  fault |-> <<Reboot>>]

(* Its CAN pins are set up with the peripheral, its filter lets every standard
   identifier pass, and its fault handler stops at a loop for debugging. *)
rc_board_v1 == [
  main  |-> <<WaitStates(2), Pll(16, 2, 9, 2), Enable("C"), Pins("C", "led"), Timer(72, 3000),
              Enable("CAN"), Enable("A"), Pins("A", "transceiver"), Pins("A", "can"),
              Bits(2, 10, 7), Filter(AnyStandard)>>,
  fault |-> <<Pins("C", "led"), Hang>>]

nucleo_stm32f103rb == [
  main  |-> <<WaitStates(1), Pll(HSI, 2, 9, 2), Enable("A"), Enable("AFIO"), Pins("A", "can"), Pins("AFIO", "remap"),
              Pins("A", "led"), Timer(36, 10000), Enable("CAN"), Bits(2, 10, 7), Filter(BootloaderOnly)>>,
  fault |-> <<Reboot>>]

(* Mutant: the wait states are set after the clock is raised. *)
LateWaitStates == [
  main  |-> <<Pll(HSI, 2, 9, 2), WaitStates(1), Enable("A"), Pins("A", "led"), Timer(36, 10000),
              Enable("B"), Enable("CAN"), Pins("B", "can"), Bits(2, 10, 7), Filter(BootloaderOnly)>>,
  fault |-> <<Reboot>>]

nucleo_stm32f334r8 == [
  main  |-> <<WaitStates(1), Pll(HSI, 2, 9, 2), Enable("A"), Pins("A", "led"), Timer(36, 10000),
              Enable("B"), Enable("CAN"), Pins("B", "can"), Bits(2, 10, 7), Filter(BootloaderOnly)>>,
  fault |-> <<Reboot>>]

olimex_e407 == [
  main  |-> <<WaitStates(5), Hse3v3_168, Enable("D"), Enable("C"), Pins("D", "can"), Pins("C", "led"),
              Timer(168, 10000), Enable("CAN"), Bits(2, 12, 8), Filter(BootloaderOnly)>>,
  fault |-> <<Reboot>>]

(* Mutant: the fault handler blinks its LED and never restarts. *)
UwbDebugged == [
  main  |-> <<WaitStates(5), Hse3v3_168, Enable("B"), Pins("B", "can"), Pins("B", "led"),
              Timer(168, 10000), Enable("CAN"), Bits(2, 12, 8), Filter(BootloaderOnly)>>,
  fault |-> <<Pins("B", "led"), Hang>>]

uwb_beacon == [
  main  |-> <<WaitStates(5), Hse3v3_168, Enable("B"), Pins("B", "can"), Pins("B", "led"),
              Timer(168, 10000), Enable("CAN"), Bits(2, 12, 8), Filter(BootloaderOnly)>>,
  fault |-> <<Pins("B", "led"), Reboot>>]
-----------------------------------------------------------------------------
(* Flash, in KB from its start: page size, configuration pages, application.
   A F4 erases sectors, the others pages of the size of FLASH_PAGE_SIZE. *)
Memory(page, config1, config2, app, size) ==
  [sectors |-> FALSE, page |-> page, config |-> <<config1, config2>>, app |-> app, size |-> size]
InSectors(memory) == [memory EXCEPT !.sectors = TRUE]

can_io_memory == Memory(2, 10, 12, 14, 50)
motor_memory == Memory(2, 10, 12, 14, 242)
sensor_memory == Memory(2, 10, 12, 14, 50)
actuator_memory == Memory(2, 10, 12, 14, 50)
rc_memory == Memory(2, 10, 12, 14, 242)
nucleo_stm32f103rb_memory == Memory(1, 10, 11, 12, 116)

nucleo_stm32f334r8_memory == Memory(2, 20, 22, 24, 40)

olimex_e407_memory == InSectors(Memory(16, 16, 32, 48, 976))
uwb_beacon_memory == InSectors(Memory(16, 16, 32, 48, 976))
=============================================================================
