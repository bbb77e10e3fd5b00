------------------------------ MODULE Platform ------------------------------
(***************************************************************************)
(* What happens on a board between a reset and the bootloader loop: the    *)
(* effects of platform_main on the hardware one by one, with faults and    *)
(* resets at any point, and the frames the loop then gets from a bus that  *)
(* it shares with other protocols.                                         *)
(***************************************************************************)
EXTENDS Boards

CONSTANTS
  Board,     (* the boards                                            *)
  Code,      (* what platform.c of each does (Boards)                 *)
  BusRate,   (* kbit/s of the bus each is connected to                *)
  FlashMHz,  (* the frequency its flash stands per wait state, plus one *)
  ResetMHz   (* its clock after a reset                               *)

(* Frames of this bootloader and of other protocols, by the fields of the
   identifier that the hardware can filter on. *)
Frame == [ide : {0, 1}, rtr : {0, 1}, high : {0, 1}]
BootloaderFrame == [ide |-> 0, rtr |-> 0, high |-> 0]

VARIABLES
  board,    (* never changes                                        *)
  running,  (* "platform_main", "bootloader_main", "fault_handler" or "loop" *)
  todo,     (* the effects still to come                            *)
  hw,       (* registers of clock tree, pins, timer and CAN         *)
  fed,      (* history: the frames given to the loop                *)
  ignored   (* history: steps of platform_main whose peripheral had
               no clock, which the hardware ignores                 *)

boardVars == <<board, running, todo, hw, fed, ignored>>

ResetHardware ==
  [sys |-> ResetMHz[board], apb1 |-> ResetMHz[board], ws |-> 0, clocked |-> {}, pins |-> {},
   timer |-> [mhz |-> 0, ms |-> 0], div |-> 0, filters |-> {}]

BoardInit ==
  /\ board \in Board
  /\ running = "platform_main"
  /\ todo = Code[board].main
  /\ hw = ResetHardware
  /\ fed = {}
  /\ ignored = {}

-----------------------------------------------------------------------------
HasClock(step) == "unit" \in DOMAIN step => step.unit \in hw.clocked

(* The hardware after a step of the code. *)
Effect(step) ==
  CASE step.op = "clock"  -> [hw EXCEPT !.sys = step.sys, !.apb1 = step.apb1]
    [] step.op = "wait"   -> [hw EXCEPT !.ws = step.states]
    [] step.op = "enable" -> [hw EXCEPT !.clocked = @ \cup {step.unit}]
    [] step.op = "pins"   -> [hw EXCEPT !.pins = @ \cup {step.use}]
    [] step.op = "timer"  -> [hw EXCEPT !.timer = [mhz |-> step.mhz, ms |-> step.ms]]
    [] step.op = "bits"   -> [hw EXCEPT !.div = step.div]
    [] step.op = "filter" -> [hw EXCEPT !.filters = @ \cup {step.zero}]

Restarted ==
  /\ running' = "platform_main"
  /\ todo' = Code[board].main
  /\ hw' = ResetHardware
  /\ fed' = {}
  /\ UNCHANGED ignored

(* A step of platform_main or of the fault handler. *)
Step ==
  /\ todo # <<>>
  /\ LET step == Head(todo)
     IN  IF step.op = "reboot" THEN Restarted
         ELSE IF step.op = "hang"
           THEN running' = "loop" /\ todo' = <<>> /\ UNCHANGED <<hw, fed, ignored>>
         ELSE /\ todo' = Tail(todo)
              /\ IF step.op = "enable" \/ HasClock(step)
                   THEN hw' = Effect(step) /\ UNCHANGED ignored
                   ELSE /\ ignored' = IF running = "platform_main" THEN ignored \cup {step} ELSE ignored
                        /\ UNCHANGED hw
              /\ UNCHANGED <<running, fed>>
  /\ UNCHANGED board

(* platform_main calls bootloader_main, which never returns. *)
EnterLoader ==
  /\ running = "platform_main" /\ todo = <<>>
  /\ running' = "bootloader_main"
  /\ UNCHANGED <<board, todo, hw, fed, ignored>>

(* Any of the faults of vector_table; the registers stay as they are. *)
Fault ==
  /\ running \in {"platform_main", "bootloader_main"}
  /\ running' = "fault_handler"
  /\ todo' = Code[board].fault
  /\ UNCHANGED <<board, hw, fed, ignored>>

(* The reset pin, the power supply, reboot_system called by a command. *)
Reset == Restarted /\ UNCHANGED board

-----------------------------------------------------------------------------
(* The controller receives what its bit timing samples, when its pins are its
   own, and lets pass what its filter does not reject. *)
KBit == (hw.apb1 * 1000) \div hw.div
Receives(f) ==
  /\ "can" \in hw.pins
  /\ hw.div # 0 /\ KBit = BusRate[board]
  /\ \E zero \in hw.filters : \A field \in zero : f[field] = 0

(* A frame on the bus reaches can_interface_read_message. *)
Hear(f) ==
  /\ running = "bootloader_main"
  /\ Receives(f)
  /\ fed' = fed \cup {f}
  /\ UNCHANGED <<board, running, todo, hw, ignored>>

Disturb == Fault \/ Reset
BoardNext ==
  \/ Step
  \/ EnterLoader
  \/ Fault
  \/ Reset
  \/ \E f \in Frame : Hear(f)

BoardSpec == BoardInit /\ [][BoardNext]_boardVars
FairBoardSpec == BoardSpec /\ WF_boardVars(Step \/ EnterLoader)

-----------------------------------------------------------------------------
BoardTypeOK ==
  /\ board \in Board
  /\ running \in {"platform_main", "bootloader_main", "fault_handler", "loop"}
  /\ hw.clocked \subseteq {"A", "B", "C", "D", "AFIO", "CAN"}
  /\ hw.pins \subseteq {"can", "transceiver", "led", "remap"}
  /\ fed \subseteq Frame

(* The flash is never read faster than its wait states allow, in the middle of
   the clock set-up included (rcc_clock_setup of each platform.c). *)
FlashKeepsUp == hw.sys <= FlashMHz[board] * (hw.ws + 1)

(* No step of a set-up touches a peripheral whose clock is off, where the
   hardware would drop it without notice, whichever board and whatever
   interrupted earlier set-ups (platform_main, can_interface_init). *)
NothingIgnored == ignored = {}

(* When the loop starts, the frequency its timer was told is the one it runs
   at, so that the 10 or 3 seconds are seconds, and the millisecond after the
   timeout is reached before the 32 bits of sys_ticks (4294967 thousand) wrap
   (timeout_timer_init, timeout_reached). *)
TimerToldTheClock ==
  running = "bootloader_main" =>
    /\ hw.timer.mhz = hw.sys
    /\ hw.timer.mhz * (hw.timer.ms + 1) < 4294967

(* The order of a set-up and the numbers written by hand beside the clock tree
   are right on every board, whatever fault or reset came before
   (rcc_clock_setup and platform_main of each platform.c). *)
SetUpSound == FlashKeepsUp /\ NothingIgnored /\ TimerToldTheClock

(* Frames of other protocols do not reach the reader of a board
   (PROTOCOL.markdown:5): the filter of every board but the rc-board, which
   takes any standard identifier. *)
OnlyBootloaderFrames ==
  \A f \in fed : f.ide = 0 /\ f.rtr = 0 /\ (board # "rc_board_v1" => f.high = 0)

(* Once faults and resets stop a board ends up in the loop, hearing the frames
   of the bootloader at the rate of its bus; or, on the rc-board, in the
   debugging loop of its fault handler. *)
Listens ==
  (<>[][~Disturb]_boardVars)
    => <>[](\/ running = "bootloader_main" /\ Receives(BootloaderFrame)
            \/ running = "loop" /\ board = "rc_board_v1")
=============================================================================
