--------------------------- MODULE PlatformProofs ---------------------------
(***************************************************************************)
(* The set-up of a board and the timer that it leaves running.             *)
(*                                                                         *)
(* Timer: for every reload value, clock and timeout, and for every time    *)
(* the loop and a call may take below two periods of SysTick, the timeout  *)
(* is not early, it is late by no more than the calls take, and sys_ticks  *)
(* does not wrap.                                                          *)
(*                                                                         *)
(* Platform: for any boards, of any code that passes a checklist, with     *)
(* faults and resets at any step, the flash keeps up with the clock, no    *)
(* peripheral is used without its clock, the timer is told the frequency   *)
(* it has and a timeout that Timer allows, and a board in its loop hears   *)
(* the bootloader's frames and no others.  The nine boards pass it.        *)
(***************************************************************************)
EXTENDS Timer, MCPlatform, TLAPS

(* Ticks counted twice, and ticks the calls may have lost. *)
TornTicks == torn * PERIOD
CallTicks == calls * (CALL + 1)

(* When the value was read, or is about to be. *)
ReadAt == since - during

(* Where the loop and a call may be. *)
PaceInv ==
  /\ pc \in {"loop", "reached"} => during = 0
  /\ ReadAt \in 0 .. GAP
  /\ since <= elapsed
  /\ calls = 0 => elapsed = since
  /\ pc = "reached" => calls > 0 /\ since = 0

(* A period that has passed has left its COUNTFLAG ... *)
FlagInv ==
  pc \in {"loop", "flag"} /\ ~countflag => cvr + since <= PERIOD /\ (cvr = 0 => since = 0)

(* ... and nothing else has, once the counter was written: it tells what has
   passed since then.                                                       *)
CounterInv ==
  calls > 0 =>
    /\ since = 0 => cvr = 0
    /\ 0 < since /\ since <= PERIOD => cvr = PERIOD - since
    /\ PERIOD < since => cvr = 2 * PERIOD - since
    /\ pc \in {"loop", "flag"} => (countflag <=> since >= PERIOD)

(* What sys_ticks has in it between two calls and inside of one: all the time
   up to the last write, to which a call adds up to its read.                *)
Before == elapsed - since
UpperInv ==
  /\ pc = "loop" => sys_ticks <= Before + 2 * PERIOD + TornTicks /\ (calls = 0 => sys_ticks = 0)
  /\ pc = "flag" /\ calls = 0 => sys_ticks <= RELOAD
  /\ pc = "flag" /\ calls > 0 =>
       sys_ticks + (IF ReadAt > PERIOD THEN PERIOD ELSE 0) < Before + ReadAt + 2 * PERIOD + TornTicks
  /\ pc = "write" => sys_ticks < Before + ReadAt + 2 * PERIOD + TornTicks
  /\ pc = "reached" => sys_ticks < Before + 2 * PERIOD + TornTicks

LowerInv ==
  /\ pc = "loop" /\ calls > 0 => Before <= sys_ticks + PERIOD + CallTicks
  /\ pc = "flag" /\ calls > 0 =>
       Before + ReadAt <= sys_ticks + (IF ReadAt > PERIOD THEN PERIOD ELSE 0) + 1 + PERIOD + CallTicks
  /\ pc = "write" => Before + ReadAt <= sys_ticks + 1 + PERIOD + CallTicks

(* The loop goes on only below the limit. *)
WidthInv ==
  /\ pc = "loop" => sys_ticks < Limit
  /\ pc = "flag" => sys_ticks < Limit + RELOAD
  /\ pc = "write" => sys_ticks < Limit + RELOAD + PERIOD
  /\ pc = "reached" => sys_ticks >= Limit

TimerInv ==
  TypeOK /\ PaceInv /\ FlagInv /\ CounterInv /\ UpperInv /\ LowerInv /\ WidthInv

-----------------------------------------------------------------------------
(* Arithmetic *)

LEMMA ConstantTypes ==
  /\ RELOAD \in Nat /\ WORD \in Nat /\ PER_MS \in Nat /\ timeout_in_millisec \in Nat
  /\ GAP \in Nat /\ CALL \in Nat /\ HORIZON \in Nat /\ LOOP \in Nat
  /\ PER_MS > 0 /\ LOOP >= 2 /\ LOOP <= GAP
  /\ GAP + CALL < 2 * RELOAD
  /\ RELOAD >= 2
  /\ PERIOD \in Nat /\ PERIOD = RELOAD + 1
BY TimerAssumption, WindowAssumption DEF PERIOD

LEMMA ProductInNat == \A m, n \in Nat : m * n \in Nat
OBVIOUS

LEMMA ProductNext == \A m, n \in Nat : (m + 1) * n = m * n + n
OBVIOUS

(* The limit of the timeout leaves room in the width of sys_ticks. *)
LEMMA LimitFits == Limit \in Nat /\ Limit >= 1 /\ Limit + 2 * RELOAD < WORD
<1>. DEFINE t == timeout_in_millisec * PER_MS
<1>1. t \in Nat
  BY ConstantTypes, ProductInNat
<1>2. Limit = t + PER_MS
  BY ConstantTypes, ProductNext DEF Limit
<1>3. (timeout_in_millisec + 3) * PER_MS = t + PER_MS + PER_MS + PER_MS
  <2>1. (timeout_in_millisec + 2) * PER_MS = t + PER_MS + PER_MS
    BY ConstantTypes, ProductNext, <1>2 DEF Limit
  <2>. QED
    BY ConstantTypes, ProductNext, <2>1
<1>. HIDE DEF t
<1>. QED
  BY <1>1, <1>2, <1>3, ConstantTypes, WidthAssumption

(* What is below the width is not changed by it. *)
LEMMA CountedFits == \A n \in Nat : n < WORD => Counted(n) = n
BY ConstantTypes DEF Counted

LEMMA CountedType == \A n \in Nat : Counted(n) \in 0 .. WORD - 1
<1>1. WORD > 0
  BY LimitFits, ConstantTypes
<1>. QED
  BY <1>1, ConstantTypes DEF Counted

(* timeout_in_millisec < sys_ticks / (timer_freq / 1000) compares with Limit. *)
LEMMA ElapsedIsLimit == \A n \in Nat : Elapsed(n) <=> n >= Limit
<1>. TAKE n \in Nat
<1>. DEFINE q == n \div PER_MS
            r == n % PER_MS
            T == timeout_in_millisec
<1>1. q \in Nat /\ r \in Nat /\ r < PER_MS /\ n = q * PER_MS + r
  BY ConstantTypes
<1>2. CASE T < q
  <2>1. PICK d \in Nat : q = T + 1 + d
    <3>1. q - (T + 1) \in Nat /\ q = T + 1 + (q - (T + 1))
      BY <1>1, <1>2, ConstantTypes
    <3>. QED
      BY <3>1
  <2>2. q * PER_MS = (T + 1) * PER_MS + d * PER_MS
    BY <2>1, ConstantTypes
  <2>3. d * PER_MS \in Nat /\ (T + 1) * PER_MS \in Nat
    BY <2>1, ConstantTypes, ProductInNat
  <2>. QED
    BY <1>1, <1>2, <2>2, <2>3 DEF Elapsed, Limit
<1>3. CASE q <= T
  <2>1. PICK d \in Nat : T = q + d
    <3>1. T - q \in Nat /\ T = q + (T - q)
      BY <1>1, <1>3, ConstantTypes
    <3>. QED
      BY <3>1
  <2>2. (T + 1) * PER_MS = q * PER_MS + PER_MS + d * PER_MS
    BY <1>1, <2>1, ConstantTypes
  <2>3. d * PER_MS \in Nat /\ q * PER_MS \in Nat
    BY <1>1, <2>1, ConstantTypes, ProductInNat
  <2>. QED
    BY <1>1, <1>3, <2>2, <2>3, ConstantTypes DEF Elapsed, Limit
<1>. QED
  BY <1>1, <1>2, <1>3, ConstantTypes

-----------------------------------------------------------------------------
LEMMA InitInv == Init => TimerInv
<1>. SUFFICES ASSUME Init PROVE TimerInv
  OBVIOUS
<1>. USE ConstantTypes, LimitFits DEF Init
<1>1. TornTicks = 0 /\ CallTicks = 0
  BY DEF TornTicks, CallTicks
<1>2. TypeOK
  BY DEF TypeOK
<1>3. PaceInv /\ FlagInv /\ CounterInv
  BY DEF PaceInv, FlagInv, CounterInv, ReadAt
<1>4. UpperInv /\ LowerInv /\ WidthInv
  BY <1>1 DEF UpperInv, LowerInv, WidthInv, Before
<1>. QED
  BY <1>2, <1>3, <1>4 DEF TimerInv

LEMMA TicksTypes == TypeOK /\ PaceInv => TornTicks \in Nat /\ CallTicks \in Nat /\ Before \in Nat
<1>. SUFFICES ASSUME TypeOK, PaceInv PROVE TornTicks \in Nat /\ CallTicks \in Nat /\ Before \in Nat
  OBVIOUS
<1>1. TornTicks \in Nat
  BY ConstantTypes, ProductInNat DEF TypeOK, TornTicks
<1>2. CallTicks \in Nat
  BY ConstantTypes, ProductInNat DEF TypeOK, CallTicks
<1>3. Before \in Nat
  BY ConstantTypes DEF TypeOK, PaceInv, Before
<1>. QED
  BY <1>1, <1>2, <1>3

(* A tick moves the counter and the clock, and no sum of the two. *)
LEMMA TickInv == TimerInv /\ Tick => TimerInv'
<1>. SUFFICES ASSUME TimerInv, Tick PROVE TimerInv'
  OBVIOUS
<1>. USE ConstantTypes, TicksTypes DEF TimerInv, TypeOK, PaceInv, ReadAt
<1>1. TornTicks' = TornTicks /\ CallTicks' = CallTicks /\ Before' = Before
  BY DEF Tick, TornTicks, CallTicks, Before
<1>2. TypeOK'
  BY DEF Tick, Reload
<1>3. PaceInv' /\ (pc # "loop" => ReadAt' = ReadAt)
  BY DEF Tick
<1>f. countflag' <=> countflag \/ cvr = 1
  BY Zenon DEF Tick
<1>4. FlagInv'
  BY <1>f DEF Tick, FlagInv, Reload
<1>5. CounterInv'
  <2>. SUFFICES ASSUME calls > 0 PROVE CounterInv'
    BY DEF CounterInv, Tick
  <2>1. CASE since = 0 \/ since = PERIOD
    BY <1>f, <2>1 DEF Tick, CounterInv, Reload
  <2>2. CASE 0 < since /\ since < PERIOD
    <3>1. cvr = PERIOD - since /\ cvr' = cvr - 1 /\ since' = since + 1 /\ pc' = pc
      BY <2>2 DEF Tick, CounterInv
    <3>2. pc \in {"loop", "flag"} => (countflag' <=> since' >= PERIOD)
      BY <1>f, <2>2, <3>1 DEF CounterInv
    <3>. QED
      BY <2>2, <3>1, <3>2 DEF CounterInv
  <2>3. CASE PERIOD < since
    BY <1>f, <2>3 DEF Tick, CounterInv, Reload
  <2>. QED
    BY <2>1, <2>2, <2>3
<1>6. UpperInv' /\ LowerInv' /\ WidthInv'
  BY <1>1, <1>3, LimitFits DEF Tick, UpperInv, LowerInv, WidthInv, Limit, Before
<1>. QED
  BY <1>2, <1>3, <1>4, <1>5, <1>6

(* The read adds what the counter tells, short of a period that has passed. *)
LEMMA ReadValueInv == TimerInv /\ ReadValue => TimerInv' /\ sys_ticks' >= sys_ticks
<1>. SUFFICES ASSUME TimerInv, ReadValue PROVE TimerInv' /\ sys_ticks' >= sys_ticks
  OBVIOUS
<1>. USE ConstantTypes, TicksTypes, LimitFits DEF TimerInv, TypeOK, PaceInv, ReadAt
<1>1. TornTicks' = TornTicks /\ CallTicks' = CallTicks /\ Before' = Before /\ Limit' = Limit
  BY DEF ReadValue, TornTicks, CallTicks, Before, Limit
<1>2. sys_ticks' = sys_ticks + (RELOAD - cvr)
  <2>1. sys_ticks + (RELOAD - cvr) \in Nat /\ sys_ticks + (RELOAD - cvr) < WORD
    BY DEF ReadValue, WidthInv
  <2>. QED
    BY <2>1, CountedFits DEF ReadValue
<1>3. TypeOK'
  BY <1>2 DEF ReadValue, WidthInv
<1>4. PaceInv' /\ FlagInv' /\ CounterInv' /\ ReadAt' = since
  BY DEF ReadValue, FlagInv, CounterInv
<1>5. UpperInv' /\ LowerInv' /\ WidthInv'
  <2>1. CASE calls = 0
    BY <1>1, <1>2, <1>4, <2>1 DEF ReadValue, UpperInv, LowerInv, WidthInv
  <2>2. CASE calls > 0
    <3>1. pc = "loop" /\ pc' = "flag" /\ calls' = calls /\ ReadAt = since /\ since >= 2
      BY DEF ReadValue
    <3>2. sys_ticks' + (IF since > PERIOD THEN PERIOD ELSE 0) = sys_ticks + since - 1
      BY <1>2, <2>2, <3>1 DEF CounterInv
    <3>3. UpperInv'
      BY <1>1, <1>4, <2>2, <3>1, <3>2 DEF UpperInv
    <3>4. LowerInv'
      BY <1>1, <1>4, <2>2, <3>1, <3>2 DEF LowerInv
    <3>5. WidthInv'
      BY <1>1, <1>2, <3>1 DEF WidthInv
    <3>. QED
      BY <3>3, <3>4, <3>5
  <2>. QED
    BY <2>1, <2>2
<1>6. sys_ticks' >= sys_ticks
  BY <1>2
<1>. QED
  BY <1>3, <1>4, <1>5, <1>6, Zenon

(* The flag adds that period; in a torn call it adds one that has not passed. *)
LEMMA ReadFlagInv == TimerInv /\ ReadFlag => TimerInv' /\ sys_ticks' >= sys_ticks
<1>. SUFFICES ASSUME TimerInv, ReadFlag PROVE TimerInv' /\ sys_ticks' >= sys_ticks
  OBVIOUS
<1>. USE ConstantTypes, TicksTypes, LimitFits DEF TimerInv, TypeOK, PaceInv, ReadAt
<1>1. CallTicks' = CallTicks /\ Before' = Before /\ Limit' = Limit
  BY DEF ReadFlag, CallTicks, Before, Limit
<1>2. sys_ticks' = IF countflag THEN sys_ticks + PERIOD ELSE sys_ticks
  <2>1. sys_ticks + PERIOD \in Nat /\ sys_ticks + PERIOD < WORD
    BY DEF ReadFlag, WidthInv
  <2>. QED
    BY <2>1, CountedFits DEF ReadFlag
<1>3. TornTicks' = IF countflag /\ calls > 0 /\ ReadAt <= PERIOD THEN TornTicks + PERIOD ELSE TornTicks
  BY ProductNext DEF ReadFlag, TornTicks
<1>4. TypeOK' /\ sys_ticks' >= sys_ticks
  <2>1. sys_ticks' \in 0 .. WORD - 1 /\ sys_ticks' >= sys_ticks
    BY <1>2 DEF ReadFlag, WidthInv
  <2>2. torn' \in Nat
    BY DEF ReadFlag
  <2>. QED
    BY <2>1, <2>2 DEF ReadFlag
<1>5. PaceInv' /\ FlagInv' /\ CounterInv' /\ ReadAt' = ReadAt
  BY DEF ReadFlag, FlagInv, CounterInv
<1>6. UpperInv' /\ LowerInv' /\ WidthInv'
  <2>1. CASE calls = 0
    BY <1>1, <1>2, <1>3, <1>5, <2>1 DEF ReadFlag, FlagInv, UpperInv, LowerInv, WidthInv, Before
  <2>2. CASE calls > 0
    <3>1. pc = "flag" /\ pc' = "write" /\ calls' = calls
      BY DEF ReadFlag
    <3>2. CASE countflag
      <4>1. sys_ticks' = sys_ticks + PERIOD
            /\ TornTicks' = IF ReadAt <= PERIOD THEN TornTicks + PERIOD ELSE TornTicks
        BY <1>2, <1>3, <2>2, <3>2
      <4>. QED
        BY <1>1, <1>5, <2>2, <3>1, <4>1 DEF UpperInv, LowerInv, WidthInv
    <3>3. CASE ~countflag
      <4>1. sys_ticks' = sys_ticks /\ TornTicks' = TornTicks
        BY <1>2, <1>3, <3>3
      <4>2. ReadAt <= PERIOD
        BY <2>2, <3>1, <3>3 DEF CounterInv
      <4>. QED
        BY <1>1, <1>5, <2>2, <3>1, <4>1, <4>2 DEF UpperInv, LowerInv, WidthInv
    <3>. QED
      BY <3>2, <3>3
  <2>. QED
    BY <2>1, <2>2
<1>. QED
  BY <1>4, <1>5, <1>6, Zenon

(* The write ends the call: what it took is lost. *)
LEMMA WriteInv == TimerInv /\ Write => TimerInv'
<1>. SUFFICES ASSUME TimerInv, Write PROVE TimerInv'
  OBVIOUS
<1>. USE ConstantTypes, TicksTypes, LimitFits DEF TimerInv, TypeOK, PaceInv, ReadAt
<1>1. TornTicks' = TornTicks /\ Before' = elapsed /\ Limit' = Limit
  BY DEF Write, TornTicks, Before, Limit
<1>2. CallTicks' = CallTicks + CALL + 1
  BY ProductNext DEF Write, CallTicks
<1>3. Before + ReadAt <= elapsed /\ elapsed <= Before + ReadAt + CALL
  BY DEF Before
<1>4. /\ pc = "write" /\ cvr' = 0 /\ countflag' = FALSE
      /\ since' = 0 /\ during' = 0 /\ calls' = calls + 1
      /\ sys_ticks' = sys_ticks /\ elapsed' = elapsed /\ torn' = torn
      /\ \/ pc' = "reached" /\ sys_ticks >= Limit
         \/ pc' = "loop" /\ sys_ticks < Limit
  BY ElapsedIsLimit DEF Write
<1>5. TypeOK'
  <2>1. pc' \in {"loop", "flag", "write", "reached"} /\ countflag' \in BOOLEAN
    BY <1>4
  <2>2. cvr' \in 0 .. RELOAD /\ sys_ticks' \in 0 .. WORD - 1 /\ since' \in 0 .. GAP + CALL /\ during' \in 0 .. CALL
    BY <1>4
  <2>3. elapsed' \in Nat /\ calls' \in Nat /\ torn' \in Nat
    BY <1>4
  <2>. QED
    BY <2>1, <2>2, <2>3
<1>6. PaceInv' /\ FlagInv' /\ CounterInv'
  BY <1>4 DEF FlagInv, CounterInv
<1>7. WidthInv'
  BY <1>1, <1>4 DEF WidthInv
<1>8. UpperInv'
  BY <1>1, <1>3, <1>4 DEF UpperInv
<1>9. LowerInv'
  BY <1>1, <1>2, <1>3, <1>4 DEF LowerInv
<1>. QED
  BY <1>5, <1>6, <1>7, <1>8, <1>9, Zenon

LEMMA NextInv == TimerInv /\ [Next]_vars => TimerInv' /\ sys_ticks' >= sys_ticks
<1>. SUFFICES ASSUME TimerInv, [Next]_vars PROVE TimerInv' /\ sys_ticks' >= sys_ticks
  OBVIOUS
<1>1. CASE Tick
  BY <1>1, TickInv, ConstantTypes DEF Tick, TimerInv, TypeOK
<1>2. CASE ReadValue
  BY <1>2, ReadValueInv
<1>3. CASE ReadFlag
  BY <1>3, ReadFlagInv
<1>4. CASE Write
  BY <1>4, WriteInv, ConstantTypes DEF Write, TimerInv, TypeOK
<1>5. CASE UNCHANGED vars
  BY <1>5, ConstantTypes DEF vars, TimerInv, TypeOK, PaceInv, FlagInv, CounterInv, UpperInv, LowerInv, WidthInv,
                             ReadAt, Before, TornTicks, CallTicks
<1>. QED
  BY <1>1, <1>2, <1>3, <1>4, <1>5 DEF Next, Call

-----------------------------------------------------------------------------
(* The inductive invariant holds in every reachable state. *)
THEOREM Invariance == Spec => []TimerInv
<1>1. TimerInv /\ [Next]_vars => TimerInv'
  BY NextInv
<1>. QED
  BY <1>1, InitInv, PTL DEF Spec

(* Every variable of the timer keeps its type; the counter and its flag stay
   in their registers.                                                      *)
THEOREM TypeCorrect == Spec => []TypeOK
<1>1. TimerInv => TypeOK
  BY DEF TimerInv
<1>. QED
  BY <1>1, Invariance, PTL

(* timeout_reached says yes too early by two periods for its first call, and
   by one for each torn call, and never by more.                            *)
THEOREM Patient == Spec => []NeverEarly
<1>1. TimerInv => NeverEarly
  BY ConstantTypes, LimitFits, TicksTypes
     DEF TimerInv, TypeOK, PaceInv, UpperInv, WidthInv, NeverEarly, Before, TornTicks
<1>. QED
  BY <1>1, Invariance, PTL

(* timeout_reached says no too late by what its calls take, and one period. *)
THEOREM Prompt == Spec => []LateByCallsOnly
<1>1. TimerInv => LateByCallsOnly
  BY ConstantTypes, LimitFits, TicksTypes
     DEF TimerInv, TypeOK, PaceInv, LowerInv, WidthInv, LateByCallsOnly, Before, CallTicks
<1>. QED
  BY <1>1, Invariance, PTL

(* Both bounds hold, for every frequency, timeout and pace of the loop. *)
THEOREM KeepsTime == Spec => []OnTime
BY Patient, Prompt, PTL DEF OnTime

(* sys_ticks, a uint32_t, never wraps before the timeout is reached. *)
THEOREM WideEnough == Spec => NeverWraps
<1>1. TimerInv /\ [Next]_vars => [sys_ticks' >= sys_ticks]_vars
  BY NextInv
<1>. QED
  BY <1>1, Invariance, PTL DEF Spec, NeverWraps

-----------------------------------------------------------------------------
(***************************************************************************)
(* The set-up of a board (Platform).                                       *)
(***************************************************************************)
(* The steps a set-up and a fault handler are made of, and the registers. *)
Units == {"A", "B", "C", "D", "AFIO", "CAN"}
Uses == {"can", "transceiver", "led", "remap"}
Fields == {"ide", "rtr", "high"}

PinsStep == [op : {"pins"}, unit : Units, use : Uses]
MainStep ==
  [op : {"clock"}, sys : Nat, apb1 : Nat] \cup [op : {"wait"}, states : Nat]
    \cup [op : {"enable"}, unit : Units] \cup PinsStep
    \cup [op : {"timer"}, mhz : Nat, ms : Nat]
    \cup [op : {"bits"}, unit : Units, div : Nat \ {0}]
    \cup [op : {"filter"}, unit : Units, zero : SUBSET Fields]
FaultStep == PinsStep \cup [op : {"reboot", "hang"}]

HwType ==
  [sys : Nat, apb1 : Nat, ws : Nat, clocked : SUBSET Units, pins : SUBSET Uses,
   timer : [mhz : Nat, ms : Nat], div : Nat, filters : SUBSET SUBSET Fields]

(* The set-up of a board, its steps with an operation, and where one of these
   comes before another step.                                               *)
Main(b) == Code[b].main
Parts(b, op) == {Main(b)[i] : i \in {j \in 1 .. Len(Main(b)) : Main(b)[j].op = op}}
Earlier(b, op, i) == {j \in 1 .. i - 1 : Main(b)[j].op = op}

(* What a reader of a platform.c would check, one by one: its steps, and the
   frequency of the flash and of the clock after a reset, ...               *)
WellTyped(b) ==
  /\ Main(b) \in Seq(MainStep)
  /\ Code[b].fault \in Seq(FaultStep)
  /\ FlashMHz[b] \in Nat /\ ResetMHz[b] \in 0 .. FlashMHz[b]

(* ... the clock is raised after the wait states, to what they allow, ... *)
WaitsFirst(b) ==
  /\ \A i \in 1 .. Len(Main(b)) : Main(b)[i].op = "clock" => Earlier(b, "wait", i) # {}
  /\ \A c \in Parts(b, "clock"), w \in Parts(b, "wait") : c.sys <= FlashMHz[b] * (w.states + 1)

(* ... each peripheral is used after its clock is on, ... *)
EnablesFirst(b) ==
  \A i \in 1 .. Len(Main(b)) :
    Main(b)[i].op \in {"pins", "bits", "filter"} =>
      \E j \in Earlier(b, "enable", i) : Main(b)[j].unit = Main(b)[i].unit

(* ... the timer is told the frequency, and its timeout fits in 32 bits with
   the periods of 2^24 ticks that Timer asks for (WidthAssumption), ...     *)
TellsTheClock(b) ==
  /\ Parts(b, "clock") # {} /\ Parts(b, "timer") # {}
  /\ \A t \in Parts(b, "timer") :
       /\ \A c \in Parts(b, "clock") : t.mhz = c.sys
       /\ (t.ms + 3) * (t.mhz * 1000) + 2 * 16777215 < 4294967296

(* ... the filter lets only standard data frames pass, and those of other
   protocols on the rc-board alone, ...                                     *)
FiltersOthers(b) ==
  \A f \in Parts(b, "filter") : {"ide", "rtr"} \subseteq f.zero /\ (b # "rc_board_v1" => "high" \in f.zero)

(* ... and the controller has its pins, a filter and the rate of the bus. *)
JoinsTheBus(b) ==
  /\ \E p \in Parts(b, "pins") : p.use = "can"
  /\ Parts(b, "filter") # {} /\ Parts(b, "bits") # {} /\ Parts(b, "clock") # {}
  /\ \A t \in Parts(b, "bits"), c \in Parts(b, "clock") : (c.apb1 * 1000) \div t.div = BusRate[b]

Checklist(b) ==
  /\ WellTyped(b) /\ WaitsFirst(b) /\ EnablesFirst(b) /\ TellsTheClock(b) /\ FiltersOthers(b)
  /\ JoinsTheBus(b)

-----------------------------------------------------------------------------
(* What a step leaves behind, for as long as the program is in the set-up. *)
Kept(b, step) ==
  /\ step.op = "wait" => \E w \in Parts(b, "wait") : hw.ws = w.states
  /\ step.op = "clock" => \E c \in Parts(b, "clock") : hw.sys = c.sys /\ hw.apb1 = c.apb1
  /\ step.op = "enable" => step.unit \in hw.clocked
  /\ step.op = "pins" => step.use \in hw.pins
  /\ step.op = "timer" => \E t \in Parts(b, "timer") : hw.timer = [mhz |-> t.mhz, ms |-> t.ms]
  /\ step.op = "bits" => \E t \in Parts(b, "bits") : hw.div = t.div
  /\ step.op = "filter" => hw.filters # {}

Done(b, n) == \A i \in 1 .. n : Kept(b, Main(b)[i])

(* In platform_main the first n steps are behind and the others before it. *)
At(n) ==
  /\ Len(todo) = Len(Main(board)) - n
  /\ \A i \in 1 .. Len(todo) : todo[i] = Main(board)[n + i]
  /\ Done(board, n)

ProgramInv ==
  /\ running = "platform_main" => todo \in Seq(MainStep) /\ \E n \in 0 .. Len(Main(board)) : At(n)
  /\ running = "bootloader_main" => todo = <<>> /\ Done(board, Len(Main(board)))
  /\ running = "fault_handler" => todo \in Seq(FaultStep)
  /\ running = "loop" => todo = <<>>

(* Where the clock is raised the wait states are those of the set-up. *)
ClockInv ==
  \/ hw.sys = ResetMHz[board]
  \/ (\E c \in Parts(board, "clock") : hw.sys = c.sys) /\ (\E w \in Parts(board, "wait") : hw.ws = w.states)

FilterInv == hw.filters \subseteq {f.zero : f \in Parts(board, "filter")}

BoardInv ==
  /\ BoardTypeOK /\ hw \in HwType
  /\ ProgramInv /\ ClockInv /\ FilterInv
  /\ ignored = {} /\ OnlyBootloaderFrames

-----------------------------------------------------------------------------
(* What a step carries, by its operation, and which steps need a clock. *)
LEMMA StepFields ==
  ASSUME NEW s \in MainStep
  PROVE  /\ s.op \in {"clock", "wait", "enable", "pins", "timer", "bits", "filter"}
         /\ s.op = "clock" => s.sys \in Nat /\ s.apb1 \in Nat
         /\ s.op = "wait" => s.states \in Nat
         /\ s.op = "enable" => s.unit \in Units
         /\ s.op = "pins" => s.unit \in Units /\ s.use \in Uses
         /\ s.op = "timer" => s.mhz \in Nat /\ s.ms \in Nat
         /\ s.op = "bits" => s.unit \in Units /\ s.div \in Nat \ {0}
         /\ s.op = "filter" => s.unit \in Units /\ s.zero \in SUBSET Fields
         /\ "unit" \in DOMAIN s <=> s.op \in {"enable", "pins", "bits", "filter"}
BY DEF MainStep, PinsStep

LEMMA FaultFields ==
  ASSUME NEW s \in FaultStep
  PROVE  s.op \in {"pins", "reboot", "hang"} /\ (s.op = "pins" => s.unit \in Units /\ s.use \in Uses)
BY DEF FaultStep, PinsStep

(* A step of a set-up is one of those with its operation, and back. *)
LEMMA PartOf ==
  ASSUME NEW b, Main(b) \in Seq(MainStep), NEW i \in 1 .. Len(Main(b))
  PROVE  Main(b)[i] \in Parts(b, Main(b)[i].op) /\ Main(b)[i] \in MainStep
BY DEF Parts

LEMMA PartIs ==
  ASSUME NEW b, Main(b) \in Seq(MainStep), NEW op, NEW p \in Parts(b, op)
  PROVE  p \in MainStep /\ p.op = op /\ \E i \in 1 .. Len(Main(b)) : Main(b)[i] = p
BY DEF Parts

(* A reset starts the set-up anew. *)
LEMMA StartInv ==
  ASSUME \A b \in Board : Checklist(b), board \in Board,
         running = "platform_main", todo = Main(board), hw = ResetHardware, fed = {}, ignored = {}
  PROVE  BoardInv
<1>1. WellTyped(board)
  BY DEF Checklist
<1>2. hw \in HwType
  BY <1>1 DEF WellTyped, ResetHardware, HwType
<1>3. At(0)
  BY <1>1 DEF At, Done, WellTyped
<1>4. ProgramInv
  BY <1>1, <1>3 DEF ProgramInv, WellTyped
<1>5. ClockInv /\ FilterInv /\ OnlyBootloaderFrames
  BY DEF ClockInv, FilterInv, OnlyBootloaderFrames, ResetHardware
<1>6. BoardTypeOK
  BY DEF BoardTypeOK, ResetHardware
<1> QED BY <1>2, <1>4, <1>5, <1>6 DEF BoardInv

LEMMA BoardInitInv ==
  ASSUME \A b \in Board : Checklist(b), BoardInit
  PROVE  BoardInv
BY StartInv DEF BoardInit, Main

LEMMA RestartInv ==
  ASSUME \A b \in Board : Checklist(b), BoardInv, Restarted, board' = board
  PROVE  BoardInv'
<1>1. ResetHardware' = ResetHardware
  BY DEF ResetHardware
<1>2. WellTyped(board) /\ board \in Board
  BY DEF Checklist, BoardInv, BoardTypeOK
<1>3. (hw \in HwType)'
  BY <1>2 DEF Restarted, WellTyped, ResetHardware, HwType
<1>4. At(0)'
  BY <1>2 DEF At, Done, WellTyped, Restarted, Main
<1>5. ProgramInv'
  BY <1>2, <1>4 DEF ProgramInv, WellTyped, Restarted, Main
<1>6. ClockInv' /\ FilterInv' /\ OnlyBootloaderFrames'
  BY DEF ClockInv, FilterInv, OnlyBootloaderFrames, ResetHardware, Restarted
<1>7. BoardTypeOK'
  BY <1>2 DEF BoardTypeOK, ResetHardware, Restarted
<1> QED BY <1>3, <1>5, <1>6, <1>7 DEF BoardInv, Restarted

-----------------------------------------------------------------------------
(* The hardware after a step, register by register. *)
LEMMA StepEffect ==
  ASSUME hw \in HwType, NEW s \in MainStep
  PROVE  /\ Effect(s) \in HwType
         /\ Effect(s).sys = IF s.op = "clock" THEN s.sys ELSE hw.sys
         /\ Effect(s).apb1 = IF s.op = "clock" THEN s.apb1 ELSE hw.apb1
         /\ Effect(s).ws = IF s.op = "wait" THEN s.states ELSE hw.ws
         /\ Effect(s).clocked = IF s.op = "enable" THEN hw.clocked \cup {s.unit} ELSE hw.clocked
         /\ Effect(s).pins = IF s.op = "pins" THEN hw.pins \cup {s.use} ELSE hw.pins
         /\ Effect(s).timer = IF s.op = "timer" THEN [mhz |-> s.mhz, ms |-> s.ms] ELSE hw.timer
         /\ Effect(s).div = IF s.op = "bits" THEN s.div ELSE hw.div
         /\ Effect(s).filters = IF s.op = "filter" THEN hw.filters \cup {s.zero} ELSE hw.filters
<1>1. CASE s.op = "clock"
  <2>1. PICK h : h = [hw EXCEPT !.sys = s.sys]
    OBVIOUS
  <2>2. Effect(s) = [h EXCEPT !.apb1 = s.apb1]
    BY <1>1, <2>1, Zenon DEF Effect
  <2>3. h \in HwType /\ h = [sys |-> s.sys, apb1 |-> hw.apb1, ws |-> hw.ws, clocked |-> hw.clocked, pins |-> hw.pins,
               timer |-> hw.timer, div |-> hw.div, filters |-> hw.filters]
    BY <1>1, <2>1, StepFields DEF HwType
  <2> QED BY <1>1, <2>2, <2>3, StepFields DEF HwType
<1>2. CASE s.op = "wait"
  <2>1. Effect(s) = [hw EXCEPT !.ws = s.states]
    BY <1>2, Zenon DEF Effect
  <2> QED BY <1>2, <2>1, StepFields DEF HwType
<1>3. CASE s.op = "enable"
  <2>1. Effect(s) = [hw EXCEPT !.clocked = @ \cup {s.unit}]
    BY <1>3, Zenon DEF Effect
  <2> QED BY <1>3, <2>1, StepFields DEF HwType
<1>4. CASE s.op = "pins"
  <2>1. Effect(s) = [hw EXCEPT !.pins = @ \cup {s.use}]
    BY <1>4, Zenon DEF Effect
  <2> QED BY <1>4, <2>1, StepFields DEF HwType
<1>5. CASE s.op = "timer"
  <2>1. Effect(s) = [hw EXCEPT !.timer = [mhz |-> s.mhz, ms |-> s.ms]]
    BY <1>5, Zenon DEF Effect
  <2> QED BY <1>5, <2>1, StepFields DEF HwType
<1>6. CASE s.op = "bits"
  <2>1. Effect(s) = [hw EXCEPT !.div = s.div]
    BY <1>6, Zenon DEF Effect
  <2> QED BY <1>6, <2>1, StepFields DEF HwType
<1>7. CASE s.op = "filter"
  <2>1. Effect(s) = [hw EXCEPT !.filters = @ \cup {s.zero}]
    BY <1>7, Zenon DEF Effect
  <2> QED BY <1>7, <2>1, StepFields DEF HwType
<1> QED BY <1>1, <1>2, <1>3, <1>4, <1>5, <1>6, <1>7, StepFields

(* A step of the set-up has the clock it needs, ... *)
LEMMA UnitHasClock ==
  ASSUME \A b \in Board : Checklist(b), BoardInv,
         NEW n \in 0 .. Len(Main(board)), At(n), todo # <<>>, todo \in Seq(MainStep)
  PROVE  /\ n + 1 \in 1 .. Len(Main(board)) /\ Head(todo) = Main(board)[n + 1]
         /\ Head(todo).op # "enable" => HasClock(Head(todo))
<1> DEFINE s == Head(todo)
<1>1. board \in Board /\ Checklist(board) /\ Main(board) \in Seq(MainStep)
  BY DEF BoardInv, BoardTypeOK, Checklist, WellTyped
<1>2. Len(todo) \in Nat /\ Len(todo) > 0 /\ s = todo[1] /\ Len(Main(board)) \in Nat
  BY <1>1
<1>3. n + 1 \in 1 .. Len(Main(board)) /\ s = Main(board)[n + 1]
  BY <1>1, <1>2 DEF At
<1>4. s \in MainStep
  BY <1>1, <1>3
<1>5. ASSUME s.op \in {"pins", "bits", "filter"} PROVE s.unit \in hw.clocked
  <2>1. PICK j \in Earlier(board, "enable", n + 1) : Main(board)[j].unit = s.unit
    BY <1>1, <1>3, <1>5 DEF Checklist, EnablesFirst
  <2>2. j \in 1 .. n /\ Main(board)[j].op = "enable"
    BY <2>1, <1>3 DEF Earlier
  <2> QED BY <2>1, <2>2 DEF At, Done, Kept
<1>6. s.op # "enable" => HasClock(s)
  BY <1>4, <1>5, StepFields DEF HasClock
<1> QED BY <1>3, <1>6

(* ... does what its operation says and keeps what the steps before it did. *)
LEMMA MainStepInv ==
  ASSUME \A b \in Board : Checklist(b), BoardInv, running = "platform_main", Step
  PROVE  BoardInv'
<1>0. PICK s, b : s = Head(todo) /\ b = board
  OBVIOUS
<1>1. b \in Board /\ Checklist(b) /\ Main(b) \in Seq(MainStep) /\ todo \in Seq(MainStep) /\ todo # <<>>
  BY <1>0 DEF BoardInv, BoardTypeOK, Checklist, WellTyped, ProgramInv, Step
<1>2. PICK n \in 0 .. Len(Main(b)) : At(n)
  BY <1>0 DEF BoardInv, ProgramInv
<1>3. n + 1 \in 1 .. Len(Main(b)) /\ s = Main(b)[n + 1] /\ (s.op # "enable" => HasClock(s))
  BY <1>0, <1>1, <1>2, UnitHasClock
<1>4. s \in MainStep /\ s \in Parts(b, s.op)
  BY <1>1, <1>3, PartOf
<1>5. s.op \notin {"reboot", "hang"}
  BY <1>4, StepFields
<1>6. /\ todo' = Tail(todo) /\ hw' = Effect(s)
      /\ UNCHANGED <<board, running, fed, ignored>>
  BY <1>0, <1>1, <1>3, <1>5 DEF Step
<1>7. hw \in HwType
  BY DEF BoardInv
<1>8. (hw \in HwType)' /\ Kept(b, s)'
  <2>1. CASE s.op = "clock"
    BY <2>1, <1>4, <1>6, <1>7, StepFields, StepEffect DEF Kept
  <2>2. CASE s.op = "wait"
    BY <2>2, <1>4, <1>6, <1>7, StepFields, StepEffect DEF Kept
  <2>3. CASE s.op = "enable"
    BY <2>3, <1>4, <1>6, <1>7, StepFields, StepEffect DEF Kept
  <2>4. CASE s.op = "pins"
    BY <2>4, <1>4, <1>6, <1>7, StepFields, StepEffect DEF Kept
  <2>5. CASE s.op = "timer"
    BY <2>5, <1>4, <1>6, <1>7, StepFields, StepEffect DEF Kept
  <2>6. CASE s.op = "bits"
    BY <2>6, <1>4, <1>6, <1>7, StepFields, StepEffect DEF Kept
  <2>7. CASE s.op = "filter"
    BY <2>7, <1>4, <1>6, <1>7, StepFields, StepEffect DEF Kept
  <2> QED BY <2>1, <2>2, <2>3, <2>4, <2>5, <2>6, <2>7, <1>4, StepFields
<1>9. ASSUME NEW i \in 1 .. n PROVE Kept(b, Main(b)[i])'
  <2>1. Kept(b, Main(b)[i]) /\ Main(b)[i] \in MainStep
    BY <1>0, <1>1, <1>2, <1>3 DEF At, Done
  <2>2. CASE s.op = "clock"
    BY <2>1, <2>2, <1>4, <1>6, <1>7, StepEffect DEF Kept
  <2>3. CASE s.op = "wait"
    BY <2>1, <2>3, <1>4, <1>6, <1>7, StepEffect DEF Kept
  <2>4. CASE s.op = "enable"
    BY <2>1, <2>4, <1>4, <1>6, <1>7, StepEffect DEF Kept
  <2>5. CASE s.op = "pins"
    BY <2>1, <2>5, <1>4, <1>6, <1>7, StepEffect DEF Kept
  <2>6. CASE s.op = "timer"
    BY <2>1, <2>6, <1>4, <1>6, <1>7, StepEffect DEF Kept
  <2>7. CASE s.op = "bits"
    BY <2>1, <2>7, <1>4, <1>6, <1>7, StepEffect DEF Kept
  <2>8. CASE s.op = "filter"
    BY <2>1, <2>8, <1>4, <1>6, <1>7, StepEffect DEF Kept
  <2> QED BY <2>2, <2>3, <2>4, <2>5, <2>6, <2>7, <2>8, <1>4, StepFields
<1>10. Done(b, n + 1)'
  <2>1. \A i \in 1 .. n + 1 : Kept(b, Main(b)[i])'
    BY <1>3, <1>8, <1>9
  <2> QED BY <2>1 DEF Done, Main
<1>11. /\ todo' \in Seq(MainStep) /\ Len(todo') = Len(todo) - 1
       /\ \A i \in 1 .. Len(todo') : todo'[i] = todo[i + 1]
  BY <1>1, <1>6
<1>12. At(n + 1)'
  <2>1. Len(todo') = Len(Main(b)) - (n + 1)
    BY <1>0, <1>1, <1>2, <1>11 DEF At
  <2>2. \A i \in 1 .. Len(todo') : todo'[i] = Main(b)[n + 1 + i]
    BY <1>0, <1>1, <1>2, <1>3, <1>11 DEF At
  <2> QED BY <2>1, <2>2, <1>0, <1>6, <1>10 DEF At, Main
<1>13. ProgramInv'
  BY <1>0, <1>3, <1>6, <1>11, <1>12 DEF ProgramInv, Main
<1>14. board' = b /\ board = b /\ (\A op : Parts(b, op)' = Parts(b, op))
  BY <1>0, <1>6 DEF Parts, Main
<1>15. ClockInv'
  <2>1. CASE s.op = "clock"
    <3>1. PICK i \in 1 .. n : Main(b)[i].op = "wait"
      BY <1>1, <1>3, <2>1 DEF Checklist, WaitsFirst, Earlier
    <3>2. \E w \in Parts(b, "wait") : hw.ws = w.states
      BY <3>1, <1>0, <1>2 DEF At, Done, Kept
    <3>3. hw'.sys = s.sys /\ hw'.ws = hw.ws /\ s \in Parts(b, "clock")
      BY <2>1, <1>4, <1>6, <1>7, StepEffect
    <3> QED BY <3>2, <3>3, <1>14 DEF ClockInv
  <2>2. CASE s.op = "wait"
    <3>1. hw'.sys = hw.sys /\ hw'.ws = s.states /\ s \in Parts(b, "wait")
      BY <2>2, <1>4, <1>6, <1>7, StepEffect
    <3> QED BY <3>1, <1>14 DEF BoardInv, ClockInv
  <2>3. CASE s.op \notin {"clock", "wait"}
    <3>1. hw'.sys = hw.sys /\ hw'.ws = hw.ws
      BY <2>3, <1>4, <1>6, <1>7, StepFields, StepEffect
    <3> QED BY <3>1, <1>14 DEF BoardInv, ClockInv
  <2> QED BY <2>1, <2>2, <2>3
<1>16. FilterInv'
  <2>1. CASE s.op = "filter"
    <3>1. hw'.filters = hw.filters \cup {s.zero} /\ s \in Parts(b, "filter")
      BY <2>1, <1>4, <1>6, <1>7, StepEffect
    <3> QED BY <3>1, <1>14 DEF BoardInv, FilterInv
  <2>2. CASE s.op # "filter"
    <3>1. hw'.filters = hw.filters
      BY <2>2, <1>4, <1>6, <1>7, StepFields, StepEffect
    <3> QED BY <3>1, <1>14 DEF BoardInv, FilterInv
  <2> QED BY <2>1, <2>2
<1>17. BoardTypeOK'
  BY <1>6, <1>8 DEF BoardInv, BoardTypeOK, HwType, Units, Uses
<1>18. ignored' = {} /\ OnlyBootloaderFrames'
  BY <1>6 DEF BoardInv, OnlyBootloaderFrames
<1> QED BY <1>8, <1>13, <1>15, <1>16, <1>17, <1>18 DEF BoardInv

LEMMA FaultEffect ==
  ASSUME NEW s, s.op = "pins"
  PROVE  Effect(s) = [hw EXCEPT !.pins = @ \cup {s.use}]
BY Zenon DEF Effect

(* The fault handler changes pins at most. *)
LEMMA FaultStepInv ==
  ASSUME \A b \in Board : Checklist(b), BoardInv, running # "platform_main", Step
  PROVE  BoardInv'
<1> DEFINE s == Head(todo)
<1>1. running = "fault_handler" /\ todo \in Seq(FaultStep) /\ todo # <<>>
  BY DEF BoardInv, BoardTypeOK, ProgramInv, Step
<1>2. s \in FaultStep
  BY <1>1
<1>3. CASE s.op = "reboot"
  BY <1>3, RestartInv DEF Step
<1>4. CASE s.op = "hang"
  <2>1. running' = "loop" /\ todo' = <<>> /\ UNCHANGED <<board, hw, fed, ignored>>
    BY <1>4 DEF Step
  <2> QED BY <2>1 DEF BoardInv, BoardTypeOK, ProgramInv, ClockInv, FilterInv, OnlyBootloaderFrames, Parts, Main
<1>5. CASE s.op = "pins"
  <2>1. /\ todo' = Tail(todo) /\ UNCHANGED <<board, running, fed>>
        /\ (HasClock(s) /\ hw' = Effect(s) /\ UNCHANGED ignored) \/ UNCHANGED <<hw, ignored>>
    BY <1>1, <1>5 DEF Step
  <2>2. ignored' = {} /\ (hw' = hw \/ hw' = [hw EXCEPT !.pins = @ \cup {s.use}])
    BY <2>1, <1>5, FaultEffect DEF BoardInv
  <2>3. /\ (hw \in HwType)' /\ hw'.sys = hw.sys /\ hw'.ws = hw.ws /\ hw'.filters = hw.filters
        /\ hw'.clocked = hw.clocked
    BY <2>2, <1>2, <1>5, FaultFields DEF BoardInv, HwType
  <2>4. todo' \in Seq(FaultStep)
    BY <1>1, <2>1
  <2>5. ProgramInv'
    BY <1>1, <2>1, <2>4 DEF ProgramInv
  <2>6. ClockInv' /\ FilterInv' /\ OnlyBootloaderFrames'
    BY <2>1, <2>3 DEF BoardInv, ClockInv, FilterInv, OnlyBootloaderFrames, Parts, Main
  <2>7. BoardTypeOK'
    BY <2>1, <2>3 DEF BoardInv, BoardTypeOK, HwType, Units, Uses
  <2> QED BY <2>2, <2>3, <2>5, <2>6, <2>7 DEF BoardInv
<1> QED BY <1>2, <1>3, <1>4, <1>5, FaultFields

(* The loop starts when all steps are done; faults leave the registers alone;
   what the loop hears has passed a filter of the set-up.                   *)
LEMMA EnterInv ==
  ASSUME \A b \in Board : Checklist(b), BoardInv, EnterLoader
  PROVE  BoardInv'
<1>1. Main(board) \in Seq(MainStep)
  BY DEF BoardInv, BoardTypeOK, Checklist, WellTyped
<1>2. PICK n \in 0 .. Len(Main(board)) : At(n)
  BY DEF BoardInv, ProgramInv, EnterLoader
<1>3. n = Len(Main(board))
  BY <1>1, <1>2 DEF At, EnterLoader
<1>4. ProgramInv'
  BY <1>2, <1>3 DEF ProgramInv, EnterLoader, At, Done, Kept, Parts, Main
<1> QED BY <1>4 DEF BoardInv, BoardTypeOK, ClockInv, FilterInv, OnlyBootloaderFrames, Parts, Main, EnterLoader

LEMMA FaultInv ==
  ASSUME \A b \in Board : Checklist(b), BoardInv, Fault
  PROVE  BoardInv'
<1>1. ProgramInv'
  BY DEF ProgramInv, Fault, BoardInv, BoardTypeOK, Checklist, WellTyped
<1> QED BY <1>1 DEF BoardInv, BoardTypeOK, ClockInv, FilterInv, OnlyBootloaderFrames, Parts, Main, Fault

LEMMA HearInv ==
  ASSUME \A b \in Board : Checklist(b), BoardInv, NEW f \in Frame, Hear(f)
  PROVE  BoardInv'
<1>1. PICK zero \in hw.filters : \A field \in zero : f[field] = 0
  BY DEF Hear, Receives
<1>2. PICK p \in Parts(board, "filter") : zero = p.zero
  BY <1>1 DEF BoardInv, FilterInv
<1>3. {"ide", "rtr"} \subseteq zero /\ (board # "rc_board_v1" => "high" \in zero)
  BY <1>2 DEF BoardInv, BoardTypeOK, Checklist, FiltersOthers
<1>4. f.ide = 0 /\ f.rtr = 0 /\ (board # "rc_board_v1" => f.high = 0)
  BY <1>1, <1>3 DEF Frame
<1>5. OnlyBootloaderFrames'
  BY <1>4 DEF OnlyBootloaderFrames, BoardInv, Hear
<1>6. ProgramInv'
  BY DEF BoardInv, ProgramInv, Hear, At, Done, Kept, Parts, Main
<1> QED BY <1>5, <1>6 DEF BoardInv, BoardTypeOK, ClockInv, FilterInv, Parts, Main, Hear

LEMMA BoardStutterInv ==
  ASSUME BoardInv, UNCHANGED boardVars
  PROVE  BoardInv'
<1>1. \A n : Done(board, n)' = Done(board, n)
  BY DEF boardVars, Done, Kept, Parts, Main
<1>2. \A n : At(n)' = At(n)
  BY <1>1 DEF boardVars, At, Main
<1>3. ProgramInv'
  BY <1>1, <1>2 DEF boardVars, BoardInv, ProgramInv, Main
<1> QED BY <1>3 DEF boardVars, BoardInv, BoardTypeOK, ClockInv, FilterInv, OnlyBootloaderFrames, Parts, Main

LEMMA BoardNextInv ==
  ASSUME \A b \in Board : Checklist(b), BoardInv, [BoardNext]_boardVars
  PROVE  BoardInv'
<1>1. CASE Step
  BY <1>1, MainStepInv, FaultStepInv
<1>2. CASE EnterLoader
  BY <1>2, EnterInv
<1>3. CASE Fault
  BY <1>3, FaultInv
<1>4. CASE Reset
  BY <1>4, RestartInv DEF Reset
<1>5. CASE \E f \in Frame : Hear(f)
  BY <1>5, HearInv
<1>6. CASE UNCHANGED boardVars
  BY <1>6, BoardStutterInv
<1> QED BY <1>1, <1>2, <1>3, <1>4, <1>5, <1>6 DEF BoardNext

(* On boards that pass the checklist every step done has its effect until the
   next reset, and the steps to come are the rest of the set-up, whatever
   faults and resets come between (Step, Fault, Reset): the inductive
   invariant of the results below.                                          *)
THEOREM BoardInvariance ==
  ASSUME \A b \in Board : Checklist(b)
  PROVE  BoardSpec => []BoardInv
<1>1. BoardInit => BoardInv
  BY BoardInitInv
<1>2. BoardInv /\ [BoardNext]_boardVars => BoardInv'
  BY BoardNextInv
<1> QED BY <1>1, <1>2, PTL DEF BoardSpec

(* Arithmetic of the two bounds. *)
LEMMA OneStateMore ==
  ASSUME NEW f \in Nat, NEW w \in Nat
  PROVE  f <= f * (w + 1)
<1>1. f * w \in Nat /\ f * (w + 1) = f * w + f
  OBVIOUS
<1> QED BY <1>1

LEMMA TimeoutFits ==
  ASSUME NEW mhz \in Nat, NEW ms \in Nat, (ms + 3) * (mhz * 1000) + 2 * 16777215 < 4294967296
  PROVE  mhz * (ms + 1) < 4294967
<1>1. PICK p \in Nat : p = mhz * (ms + 1)
  OBVIOUS
<1>2. (ms + 3) * (mhz * 1000) = 1000 * p + 2000 * mhz
  BY <1>1
<1> QED BY <1>1, <1>2

LEMMA KeepsUp ==
  ASSUME \A b \in Board : Checklist(b), BoardInv
  PROVE  FlashKeepsUp
<1>1. Checklist(board) /\ FlashMHz[board] \in Nat /\ ResetMHz[board] \in 0 .. FlashMHz[board]
  BY DEF BoardInv, BoardTypeOK, Checklist, WellTyped
<1>2. hw.ws \in Nat /\ hw.sys \in Nat
  BY DEF BoardInv, HwType
<1>3. CASE hw.sys = ResetMHz[board]
  <2>1. FlashMHz[board] <= FlashMHz[board] * (hw.ws + 1) /\ FlashMHz[board] * (hw.ws + 1) \in Nat
    BY <1>1, <1>2, OneStateMore
  <2> QED BY <1>1, <1>2, <1>3, <2>1 DEF FlashKeepsUp
<1>4. CASE (\E c \in Parts(board, "clock") : hw.sys = c.sys) /\ (\E w \in Parts(board, "wait") : hw.ws = w.states)
  BY <1>1, <1>4 DEF Checklist, WaitsFirst, FlashKeepsUp
<1> QED BY <1>3, <1>4 DEF BoardInv, ClockInv

(* What a complete set-up has left behind. *)
LEMMA KeptByAll ==
  ASSUME \A b \in Board : Checklist(b), BoardInv, running = "bootloader_main",
         NEW op, NEW p \in Parts(board, op)
  PROVE  Kept(board, p) /\ p.op = op /\ p \in MainStep
<1>1. Main(board) \in Seq(MainStep)
  BY DEF BoardInv, BoardTypeOK, Checklist, WellTyped
<1>2. PICK i \in 1 .. Len(Main(board)) : Main(board)[i] = p /\ p \in MainStep /\ p.op = op
  BY <1>1, PartIs
<1> QED BY <1>2 DEF BoardInv, ProgramInv, Done

LEMMA TimerTold ==
  ASSUME \A b \in Board : Checklist(b), BoardInv
  PROVE  /\ TimerToldTheClock
         /\ running = "bootloader_main" =>
              (hw.timer.ms + 3) * (hw.timer.mhz * 1000) + 2 * 16777215 < 4294967296
<1> SUFFICES ASSUME running = "bootloader_main"
             PROVE  /\ hw.timer.mhz = hw.sys /\ hw.timer.mhz * (hw.timer.ms + 1) < 4294967
                    /\ (hw.timer.ms + 3) * (hw.timer.mhz * 1000) + 2 * 16777215 < 4294967296
  BY DEF TimerToldTheClock
<1>1. Checklist(board)
  BY DEF BoardInv, BoardTypeOK
<1>2. PICK c0 \in Parts(board, "clock"), t0 \in Parts(board, "timer") : TRUE
  BY <1>1 DEF Checklist, TellsTheClock
<1>3. PICK c \in Parts(board, "clock") : hw.sys = c.sys
  BY <1>2, KeptByAll DEF Kept
<1>4. PICK t \in Parts(board, "timer") : hw.timer = [mhz |-> t.mhz, ms |-> t.ms]
  BY <1>2, KeptByAll DEF Kept
<1>5. t.mhz \in Nat /\ t.ms \in Nat
  BY KeptByAll, StepFields
<1>6. t.mhz = c.sys /\ (t.ms + 3) * (t.mhz * 1000) + 2 * 16777215 < 4294967296
  BY <1>1, <1>3, <1>4 DEF Checklist, TellsTheClock
<1> QED BY <1>3, <1>4, <1>5, <1>6, TimeoutFits

(* Board, program, pins and frames keep their types (platform_main). *)
THEOREM BoardTypes ==
  ASSUME \A b \in Board : Checklist(b)
  PROVE  BoardSpec => []BoardTypeOK
<1>1. BoardInv => BoardTypeOK
  BY DEF BoardInv
<1> QED BY <1>1, BoardInvariance, PTL

(* On boards that pass the checklist the flash keeps up with the clock in the
   middle of the clock set-up too, no step touches a peripheral that is off,
   and the loop starts with a timer that was told its frequency
   (rcc_clock_setup, platform_main, timeout_timer_init).                    *)
THEOREM SoundSetUp ==
  ASSUME \A b \in Board : Checklist(b)
  PROVE  BoardSpec => []SetUpSound
<1>1. BoardInv => SetUpSound
  BY KeepsUp, TimerTold DEF SetUpSound, NothingIgnored, BoardInv
<1> QED BY <1>1, BoardInvariance, PTL

(* The loop is given standard data frames only and, but for the rc-board, the
   bootloader's only (can_interface_init).                                  *)
THEOREM OthersKeptOut ==
  ASSUME \A b \in Board : Checklist(b)
  PROVE  BoardSpec => []OnlyBootloaderFrames
<1>1. BoardInv => OnlyBootloaderFrames
  BY DEF BoardInv
<1> QED BY <1>1, BoardInvariance, PTL

(* A board that has reached its loop hears the bootloader's frames, however
   its set-ups before were cut short: what Listens says, but for the fairness
   that leads there (can_interface_init).                                   *)
THEOREM HearsTheBus ==
  ASSUME \A b \in Board : Checklist(b)
  PROVE  BoardSpec => [](running = "bootloader_main" => Receives(BootloaderFrame))
<1>1. ASSUME BoardInv, running = "bootloader_main" PROVE Receives(BootloaderFrame)
  <2>1. Checklist(board)
    BY <1>1 DEF BoardInv, BoardTypeOK
  <2>2. "can" \in hw.pins
    BY <1>1, <2>1, KeptByAll DEF Checklist, JoinsTheBus, Kept
  <2>3. PICK c0 \in Parts(board, "clock"), t0 \in Parts(board, "bits"), f0 \in Parts(board, "filter") : TRUE
    BY <2>1 DEF Checklist, JoinsTheBus
  <2>4. PICK c \in Parts(board, "clock") : hw.apb1 = c.apb1
    BY <1>1, <2>3, KeptByAll DEF Kept
  <2>5. PICK t \in Parts(board, "bits") : hw.div = t.div
    BY <1>1, <2>3, KeptByAll DEF Kept
  <2>6. t.div # 0
    BY <1>1, KeptByAll, StepFields
  <2>7. KBit = BusRate[board]
    BY <2>1, <2>4, <2>5 DEF Checklist, JoinsTheBus, KBit
  <2>8. PICK zero \in hw.filters : TRUE
    BY <1>1, <2>3, KeptByAll DEF Kept
  <2>9. zero \in SUBSET Fields
    BY <1>1, <2>8 DEF BoardInv, HwType
  <2>10. \A field \in zero : BootloaderFrame[field] = 0
    BY <2>9 DEF Fields, BootloaderFrame
  <2> QED BY <2>2, <2>5, <2>6, <2>7, <2>8, <2>10 DEF Receives
<1> QED BY <1>1, BoardInvariance, PTL

(* The timeout the loop starts with is one that Timer allows: its assumption
   on the width of sys_ticks holds (timeout_timer_init).                    *)
THEOREM TimerFits ==
  ASSUME \A b \in Board : Checklist(b)
  PROVE  BoardSpec => [](running = "bootloader_main" =>
           (hw.timer.ms + 3) * (hw.timer.mhz * 1000) + 2 * 16777215 < 4294967296)
<1>1. BoardInv => (running = "bootloader_main" =>
           (hw.timer.ms + 3) * (hw.timer.mhz * 1000) + 2 * 16777215 < 4294967296)
  BY TimerTold
<1> QED BY <1>1, BoardInvariance, PTL

-----------------------------------------------------------------------------
(* The constants as the nine platform.c and the documentation of the boards
   give them: those of the run.                                             *)
NineBoards ==
  /\ Board = MCBoard /\ Code = MCCode /\ BusRate = MCBusRate
  /\ FlashMHz = MCFlashMHz /\ ResetMHz = MCResetMHz

USE DEF WaitStates, Pll, HSI, Hse3v3_168, Enable, Pins, Timer, Bits, Filter, AnyStandard, BootloaderOnly,
        Reboot, Hang

LEMMA CanIoBoardSound ==
  ASSUME NineBoards
  PROVE  Checklist("can_io_board")
<1> DEFINE b == "can_io_board"
<1>1. Code[b] = can_io_board /\ FlashMHz[b] = 24 /\ ResetMHz[b] = 8 /\ BusRate[b] = 1000
  BY DEF NineBoards, MCCode, MCFlashMHz, MCResetMHz, MCBusRate, MCBoard, F4, Nucleo
<1>2. WellTyped(b)
  BY <1>1 DEF can_io_board, WellTyped, Main, MainStep, FaultStep, PinsStep, Units, Uses, Fields
<1>3. WaitsFirst(b)
  BY <1>1, SMTT(40) DEF can_io_board, WaitsFirst, Parts, Earlier, Main
<1>4. EnablesFirst(b)
  BY <1>1, SMTT(40) DEF can_io_board, EnablesFirst, Earlier, Main
<1>5. Parts(b, "clock") # {} /\ \A c \in Parts(b, "clock") : c.sys = 72 /\ c.apb1 = 36
  BY <1>1, SMTT(40) DEF can_io_board, Parts, Main
<1>6. FiltersOthers(b)
  BY <1>1, SMTT(40) DEF can_io_board, FiltersOthers, Parts, Main
<1>7. TellsTheClock(b)
  <2>1. Parts(b, "timer") # {} /\ \A t \in Parts(b, "timer") : t.mhz = 72 /\ t.ms = 10000
    BY <1>1, SMTT(40) DEF can_io_board, Parts, Main
  <2> QED BY <1>5, <2>1 DEF TellsTheClock
<1>8. JoinsTheBus(b)
  <2>1. Parts(b, "bits") # {} /\ \A t \in Parts(b, "bits") : t.div = 36
    BY <1>1, SMTT(40) DEF can_io_board, Parts, Main
  <2>2. Parts(b, "filter") # {} /\ \E p \in Parts(b, "pins") : p.use = "can"
    BY <1>1, SMTT(40) DEF can_io_board, Parts, Main
  <2> QED BY <1>1, <1>5, <2>1, <2>2 DEF JoinsTheBus
<1> QED BY <1>2, <1>3, <1>4, <1>6, <1>7, <1>8 DEF Checklist

LEMMA MotorBoardV1Sound ==
  ASSUME NineBoards
  PROVE  Checklist("motor_board_v1")
<1> DEFINE b == "motor_board_v1"
<1>1. Code[b] = motor_board_v1 /\ FlashMHz[b] = 24 /\ ResetMHz[b] = 8 /\ BusRate[b] = 1000
  BY DEF NineBoards, MCCode, MCFlashMHz, MCResetMHz, MCBusRate, MCBoard, F4, Nucleo
<1>2. WellTyped(b)
  BY <1>1 DEF motor_board_v1, WellTyped, Main, MainStep, FaultStep, PinsStep, Units, Uses, Fields
<1>3. WaitsFirst(b)
  BY <1>1, SMTT(40) DEF motor_board_v1, WaitsFirst, Parts, Earlier, Main
<1>4. EnablesFirst(b)
  BY <1>1, SMTT(40) DEF motor_board_v1, EnablesFirst, Earlier, Main
<1>5. Parts(b, "clock") # {} /\ \A c \in Parts(b, "clock") : c.sys = 72 /\ c.apb1 = 36
  BY <1>1, SMTT(40) DEF motor_board_v1, Parts, Main
<1>6. FiltersOthers(b)
  BY <1>1, SMTT(40) DEF motor_board_v1, FiltersOthers, Parts, Main
<1>7. TellsTheClock(b)
  <2>1. Parts(b, "timer") # {} /\ \A t \in Parts(b, "timer") : t.mhz = 72 /\ t.ms = 10000
    BY <1>1, SMTT(40) DEF motor_board_v1, Parts, Main
  <2> QED BY <1>5, <2>1 DEF TellsTheClock
<1>8. JoinsTheBus(b)
  <2>1. Parts(b, "bits") # {} /\ \A t \in Parts(b, "bits") : t.div = 36
    BY <1>1, SMTT(40) DEF motor_board_v1, Parts, Main
  <2>2. Parts(b, "filter") # {} /\ \E p \in Parts(b, "pins") : p.use = "can"
    BY <1>1, SMTT(40) DEF motor_board_v1, Parts, Main
  <2> QED BY <1>1, <1>5, <2>1, <2>2 DEF JoinsTheBus
<1> QED BY <1>2, <1>3, <1>4, <1>6, <1>7, <1>8 DEF Checklist

LEMMA SensorBoardSound ==
  ASSUME NineBoards
  PROVE  Checklist("sensor_board")
<1> DEFINE b == "sensor_board"
<1>1. Code[b] = sensor_board /\ FlashMHz[b] = 24 /\ ResetMHz[b] = 8 /\ BusRate[b] = 1000
  BY DEF NineBoards, MCCode, MCFlashMHz, MCResetMHz, MCBusRate, MCBoard, F4, Nucleo
<1>2. WellTyped(b)
  BY <1>1 DEF sensor_board, WellTyped, Main, MainStep, FaultStep, PinsStep, Units, Uses, Fields
<1>3. WaitsFirst(b)
  BY <1>1, SMTT(40) DEF sensor_board, WaitsFirst, Parts, Earlier, Main
<1>4. EnablesFirst(b)
  BY <1>1, SMTT(40) DEF sensor_board, EnablesFirst, Earlier, Main
<1>5. Parts(b, "clock") # {} /\ \A c \in Parts(b, "clock") : c.sys = 72 /\ c.apb1 = 36
  BY <1>1, SMTT(40) DEF sensor_board, Parts, Main
<1>6. FiltersOthers(b)
  BY <1>1, SMTT(40) DEF sensor_board, FiltersOthers, Parts, Main
<1>7. TellsTheClock(b)
  <2>1. Parts(b, "timer") # {} /\ \A t \in Parts(b, "timer") : t.mhz = 72 /\ t.ms = 10000
    BY <1>1, SMTT(40) DEF sensor_board, Parts, Main
  <2> QED BY <1>5, <2>1 DEF TellsTheClock
<1>8. JoinsTheBus(b)
  <2>1. Parts(b, "bits") # {} /\ \A t \in Parts(b, "bits") : t.div = 36
    BY <1>1, SMTT(40) DEF sensor_board, Parts, Main
  <2>2. Parts(b, "filter") # {} /\ \E p \in Parts(b, "pins") : p.use = "can"
    BY <1>1, SMTT(40) DEF sensor_board, Parts, Main
  <2> QED BY <1>1, <1>5, <2>1, <2>2 DEF JoinsTheBus
<1> QED BY <1>2, <1>3, <1>4, <1>6, <1>7, <1>8 DEF Checklist

LEMMA ActuatorBoardSound ==
  ASSUME NineBoards
  PROVE  Checklist("actuator_board")
<1> DEFINE b == "actuator_board"
<1>1. Code[b] = actuator_board /\ FlashMHz[b] = 24 /\ ResetMHz[b] = 8 /\ BusRate[b] = 1000
  BY DEF NineBoards, MCCode, MCFlashMHz, MCResetMHz, MCBusRate, MCBoard, F4, Nucleo
<1>2. WellTyped(b)
  BY <1>1 DEF actuator_board, WellTyped, Main, MainStep, FaultStep, PinsStep, Units, Uses, Fields
<1>3. WaitsFirst(b)
  BY <1>1, SMTT(40) DEF actuator_board, WaitsFirst, Parts, Earlier, Main
<1>4. EnablesFirst(b)
  BY <1>1, SMTT(40) DEF actuator_board, EnablesFirst, Earlier, Main
<1>5. Parts(b, "clock") # {} /\ \A c \in Parts(b, "clock") : c.sys = 72 /\ c.apb1 = 36
  BY <1>1, SMTT(40) DEF actuator_board, Parts, Main
<1>6. FiltersOthers(b)
  BY <1>1, SMTT(40) DEF actuator_board, FiltersOthers, Parts, Main
<1>7. TellsTheClock(b)
  <2>1. Parts(b, "timer") # {} /\ \A t \in Parts(b, "timer") : t.mhz = 72 /\ t.ms = 10000
    BY <1>1, SMTT(40) DEF actuator_board, Parts, Main
  <2> QED BY <1>5, <2>1 DEF TellsTheClock
<1>8. JoinsTheBus(b)
  <2>1. Parts(b, "bits") # {} /\ \A t \in Parts(b, "bits") : t.div = 36
    BY <1>1, SMTT(40) DEF actuator_board, Parts, Main
  <2>2. Parts(b, "filter") # {} /\ \E p \in Parts(b, "pins") : p.use = "can"
    BY <1>1, SMTT(40) DEF actuator_board, Parts, Main
  <2> QED BY <1>1, <1>5, <2>1, <2>2 DEF JoinsTheBus
<1> QED BY <1>2, <1>3, <1>4, <1>6, <1>7, <1>8 DEF Checklist

LEMMA RcBoardV1Sound ==
  ASSUME NineBoards
  PROVE  Checklist("rc_board_v1")
<1> DEFINE b == "rc_board_v1"
<1>1. Code[b] = rc_board_v1 /\ FlashMHz[b] = 24 /\ ResetMHz[b] = 8 /\ BusRate[b] = 1000
  BY DEF NineBoards, MCCode, MCFlashMHz, MCResetMHz, MCBusRate, MCBoard, F4, Nucleo
<1>2. WellTyped(b)
  BY <1>1 DEF rc_board_v1, WellTyped, Main, MainStep, FaultStep, PinsStep, Units, Uses, Fields
<1>3. WaitsFirst(b)
  BY <1>1, SMTT(40) DEF rc_board_v1, WaitsFirst, Parts, Earlier, Main
<1>4. EnablesFirst(b)
  BY <1>1, SMTT(40) DEF rc_board_v1, EnablesFirst, Earlier, Main
<1>5. Parts(b, "clock") # {} /\ \A c \in Parts(b, "clock") : c.sys = 72 /\ c.apb1 = 36
  BY <1>1, SMTT(40) DEF rc_board_v1, Parts, Main
<1>6. FiltersOthers(b)
  BY <1>1, SMTT(40) DEF rc_board_v1, FiltersOthers, Parts, Main
<1>7. TellsTheClock(b)
  <2>1. Parts(b, "timer") # {} /\ \A t \in Parts(b, "timer") : t.mhz = 72 /\ t.ms = 3000
    BY <1>1, SMTT(40) DEF rc_board_v1, Parts, Main
  <2> QED BY <1>5, <2>1 DEF TellsTheClock
<1>8. JoinsTheBus(b)
  <2>1. Parts(b, "bits") # {} /\ \A t \in Parts(b, "bits") : t.div = 36
    BY <1>1, SMTT(40) DEF rc_board_v1, Parts, Main
  <2>2. Parts(b, "filter") # {} /\ \E p \in Parts(b, "pins") : p.use = "can"
    BY <1>1, SMTT(40) DEF rc_board_v1, Parts, Main
  <2> QED BY <1>1, <1>5, <2>1, <2>2 DEF JoinsTheBus
<1> QED BY <1>2, <1>3, <1>4, <1>6, <1>7, <1>8 DEF Checklist

LEMMA NucleoStm32f103rbSound ==
  ASSUME NineBoards
  PROVE  Checklist("nucleo_stm32f103rb")
<1> DEFINE b == "nucleo_stm32f103rb"
<1>1. Code[b] = nucleo_stm32f103rb /\ FlashMHz[b] = 24 /\ ResetMHz[b] = 8 /\ BusRate[b] = 500
  BY DEF NineBoards, MCCode, MCFlashMHz, MCResetMHz, MCBusRate, MCBoard, F4, Nucleo
<1>2. WellTyped(b)
  BY <1>1 DEF nucleo_stm32f103rb, WellTyped, Main, MainStep, FaultStep, PinsStep, Units, Uses, Fields
<1>3. WaitsFirst(b)
  BY <1>1, SMTT(40) DEF nucleo_stm32f103rb, WaitsFirst, Parts, Earlier, Main
<1>4. EnablesFirst(b)
  BY <1>1, SMTT(40) DEF nucleo_stm32f103rb, EnablesFirst, Earlier, Main
<1>5. Parts(b, "clock") # {} /\ \A c \in Parts(b, "clock") : c.sys = 36 /\ c.apb1 = 18
  BY <1>1, SMTT(40) DEF nucleo_stm32f103rb, Parts, Main
<1>6. FiltersOthers(b)
  BY <1>1, SMTT(40) DEF nucleo_stm32f103rb, FiltersOthers, Parts, Main
<1>7. TellsTheClock(b)
  <2>1. Parts(b, "timer") # {} /\ \A t \in Parts(b, "timer") : t.mhz = 36 /\ t.ms = 10000
    BY <1>1, SMTT(40) DEF nucleo_stm32f103rb, Parts, Main
  <2> QED BY <1>5, <2>1 DEF TellsTheClock
<1>8. JoinsTheBus(b)
  <2>1. Parts(b, "bits") # {} /\ \A t \in Parts(b, "bits") : t.div = 36
    BY <1>1, SMTT(40) DEF nucleo_stm32f103rb, Parts, Main
  <2>2. Parts(b, "filter") # {} /\ \E p \in Parts(b, "pins") : p.use = "can"
    BY <1>1, SMTT(40) DEF nucleo_stm32f103rb, Parts, Main
  <2> QED BY <1>1, <1>5, <2>1, <2>2 DEF JoinsTheBus
<1> QED BY <1>2, <1>3, <1>4, <1>6, <1>7, <1>8 DEF Checklist

LEMMA NucleoStm32f334r8Sound ==
  ASSUME NineBoards
  PROVE  Checklist("nucleo_stm32f334r8")
<1> DEFINE b == "nucleo_stm32f334r8"
<1>1. Code[b] = nucleo_stm32f334r8 /\ FlashMHz[b] = 24 /\ ResetMHz[b] = 8 /\ BusRate[b] = 500
  BY DEF NineBoards, MCCode, MCFlashMHz, MCResetMHz, MCBusRate, MCBoard, F4, Nucleo
<1>2. WellTyped(b)
  BY <1>1 DEF nucleo_stm32f334r8, WellTyped, Main, MainStep, FaultStep, PinsStep, Units, Uses, Fields
<1>3. WaitsFirst(b)
  BY <1>1, SMTT(40) DEF nucleo_stm32f334r8, WaitsFirst, Parts, Earlier, Main
<1>4. EnablesFirst(b)
  BY <1>1, SMTT(40) DEF nucleo_stm32f334r8, EnablesFirst, Earlier, Main
<1>5. Parts(b, "clock") # {} /\ \A c \in Parts(b, "clock") : c.sys = 36 /\ c.apb1 = 18
  BY <1>1, SMTT(40) DEF nucleo_stm32f334r8, Parts, Main
<1>6. FiltersOthers(b)
  BY <1>1, SMTT(40) DEF nucleo_stm32f334r8, FiltersOthers, Parts, Main
<1>7. TellsTheClock(b)
  <2>1. Parts(b, "timer") # {} /\ \A t \in Parts(b, "timer") : t.mhz = 36 /\ t.ms = 10000
    BY <1>1, SMTT(40) DEF nucleo_stm32f334r8, Parts, Main
  <2> QED BY <1>5, <2>1 DEF TellsTheClock
<1>8. JoinsTheBus(b)
  <2>1. Parts(b, "bits") # {} /\ \A t \in Parts(b, "bits") : t.div = 36
    BY <1>1, SMTT(40) DEF nucleo_stm32f334r8, Parts, Main
  <2>2. Parts(b, "filter") # {} /\ \E p \in Parts(b, "pins") : p.use = "can"
    BY <1>1, SMTT(40) DEF nucleo_stm32f334r8, Parts, Main
  <2> QED BY <1>1, <1>5, <2>1, <2>2 DEF JoinsTheBus
<1> QED BY <1>2, <1>3, <1>4, <1>6, <1>7, <1>8 DEF Checklist

LEMMA OlimexE407Sound ==
  ASSUME NineBoards
  PROVE  Checklist("olimex_e407")
<1> DEFINE b == "olimex_e407"
<1>1. Code[b] = olimex_e407 /\ FlashMHz[b] = 30 /\ ResetMHz[b] = 16 /\ BusRate[b] = 1000
  BY DEF NineBoards, MCCode, MCFlashMHz, MCResetMHz, MCBusRate, MCBoard, F4, Nucleo
<1>2. WellTyped(b)
  BY <1>1 DEF olimex_e407, WellTyped, Main, MainStep, FaultStep, PinsStep, Units, Uses, Fields
<1>3. WaitsFirst(b)
  BY <1>1, SMTT(40) DEF olimex_e407, WaitsFirst, Parts, Earlier, Main
<1>4. EnablesFirst(b)
  BY <1>1, SMTT(40) DEF olimex_e407, EnablesFirst, Earlier, Main
<1>5. Parts(b, "clock") # {} /\ \A c \in Parts(b, "clock") : c.sys = 168 /\ c.apb1 = 42
  BY <1>1, SMTT(40) DEF olimex_e407, Parts, Main
<1>6. FiltersOthers(b)
  BY <1>1, SMTT(40) DEF olimex_e407, FiltersOthers, Parts, Main
<1>7. TellsTheClock(b)
  <2>1. Parts(b, "timer") # {} /\ \A t \in Parts(b, "timer") : t.mhz = 168 /\ t.ms = 10000
    BY <1>1, SMTT(40) DEF olimex_e407, Parts, Main
  <2> QED BY <1>5, <2>1 DEF TellsTheClock
<1>8. JoinsTheBus(b)
  <2>1. Parts(b, "bits") # {} /\ \A t \in Parts(b, "bits") : t.div = 42
    BY <1>1, SMTT(40) DEF olimex_e407, Parts, Main
  <2>2. Parts(b, "filter") # {} /\ \E p \in Parts(b, "pins") : p.use = "can"
    BY <1>1, SMTT(40) DEF olimex_e407, Parts, Main
  <2> QED BY <1>1, <1>5, <2>1, <2>2 DEF JoinsTheBus
<1> QED BY <1>2, <1>3, <1>4, <1>6, <1>7, <1>8 DEF Checklist

LEMMA UwbBeaconSound ==
  ASSUME NineBoards
  PROVE  Checklist("uwb_beacon")
<1> DEFINE b == "uwb_beacon"
<1>1. Code[b] = uwb_beacon /\ FlashMHz[b] = 30 /\ ResetMHz[b] = 16 /\ BusRate[b] = 1000
  BY DEF NineBoards, MCCode, MCFlashMHz, MCResetMHz, MCBusRate, MCBoard, F4, Nucleo
<1>2. WellTyped(b)
  BY <1>1 DEF uwb_beacon, WellTyped, Main, MainStep, FaultStep, PinsStep, Units, Uses, Fields
<1>3. WaitsFirst(b)
  BY <1>1, SMTT(40) DEF uwb_beacon, WaitsFirst, Parts, Earlier, Main
<1>4. EnablesFirst(b)
  BY <1>1, SMTT(40) DEF uwb_beacon, EnablesFirst, Earlier, Main
<1>5. Parts(b, "clock") # {} /\ \A c \in Parts(b, "clock") : c.sys = 168 /\ c.apb1 = 42
  BY <1>1, SMTT(40) DEF uwb_beacon, Parts, Main
<1>6. FiltersOthers(b)
  BY <1>1, SMTT(40) DEF uwb_beacon, FiltersOthers, Parts, Main
<1>7. TellsTheClock(b)
  <2>1. Parts(b, "timer") # {} /\ \A t \in Parts(b, "timer") : t.mhz = 168 /\ t.ms = 10000
    BY <1>1, SMTT(40) DEF uwb_beacon, Parts, Main
  <2> QED BY <1>5, <2>1 DEF TellsTheClock
<1>8. JoinsTheBus(b)
  <2>1. Parts(b, "bits") # {} /\ \A t \in Parts(b, "bits") : t.div = 42
    BY <1>1, SMTT(40) DEF uwb_beacon, Parts, Main
  <2>2. Parts(b, "filter") # {} /\ \E p \in Parts(b, "pins") : p.use = "can"
    BY <1>1, SMTT(40) DEF uwb_beacon, Parts, Main
  <2> QED BY <1>1, <1>5, <2>1, <2>2 DEF JoinsTheBus
<1> QED BY <1>2, <1>3, <1>4, <1>6, <1>7, <1>8 DEF Checklist

HIDE DEF WaitStates, Pll, HSI, Hse3v3_168, Enable, Pins, Timer, Bits, Filter, AnyStandard, BootloaderOnly,
        Reboot, Hang

(* Every one of the nine boards passes the checklist (platform_main, the
   fault_handler and can_interface_init of each platform.c).                *)
THEOREM BoardsSound ==
  ASSUME NineBoards
  PROVE  \A b \in Board : Checklist(b)
<1>1. Board = {"can_io_board",
               "motor_board_v1",
               "sensor_board",
               "actuator_board",
               "rc_board_v1",
               "nucleo_stm32f103rb",
               "nucleo_stm32f334r8",
               "olimex_e407",
               "uwb_beacon"}
  BY DEF NineBoards, MCBoard, MCCode
<1> QED BY <1>1, CanIoBoardSound, MotorBoardV1Sound, SensorBoardSound, ActuatorBoardSound,
              RcBoardV1Sound, NucleoStm32f103rbSound, NucleoStm32f334r8Sound,
              OlimexE407Sound, UwbBeaconSound

(* The nine boards of the repository: whatever faults and resets come, their
   set-up is in order, and in their loop they hear the bootloader's frames and,
   but for the rc-board, no others (platform_main of each platform.c).      *)
COROLLARY NineBoardsListen ==
  ASSUME NineBoards
  PROVE  BoardSpec => [](/\ SetUpSound /\ OnlyBootloaderFrames
                         /\ running = "bootloader_main" => Receives(BootloaderFrame))
<1>1. BoardSpec => []SetUpSound
  BY BoardsSound, SoundSetUp
<1>2. BoardSpec => []OnlyBootloaderFrames
  BY BoardsSound, OthersKeptOut
<1>3. BoardSpec => [](running = "bootloader_main" => Receives(BootloaderFrame))
  BY BoardsSound, HearsTheBus
<1> QED BY <1>1, <1>2, <1>3, PTL
=============================================================================
