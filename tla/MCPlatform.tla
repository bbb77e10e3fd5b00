----------------------------- MODULE MCPlatform -----------------------------
(* All boards, each on a bus of the rate its documentation gives. *)
EXTENDS Platform

MCCode == [
  can_io_board |-> can_io_board, motor_board_v1 |-> motor_board_v1, sensor_board |-> sensor_board,
  actuator_board |-> actuator_board, rc_board_v1 |-> rc_board_v1, olimex_e407 |-> olimex_e407,
  uwb_beacon |-> uwb_beacon, nucleo_stm32f103rb |-> nucleo_stm32f103rb,
  nucleo_stm32f334r8 |-> nucleo_stm32f334r8]
MCBoard == DOMAIN MCCode

Nucleo == {"nucleo_stm32f103rb", "nucleo_stm32f334r8"}
F4 == {"olimex_e407", "uwb_beacon"}
MCBusRate == [b \in MCBoard |-> IF b \in Nucleo THEN 500 ELSE 1000]
MCFlashMHz == [b \in MCBoard |-> IF b \in F4 THEN 30 ELSE 24]
MCResetMHz == [b \in MCBoard |-> IF b \in F4 THEN 16 ELSE 8]
=============================================================================
