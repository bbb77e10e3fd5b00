--------------------------- MODULE MCFlashLayout ---------------------------
(* The memories of the nine boards, of which five differ, with a short binary,
   the longest one and one that is too long. *)
EXTENDS FlashLayout, Boards

MCLayout == {
  can_io_memory, motor_memory, sensor_memory, actuator_memory, rc_memory,
  nucleo_stm32f103rb_memory, nucleo_stm32f334r8_memory, olimex_e407_memory, uwb_beacon_memory}
MCLength == [memory_ \in Layout |-> {5, memory_.size, memory_.size + 1}]
=============================================================================
