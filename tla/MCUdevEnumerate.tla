-------------------------- MODULE MCUdevEnumerate --------------------------
(* A small instance of UdevEnumerate for TLC. *)
EXTENDS UdevEnumerate

\* Two input devices and a tty among the character devices, a disk.
MCDir == <<{"sda"}, {"event0", "event1", "tty"}>>
MCSubsystem ==
  [d \in {"sda", "event0", "event1", "tty"} |->
     CASE d = "sda" -> "block" [] d = "tty" -> "" [] OTHER -> "input"]
=============================================================================
