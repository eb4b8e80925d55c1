--------------------------- MODULE MCMotorSerial ---------------------------
(* Instances of MotorSerial for TLC. *)
EXTENDS MotorSerial

\* Mouse full forward and out of the circle; then positions that make a speed
\* byte the terminator: both speeds, the left one, the right one, and the left
\* one while the right one is 'V' or 'L'.
SomeTargets == {<<0, -150>>, <<400, -400>>,
                <<0, 96>>, <<64, 64>>, <<-64, 64>>, <<35, 78>>, <<46, 72>>}

\* "L1", "L0", an unknown command, and commands of four to six bytes.
SomeCommands == {<<L, On>>, <<L, Off>>, <<65>>,
                 <<L, On, 1, 2>>, <<L, Off, 1, 2, 3>>, <<L, On, 1, 2, 3, 4>>}
=============================================================================
