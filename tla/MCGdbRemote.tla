---------------------------- MODULE MCGdbRemote ----------------------------
(* Set-ups: the OpenOCD driver with a server that answers memory commands   *)
(* with no error, and with one that does; the QEMU driver with a connection *)
(* that spoils answers as well; the QEMU driver in a session long enough    *)
(* for a stop to find two calls behind their answers; and errors and        *)
(* nothing else that goes wrong.                                            *)
EXTENDS GdbDevice

Honest == [driver |-> "openocd", corruptible |-> {"transfer"}, errors |-> FALSE, calls |-> 6]
Poor   == [driver |-> "qemu", corruptible |-> {"transfer", "answer"}, errors |-> TRUE, calls |-> 5]
Long   == [driver |-> "qemu", corruptible |-> {}, errors |-> FALSE, calls |-> 8]

MCWorlds   == {Honest, [Honest EXCEPT !.errors = TRUE], Poor, Long}
MCRefusing == {[driver |-> "openocd", corruptible |-> {}, errors |-> TRUE, calls |-> 3]}
============================================================================
