--------------------------- MODULE MCDevRegistry ---------------------------
(* An instance of DevRegistry: one GDB group, one PCI group. *)
EXTENDS DevRegistry

\* A GDB group always finds its one server, the PCI group what is plugged in.
MCFound == <<{1}, {0, 1, 2}>>
=============================================================================
