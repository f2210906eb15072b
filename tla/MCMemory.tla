------------------------------ MODULE MCMemory ------------------------------
(* memory.c scaled to a 256-byte address space: 16-byte pages, four      *)
(* entries per table.  The kernel window is pages 64..191, the heap       *)
(* starts inside page 16..31 so kmemInit rounds it up.                    *)
EXTENDS Memory

MCPAs == {0, 96}
MCVAs == {16, 80}
MCSizes == {24}
=============================================================================
