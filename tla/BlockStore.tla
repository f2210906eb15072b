----------------------------- MODULE BlockStore -----------------------------
(***************************************************************************)
(* What the block buffer cache promises its callers (spec section 4.1):    *)
(* a store of blocks in which a read hands the caller the block's current  *)
(* content, a write from a caller's own buffer replaces the content, and   *)
(* the caller later releases what it read.  A block is not read while it   *)
(* is held or after it was written from a local buffer; a failed read      *)
(* changes nothing.                                                        *)
(***************************************************************************)
CONSTANTS Keys, Vals

VARIABLES
  disk,   \* block -> content
  held,   \* what callers hold: [key, val] with the content they were given
  busy    \* blocks written from a local buffer, still checked out

vars == <<disk, held, busy>>

Free(k) == k \notin {h.key : h \in held} \cup busy

Init ==
  /\ disk \in [Keys -> Vals]
  /\ held = {}
  /\ busy = {}

Read(k) ==
  /\ Free(k)
  /\ held' = held \cup {[key |-> k, val |-> disk[k]]}
  /\ UNCHANGED <<disk, busy>>

Write(k, v) ==
  /\ Free(k)
  /\ disk' = [disk EXCEPT ![k] = v]
  /\ busy' = busy \cup {k}
  /\ UNCHANGED held

Release(h) ==
  /\ held' = held \ {h}
  /\ UNCHANGED <<disk, busy>>

Next ==
  \/ \E k \in Keys : Read(k)
  \/ \E k \in Keys, v \in Vals : Write(k, v)
  \/ \E h \in held : Release(h)

Spec == Init /\ [][Next]_vars

=============================================================================
