---------------------------- MODULE MCBlockCache ----------------------------
(***************************************************************************)
(* Model-checking instance of BlockCache: a pool of a few slots, one       *)
(* device, three blocks and two hash buckets, so that blocks 1 and 3 share *)
(* a chain as blocks b and b + 128 do with BLK_HASH_SIZE = 128.            *)
(***************************************************************************)
EXTENDS BlockCache

CONSTANTS s1, s2, s3, s4

MCSlots3 == {s1, s2, s3}
MCSlots2 == {s1, s2}
MCSlots4 == {s1, s2, s3, s4}

\* The content the cache hands a caller through a held slot, or -1 when the
\* slot holds bytes of some other block.
HeldVal(h) == IF bcache.buf[h.slot][1] = h.key THEN bcache.buf[h.slot][2] ELSE -1

Store == INSTANCE BlockStore WITH
           Keys <- Keys,
           Vals <- Vals \cup {-1},
           disk <- disk,
           held <- {[key |-> h.key, val |-> HeldVal(h)] : h \in held},
           busy <- {l.key : l \in {x \in leaked : x.why = "write"}}

(* The cache implements the block store: every step of the cache is a      *)
(* read, a write, a release or no step of the store, so what a caller      *)
(* reads through its buffer is the block's content on disk.                *)
CacheRefinesStore == Store!Spec

=============================================================================
