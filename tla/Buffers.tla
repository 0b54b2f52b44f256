------------------------------ MODULE Buffers ------------------------------
(***************************************************************************)
(* The buffers of src/vec.rs.  Without the alloc feature a FrameVec, a     *)
(* DataVec and what parse_tlvs returns have a fixed capacity, and VecExt   *)
(* adds to them all or nothing.  A capacity that is never reached stands for    *)
(* the alloc feature.                                                      *)
(***************************************************************************)
EXTENDS Integers, Sequences

\* The buffer after try_extend with the elements s, or BufferFull.
try_extend_OffByOne(v, s, capacity) ==
    IF Len(v) + Len(s) > capacity + 1
        THEN [status |-> "buffer_full", vec |-> v]
        ELSE [status |-> "ok", vec |-> v \o s]
try_extend(v, s, capacity) ==
    IF Len(v) + Len(s) > capacity
        THEN [status |-> "buffer_full", vec |-> v]
        ELSE [status |-> "ok", vec |-> v \o s]

try_push(v, x, capacity) == try_extend(v, <<x>>, capacity)

=============================================================================
