------------------------ MODULE CapabilityContainer ------------------------
(***************************************************************************)
(* The Capability Container, block 3 of a Type 2 Tag (src/type2/cc.rs),    *)
(* and the access conditions in it (src/tag.rs).                           *)
(***************************************************************************)
EXTENDS Tlv

CONSTANTS
    CC_MAGIC,      \* 0xE1
    STATIC_UNITS   \* largest size field of a static tag (6)

ASSUME CcAssumption ==
    /\ CC_MAGIC \in Byte
    /\ STATIC_UNITS \in Nat
    /\ NIBBLE >= 4

SUPPORTED_MAJOR_VERSION == 1

-----------------------------------------------------------------------------
(* AccessCondition: granted, denied, or the nibble of a proprietary or       *)
(* reserved condition.                                                       *)

Access(k, n) == [kind |-> k, nibble |-> n]
Granted      == Access("granted", 0)
Denied       == Access("denied", 0)

from_nibble(n) ==
    CASE n = 0 -> Granted
      [] n = NIBBLE - 1 -> Denied
      [] n \in (NIBBLE \div 2)..(NIBBLE - 2) -> Access("proprietary", n)
      [] n \in 1..(NIBBLE \div 2 - 1) -> Access("rfu", n)

to_nibble(a) ==
    CASE a.kind = "granted" -> 0
      [] a.kind = "denied" -> NIBBLE - 1
      [] a.kind \in {"proprietary", "rfu"} -> a.nibble

-----------------------------------------------------------------------------

\* try_from: the container, or the error a byte causes.
ParseCc(b) ==
    IF b[1] # CC_MAGIC THEN [status |-> "invalid_magic"]
    ELSE IF b[2] \div NIBBLE > SUPPORTED_MAJOR_VERSION
        THEN [status |-> "unsupported_version"]
    ELSE [status        |-> "ok",
          version_major |-> b[2] \div NIBBLE,
          version_minor |-> b[2] % NIBBLE,
          size_field    |-> b[3],
          read_access   |-> from_nibble(b[4] \div NIBBLE),
          write_access  |-> from_nibble(b[4] % NIBBLE)]

\* try_from of a slice, which may be too short.
CcFromSlice(b) == IF Len(b) < 4 THEN [status |-> "invalid_length"] ELSE ParseCc(b)

CcToBytes(cc) ==
    <<CC_MAGIC, cc.version_major * NIBBLE + cc.version_minor, cc.size_field,
      to_nibble(cc.read_access) * NIBBLE + to_nibble(cc.write_access)>>

data_area_size(cc) == cc.size_field * 8

is_dynamic(cc) == cc.size_field > STATIC_UNITS

is_valid(cc) ==
    /\ cc.version_major = SUPPORTED_MAJOR_VERSION
    /\ cc.read_access = Granted

tag_state(cc, len) ==
    CASE ~is_valid(cc) -> None
      [] is_valid(cc) /\ len = 0 /\ cc.write_access = Granted -> "initialized"
      [] is_valid(cc) /\ len > 0 /\ cc.write_access = Granted -> "read_write"
      [] is_valid(cc) /\ len > 0 /\ cc.write_access = Denied -> "read_only"
      [] OTHER -> None

=============================================================================
