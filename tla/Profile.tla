------------------------------- MODULE Profile -------------------------------
(***************************************************************************)
(* Machine profiles: what MachineProfile::validate of src/profile.rs       *)
(* accepts, and where the accepted machine's devices lie in its address    *)
(* space.  Paths are abstracted to whether they are absolute.              *)
(***************************************************************************)
EXTENDS Naturals

CONSTANTS
    AddressSpace,               \* the number of u32 addresses
    Version,                    \* PROFILE_SCHEMA_VERSION
    ControlBase,                \* CONTROL_BASE, also the greatest RAM size
    PlatformBases,              \* CONTROL_BASE, DEBUG_BASE, TIMER_BASE
    PlicBase, VirtioBase,
    UartBytes, PlatformBytes, PlicBytes, VirtioBytes

\* The constants' own sums, base + PLATFORM_MMIO_BYTES and the like, do not
\* overflow; the compiler rejects those of constants that do.
ASSUME ProfileAssumption ==
    /\ AddressSpace \in Nat /\ UartBytes \in Nat \ {0}
    /\ {PlatformBytes, PlicBytes, VirtioBytes} \subseteq Nat
    /\ PlatformBases \subseteq 0 .. AddressSpace - 1 - PlatformBytes
    /\ PlicBase \in 0 .. AddressSpace - 1 - PlicBytes
    /\ VirtioBase \in 0 .. AddressSpace - 1 - VirtioBytes
    /\ ControlBase \in PlatformBases

Paths == {"relative", "absolute"}

\* BackendProfile.  A kind has no more parameters than its variant.
Backend ==
    [kind: {"predecoded"}]
      \cup [kind: {"cached"}, sets: Nat]
      \cup [kind: {"block_cached"}, sets: Nat, max_instructions: Nat]
      \cup [kind: {"direct_dbt"}, max_instructions: Nat, scratch_bytes: Nat]
      \cup [kind: {"cached_dbt"}, sets: Nat, max_instructions: Nat,
            scratch_bytes: Nat, cache_bytes: Nat, alignment: Nat]

\* MachineProfile, as serde decodes it: every number has its type's range.
MachineProfile ==
    [schema_version: Nat, elf: Paths, disk: Paths \cup {"none"},
     ram_bytes: Nat, backend: Backend,
     instructions_per_tick: Nat, timer_units_per_tick: Nat,
     base: 0 .. AddressSpace - 1]

-----------------------------------------------------------------------------
IsPowerOfTwo(n) == \E k \in 0 .. n : n = 2 ^ k

\* BackendProfile::validate; DirectDbt's scratch_bytes are not looked at.
BackendValid(b) ==
    /\ b.kind = "cached_dbt" =>
         /\ b.scratch_bytes # 0 /\ b.cache_bytes # 0
         /\ IsPowerOfTwo(b.alignment)
    /\ b.kind \in {"cached", "block_cached", "cached_dbt"} =>
         IsPowerOfTwo(b.sets)
    /\ b.kind \in {"block_cached", "direct_dbt", "cached_dbt"} =>
         b.max_instructions # 0

\* Each device's first address, and the first behind it.
Reserved ==
    [start: PlatformBases, bytes: {PlatformBytes}]
      \cup {[start |-> PlicBase, bytes |-> PlicBytes],
            [start |-> VirtioBase, bytes |-> VirtioBytes]}

ranges_overlap(a_start, a_end, b_start, b_end) ==
    a_start < b_end /\ b_start < a_end

\* Mutant of UartEnd: an addition that wraps around.
WrappingEnd(p) == (p.base + UartBytes) % AddressSpace

\* The end of the UART's registers, before checked_add has looked at it.
UartEnd(p) == p.base + UartBytes

\* checked_add, in_ram, and the overlaps.
UartValid(p) ==
    /\ UartEnd(p) < AddressSpace
    /\ p.base >= p.ram_bytes
    /\ \A r \in Reserved :
         ~ranges_overlap(p.base, UartEnd(p), r.start, r.start + r.bytes)

\* MachineProfile::validate.
Valid(p) ==
    /\ p.schema_version = Version
    /\ p.elf = "relative" /\ p.disk # "absolute"
    /\ p.ram_bytes # 0 /\ p.ram_bytes <= ControlBase
    /\ p.instructions_per_tick # 0 /\ p.timer_units_per_tick # 0
    /\ BackendValid(p.backend)
    /\ UartValid(p)

-----------------------------------------------------------------------------
\* The addresses the UART answers to, those of the RAM, and those of the
\* devices every machine has or may have.
UartAddresses(p) == {(p.base + i) % AddressSpace : i \in 0 .. UartBytes - 1}
RamAddresses(p) == {a \in 0 .. AddressSpace - 1 : a < p.ram_bytes}
DeviceAddresses ==
    UNION {{r.start + i : i \in 0 .. r.bytes - 1} : r \in Reserved}
=============================================================================
