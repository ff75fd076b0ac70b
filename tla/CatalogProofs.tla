---------------------------- MODULE CatalogProofs ----------------------------
(* An accepted profile's UART is alone at its addresses, in every address   *)
(* space and wherever the platform's devices lie; and the startup profile   *)
(* is the one the documentation names, whatever the directory lists.        *)
EXTENDS Catalog, TLAPS

-----------------------------------------------------------------------------
\* The register range does not wrap around: checked_add.
LEMMA UartDoesNotWrap ==
  ASSUME NEW p \in MachineProfile, Valid(p), NEW a \in UartAddresses(p)
  PROVE  /\ a \in Nat
         /\ p.base <= a /\ a < UartEnd(p)
<1>1. PICK i \in 0 .. UartBytes - 1 : a = (p.base + i) % AddressSpace
  BY DEF UartAddresses
<1>2. p.base \in Nat /\ UartBytes \in Nat /\ AddressSpace \in Nat
  BY ProfileAssumption DEF MachineProfile
<1>3. p.base + i < AddressSpace
  BY <1>2 DEF Valid, UartValid, UartEnd
<1>4. (p.base + i) % AddressSpace = p.base + i
  BY <1>2, <1>3
<1> QED
  BY <1>1, <1>2, <1>4 DEF UartEnd

\* The platform's devices lie within the address space.
LEMMA ReservedTypes ==
  ASSUME NEW r \in Reserved
  PROVE  r.start \in Nat /\ r.bytes \in Nat
<1>1. CASE r \in [start: PlatformBases, bytes: {PlatformBytes}]
  <2>1. r.start \in PlatformBases /\ r.bytes = PlatformBytes
    BY <1>1
  <2>2. PlatformBytes \in Nat /\ AddressSpace \in Nat
    BY ProfileAssumption
  <2>3. r.start \in 0 .. AddressSpace - 1 - PlatformBytes
    BY <2>1, ProfileAssumption
  <2> QED
    BY <2>1, <2>2, <2>3
<1>2. CASE r = [start |-> PlicBase, bytes |-> PlicBytes]
  BY <1>2, ProfileAssumption
<1>3. CASE r = [start |-> VirtioBase, bytes |-> VirtioBytes]
  BY <1>3, ProfileAssumption
<1> QED
  BY <1>1, <1>2, <1>3 DEF Reserved

\* What validate accepts has a UART whose addresses are nobody else's.
THEOREM AcceptedUartIsAlone ==
  ASSUME NEW p \in MachineProfile, Valid(p)
  PROVE  UartAddresses(p) \cap (RamAddresses(p) \cup DeviceAddresses) = {}
<1> SUFFICES ASSUME NEW a \in UartAddresses(p)
             PROVE  a \notin RamAddresses(p) /\ a \notin DeviceAddresses
  OBVIOUS
<1>1. a \in Nat /\ p.base <= a /\ a < UartEnd(p)
  BY UartDoesNotWrap
<1>2. p.base \in Nat /\ p.ram_bytes \in Nat /\ UartEnd(p) \in Nat
  BY ProfileAssumption DEF MachineProfile, UartEnd
<1>3. a \notin RamAddresses(p)
  BY <1>1, <1>2 DEF Valid, UartValid, RamAddresses
<1>4. ASSUME NEW r \in Reserved, NEW i \in 0 .. r.bytes - 1, a = r.start + i
      PROVE  FALSE
  <2>1. r.start \in Nat /\ r.bytes \in Nat
    BY ReservedTypes
  <2>2. ~ranges_overlap(p.base, UartEnd(p), r.start, r.start + r.bytes)
    BY DEF Valid, UartValid
  <2>3. ~(r.start <= a /\ a < r.start + r.bytes)
    BY <1>1, <1>2, <2>1, <2>2 DEF ranges_overlap
  <2> QED
    BY <1>4, <2>1, <2>3
<1> QED
  BY <1>3, <1>4 DEF DeviceAddresses

-----------------------------------------------------------------------------
\* The open profile was accepted.
OpenIsAccepted ==
    active.name # None => active.profile \in Contents /\ Valid(active.profile)

\* The running machine's UART is alone, whichever profiles are opened, edited
\* and opened again.
THEOREM UartAlwaysAlone == Spec => []UartIsAlone
<1>1. Init => OpenIsAccepted
  BY DEF Init, OpenIsAccepted
<1>2. OpenIsAccepted /\ [Next]_vars => OpenIsAccepted'
  <2> SUFFICES ASSUME OpenIsAccepted, [Next]_vars PROVE OpenIsAccepted'
    OBVIOUS
  <2>1. CASE Open
    BY <2>1 DEF Open, Accepts, OpenIsAccepted
  <2>2. CASE UNCHANGED active
    BY <2>2 DEF OpenIsAccepted
  <2> QED
    BY <2>1, <2>2 DEF Next, vars, ReadEntry, ReadFails, EndScan, Select,
                      OpenFails, Waiting
<1>3. OpenIsAccepted => UartIsAlone
  BY CatalogAssumption, AcceptedUartIsAlone DEF OpenIsAccepted, UartIsAlone
<1> QED
  BY <1>1, <1>2, <1>3, PTL DEF Spec

-----------------------------------------------------------------------------
\* A catalog of the whole directory is there before anything is opened from it;
\* it is in order, and the first choice was made from it.
InOrder(names) == \A i, j \in 1 .. Len(names) : i < j => names[i] < names[j]

CatalogInv ==
    /\ entries \in Seq(Names)
    /\ step = "scan" => first = None
    /\ first # None =>
         /\ unseen = {}
         /\ catalog \in Seq(Names) /\ catalog # <<>> /\ InOrder(catalog)
         /\ first = startup_entry(catalog)

\* Sorting keeps the number of the names, and puts them in order.
LEMMA SortedTypes ==
  ASSUME NEW names \in Seq(Names), names # <<>>, NEW s \in Sorted(names)
  PROVE  s \in Seq(Names) /\ s # <<>> /\ InOrder(s)
<1>1. Len(names) \in Nat /\ Len(names) # 0
  OBVIOUS
<1>2. {names[i] : i \in 1 .. Len(names)} \subseteq Names
  OBVIOUS
<1>3. s \in [1 .. Len(names) -> {names[i] : i \in 1 .. Len(names)}]
  BY DEF Sorted
<1>4. s \in [1 .. Len(names) -> Names]
  BY <1>2, <1>3
<1>5. s \in Seq(Names) /\ Len(s) = Len(names)
  BY <1>1, <1>4
<1>6. InOrder(s)
  BY <1>5 DEF Sorted, InOrder
<1> QED
  BY <1>1, <1>5, <1>6

\* The startup entry of a catalog in order is the default profile, or the first
\* name there is.
LEMMA StartupEntry ==
  ASSUME NEW names \in Seq(Names), names # <<>>, InOrder(names)
  PROVE  LET listed == {names[i] : i \in 1 .. Len(names)}
         IN  IF Default \in listed THEN startup_entry(names) = Default
             ELSE /\ startup_entry(names) \in listed
                  /\ \A n \in listed : startup_entry(names) <= n
<1>1. 1 \in 1 .. Len(names)
  OBVIOUS
<1>2. CASE \E i \in 1 .. Len(names) : names[i] = Default
  BY <1>2 DEF startup_entry
<1>3. CASE ~\E i \in 1 .. Len(names) : names[i] = Default
  <2>1. startup_entry(names) = names[1]
    BY <1>3 DEF startup_entry
  <2>2. ASSUME NEW i \in 1 .. Len(names) PROVE names[1] <= names[i]
    <3>1. names[1] \in Nat /\ names[i] \in Nat
      <4>1. names[1] \in Names /\ names[i] \in Names
        BY <1>1
      <4> QED
        BY <4>1, CatalogAssumption
    <3>2. i = 1 \/ 1 < i
      OBVIOUS
    <3> QED
      BY <1>1, <3>1, <3>2 DEF InOrder
  <2> QED
    BY <1>1, <1>3, <2>1, <2>2
<1> QED
  BY <1>2, <1>3

\* README: the program opens profiles/default.toml, or the first profile
\* alphabetically, for every directory and every order the host lists it in, and
\* never from a part of the directory.
THEOREM StartupAlwaysChosen == Spec => []StartupChoice
<1>1. Init => CatalogInv
  BY DEF Init, CatalogInv
<1>2. CatalogInv /\ [Next]_vars => CatalogInv'
  <2> SUFFICES ASSUME CatalogInv, [Next]_vars PROVE CatalogInv'
    OBVIOUS
  <2>1. CASE \E n \in Names : ReadEntry(n)
    <3>1. PICK n \in Names : ReadEntry(n)
      BY <2>1
    <3>2. Append(entries, n) \in Seq(Names)
      BY DEF CatalogInv
    <3> QED
      BY <3>1, <3>2 DEF ReadEntry, CatalogInv
  <2>2. CASE EndScan
    <3>1. CASE entries = <<>>
      BY <2>2, <3>1 DEF EndScan, CatalogInv
    <3>2. CASE entries # <<>>
      <4>1. /\ catalog' \in Sorted(entries) /\ first' = startup_entry(catalog')
            /\ step' = "open" /\ unseen' = {} /\ UNCHANGED entries
        BY <2>2, <3>2 DEF EndScan
      <4>2. catalog' \in Seq(Names) /\ catalog' # <<>> /\ InOrder(catalog')
        BY <3>2, <4>1, SortedTypes DEF CatalogInv
      <4> QED
        BY <4>1, <4>2 DEF CatalogInv
    <3> QED
      BY <3>1, <3>2
  <2>3. CASE ReadFails
    BY <2>3 DEF ReadFails, CatalogInv
  <2>4. CASE \/ Open \/ OpenFails \/ Waiting \/ UNCHANGED vars
             \/ \E n \in Names : Select(n)
    <3>1. UNCHANGED <<unseen, entries, catalog, first>> /\ (step' = "scan" => step = "scan")
      BY <2>4 DEF Open, OpenFails, Waiting, Select, vars
    <3> QED
      BY <3>1 DEF CatalogInv
  <2> QED
    BY <2>1, <2>2, <2>3, <2>4 DEF Next
<1>3. CatalogInv => StartupChoice
  BY StartupEntry DEF CatalogInv, StartupChoice, Listed
<1> QED
  BY <1>1, <1>2, <1>3, PTL DEF Spec
=============================================================================
