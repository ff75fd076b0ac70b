------------------------------- MODULE Catalog -------------------------------
(***************************************************************************)
(* Starting up: ProfileCatalog::scan of src/profile_catalog.rs reads the   *)
(* profile directory in whatever order the host lists it, and              *)
(* PlaygroundViewModel of src/view_model.rs opens one of its entries, at   *)
(* first the startup entry and then those the user selects.  The directory *)
(* and its files belong to the user, who may change them at any moment:    *)
(* what an entry is, and what a profile file says, is chosen when it is    *)
(* read.  A name is its place in the alphabet.                             *)
(***************************************************************************)
EXTENDS Profile, Sequences

CONSTANTS
    Names,       \* the names the directory may list, as places in the alphabet
    Default,     \* the place of default.toml
    Contents     \* what a file that decodes may say

ASSUME CatalogAssumption ==
    /\ Names \subseteq Nat \ {0} /\ Default \in Names
    /\ Contents \subseteq MachineProfile

VARIABLES
    step,      \* what from_profiles_dir or select_profile is about to do
    unseen,    \* the names read_dir has not returned yet
    entries,   \* ProfileCatalog.entries, in the order they were found
    catalog,   \* the sorted entries; empty as long as there is no catalog
    target,    \* the name select_profile was called with last
    first,     \* history: the first of those
    active     \* the open profile: its name and its contents

vars == <<step, unseen, entries, catalog, target, first, active>>

None == 0

Listed == {catalog[i] : i \in 1 .. Len(catalog)}

Init ==
    /\ step = "scan" /\ unseen = Names /\ entries = <<>> /\ catalog = <<>>
    /\ target = None /\ first = None /\ active = [name |-> None]

-----------------------------------------------------------------------------
(* ProfileCatalog::scan and what follows it in from_profiles_dir.          *)

\* The next entry, which is a regular .toml file or is passed over.
ReadEntry(n) ==
    /\ step = "scan" /\ n \in unseen
    /\ unseen' = unseen \ {n}
    /\ entries' \in {entries, Append(entries, n)}
    /\ UNCHANGED <<step, catalog, target, first, active>>

\* The directory, an entry or its type cannot be read: no catalog at all.
ReadFails ==
    /\ step = "scan"
    /\ step' = "idle" /\ entries' = <<>>
    /\ UNCHANGED <<unseen, catalog, target, first, active>>

\* Mutant of Sorted: the host's order.
Unsorted(names) == {names}

\* What sort_by makes of the names, which are all different.
Sorted(names) ==
    LET found == {names[i] : i \in 1 .. Len(names)}
    IN  {s \in [1 .. Len(names) -> found] :
            /\ \A n \in found : \E i \in 1 .. Len(names) : s[i] = n
            /\ \A i, j \in 1 .. Len(names) : i < j => s[i] < s[j]}

startup_entry(names) ==
    IF \E i \in 1 .. Len(names) : names[i] = Default THEN Default ELSE names[1]

EndScan ==
    /\ step = "scan" /\ unseen = {}
    /\ IF entries = <<>>
       THEN step' = "idle" /\ UNCHANGED <<catalog, target, first>>
       ELSE /\ catalog' \in Sorted(entries)
            /\ target' = startup_entry(catalog') /\ first' = target'
            /\ step' = "open"
    /\ UNCHANGED <<unseen, entries, active>>

-----------------------------------------------------------------------------
(* select_profile.                                                         *)

\* The selector lists the catalog and passes on what is not active already.
Select(n) ==
    /\ step = "idle" /\ n \in Listed \ {active.name}
    /\ target' = n /\ step' = "open"
    /\ UNCHANGED <<unseen, entries, catalog, first, active>>

\* MachineProfile::load, and again in RuntimeHandle::spawn.
Accepts(p) == Valid(p)

Open ==
    /\ step = "open"
    /\ \E p \in Contents : Accepts(p) /\ active' = [name |-> target, profile |-> p]
    /\ step' = "idle"
    /\ UNCHANGED <<unseen, entries, catalog, target, first>>

\* The file is gone, does not decode or is not valid, the firmware or the disk
\* cannot be read, or the machine cannot be built: nothing else changes.
OpenFails ==
    /\ step = "open"
    /\ step' = "idle"
    /\ UNCHANGED <<unseen, entries, catalog, target, first, active>>

\* The program waits for the user, who may have nothing to select.
Waiting == step = "idle" /\ UNCHANGED vars

Next ==
    \/ \E n \in Names : ReadEntry(n) \/ Select(n)
    \/ ReadFails \/ EndScan \/ Open \/ OpenFails \/ Waiting

Spec == Init /\ [][Next]_vars

-----------------------------------------------------------------------------
\* README: the program tries profiles/default.toml or the first profile
\* alphabetically, in whatever order the host lists the directory, and it has
\* seen all of the directory before it chooses.
StartupChoice ==
    first # None =>
        /\ unseen = {}
        /\ IF Default \in Listed THEN first = Default
           ELSE first \in Listed /\ \A n \in Listed : first <= n

\* The machine that runs has a UART of its own: each of its registers has an
\* address, and no address of it is one of the RAM or of another device,
\* wherever in the address space a profile puts it.
UartIsAlone ==
    active.name # None =>
        UartAddresses(active.profile)
          \cap (RamAddresses(active.profile) \cup DeviceAddresses) = {}
=============================================================================
