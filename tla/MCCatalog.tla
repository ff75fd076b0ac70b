------------------------------ MODULE MCCatalog ------------------------------
(* An address space of 32 addresses with a UART of two, wherever it may lie. *)
EXTENDS Catalog

Bases == {11, 14, 17}

\* A valid profile but for the sizes and the place of the UART.
Sized == {[schema_version |-> 1, elf |-> "relative", disk |-> "none",
           ram_bytes |-> ram, backend |-> [kind |-> "cached", sets |-> 4],
           instructions_per_tick |-> 1, timer_units_per_tick |-> 1,
           base |-> base] : ram \in {0, 1, 5, 11, 12}, base \in 0 .. 31}

\* One whose UART is inside the RAM, with one part or another that is refused.
Wrong == [schema_version |-> 1, elf |-> "relative", disk |-> "relative",
          ram_bytes |-> 11, backend |-> [kind |-> "predecoded"],
          instructions_per_tick |-> 1, timer_units_per_tick |-> 1, base |-> 5]

SomeContents == Sized \cup {Wrong, [Wrong EXCEPT !.disk = "absolute"]}
=============================================================================
