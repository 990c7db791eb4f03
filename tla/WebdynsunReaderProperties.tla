--------------------- MODULE WebdynsunReaderProperties ---------------------
(***************************************************************************)
(* What WebdynsunReader is expected to satisfy.  A block is an address     *)
(* line and what follows it, up to the next address line.                  *)
(***************************************************************************)
EXTENDS WebdynsunReader, FiniteSetsExt

(* The last line of a kind before line n, or 0. *)
LastBefore(kind, n) == Max({i \in 1 .. n - 1 : file[i].is = kind} \cup {0})

BlockOf(n) == LastBefore("address", n)

AddressOf(b) == IF b = 0 THEN None ELSE file[b].value

(* A row of a block with a number for address and a type line of its own   *)
(* has that address and that type, whatever lines and blocks precede it;   *)
(* a row before every block has no address (README.md:186).                *)
RowsCarryTheirBlock ==
    \A i \in DOMAIN rows :
        LET b == BlockOf(rows[i].line)
            t == LastBefore("type", rows[i].line)
        IN /\ AddressOf(b) # Unreadable => rows[i].addr = AddressOf(b)
           /\ (HasTypeColumn /\ b < t) => rows[i].type = file[t].value
=============================================================================
