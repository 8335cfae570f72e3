----------------------------- MODULE MCImports -----------------------------
(* Two coffees of one day and price, and a transfer with a long description *)
(* that costs what a coffee does: one too many and one too few cancel.      *)
EXTENDS Imports, TLC

CONSTANTS coffee, transfer

Both == <<coffee, transfer>>
Twice == coffee :> 2 @@ transfer :> 1
DayOf == coffee :> 2 @@ transfer :> 1
AuthorisedOf == coffee :> (-1) @@ transfer :> (-2)
AmountOfKind == coffee :> (-2) @@ transfer :> (-2)
StemOf == coffee :> coffee @@ transfer :> transfer
=============================================================================
