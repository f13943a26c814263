------------------------------- MODULE MCArena -------------------------------
(***************************************************************************)
(* Arena on a small machine: addresses of five bits, pages of four units  *)
(* (32 bytes), a base that is only page-aligned; requests that exceed the  *)
(* reservation, wrap the address, or round up to nothing.                  *)
(***************************************************************************)
EXTENDS Arena

MCBases    == {4}
MCRequests == {15, 30}
MCFileSizes == {14, 28}
MCSizes    == {1, 5, 31}
MCAligns   == {0, 3, 8}
=============================================================================
