----------------------------- MODULE MCWLLayer -----------------------------
(* A partition of three pages of data and the dummy page.                      *)
EXTENDS WLLayer

MCData == {"x", "y"}
MCFaults == {"header", "memory", "record", "sector", "image"}
=============================================================================
