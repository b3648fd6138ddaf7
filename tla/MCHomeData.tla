----------------------------- MODULE MCHomeData -----------------------------
(***************************************************************************)
(* A small home: one target or two, one session log of two lines, and a    *)
(* bounded number of inputs and failures in any order.                     *)
(***************************************************************************)
EXTENDS HomeData

CONSTANTS Codex, Claude

MCOrder == <<Codex, Claude>>
=============================================================================
