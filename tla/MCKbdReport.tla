---------------------------- MODULE MCKbdReport ----------------------------
(* Small layouts: two modifiers, a famikb matrix with each key once, and a *)
(* Subor matrix with a key in two cells and an unused cell (0x00).         *)
(* scancodes is a record of the last report: no guard and no invariant     *)
(* reads it, so states that differ only in it are explored once.           *)
EXTENDS KbdReport

MC_modkeys  == <<120, 121>>
MC_famikey  == <<7, 5, 120, 4>>
MC_suborkey == <<4, 5, 0, 121, 4>>

MC_Symmetry == Permutations(Keyboards)
MC_View     == <<usb2kbmode, board, prev_report, keymatrix, neskeys>>
=============================================================================
