---------------------------- MODULE MCTimeline ----------------------------
(***************************************************************************)
(* Four messages for TLC: one that wraps in the narrow widget, one whose   *)
(* sender's name leaves no room there, and two that take one line in both. *)
(***************************************************************************)
EXTENDS Timeline

Narrow == 1

MCLineCount ==
  [m \in Messages |-> [w \in Widths |->
     CASE m = 2 -> IF w = Narrow THEN 2 ELSE 1
       [] m = 3 -> IF w = Narrow THEN 0 ELSE 2
       [] OTHER -> 1]]

=============================================================================
