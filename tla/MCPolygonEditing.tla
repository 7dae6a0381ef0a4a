-------------------------- MODULE MCPolygonEditing --------------------------
(* Small instances of PolygonEditing for TLC: two public fields, of which one *)
(* may be the geometry, and a management field.                               *)
EXTENDS PolygonEditing
CONSTANTS name, shape, rent
=============================================================================
