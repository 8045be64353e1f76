---------------------------- MODULE MCWorkQueue ----------------------------
(***************************************************************************)
(* The instances of WorkQueue that TLC checks.  Their hosts and callers    *)
(* are model values; no symmetry: Idle picks a host, and the runs check    *)
(* temporal properties.                                                    *)
(***************************************************************************)
EXTENDS WorkQueue
=============================================================================
