------------------------------- MODULE MCEras -------------------------------
(* Instances of Eras for TLC: constants a .cfg cannot write. *)
EXTENDS Eras

MCLegacyDates == <<2, 2>>
MCOneLegacy == <<1>>
MCNoLegacy == << >>
=============================================================================
