---------------------------- MODULE MCRepairLoop ----------------------------
(***************************************************************************)
(* Instances of RepairLoop for TLC: a few texts, each lacking the gates    *)
(* that tell the modes apart.                                              *)
(***************************************************************************)
EXTENDS RepairLoop

CONSTANTS orig, untested, dirty, sound, edit, none

MCTexts == {orig, untested, dirty, sound, edit}

\* A gate may fail a good text, so that an original that compiles and passes its
\* tests is also found broken.  The editor's text does not pass them.
GoodTexts ==
  [t \in MCTexts |->
     CASE t = orig     -> {"compile", "test", "output"}
       [] t = untested -> {"compile", "analysis", "speed"}
       [] t = dirty    -> {"compile", "test", "output"}
       [] t = sound    -> Gates
       [] t = edit     -> {"compile", "analysis", "output", "speed"}]

AllConfigs == Config
=============================================================================
