--------------------------- MODULE MCSlideDialogue ---------------------------
(***************************************************************************)
(* The texts of the dialogue.                                              *)
(***************************************************************************)
EXTENDS SlideDialogue

MCTexts == {"FLOW LOAD DONE", "FLOW GOTO_CAM DONE", "FLOW UNLOAD DONE", "Cam Next",
            "POS_DONE", "Parse Err", "Bad Cmd", "Flow Busy", "other"}
=============================================================================
