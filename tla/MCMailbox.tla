------------------------------ MODULE MCMailbox ------------------------------
(***************************************************************************)
(* Instances of Mailbox for TLC: the function codes of acq32busprot.h that *)
(* the configurations choose from, as strings.                             *)
(***************************************************************************)
EXTENDS Mailbox

MCShortCommand == {"SET_ABORT"}
MCLongCommand  == {"SET_MASK"}
MCArm          == {"SET_ARM"}
MCLongArm      == {"SET_ARM", "SET_MASK"}
MCShortQuery   == {"GET_MASK"}
MCLongQuery    == {"GET_FWREV"}
MCUnknown      == {"SET_EVENT"}
MCWithArgs     == {"SET_MASK"}
MCEarlyAck     == {"SET_ARM", "GET_FWREV"}
MCNone         == {}
=============================================================================
