--------------------------- MODULE MCFuzzCampaign ---------------------------
(***************************************************************************)
(* Constants for the runs of FuzzCampaign: one or two descriptions of a    *)
(* hang, as many boots and programs as make a second save under the same   *)
(* description and a reboot that is tried again happen.                    *)
(***************************************************************************)
EXTENDS FuzzCampaign

CONSTANTS service, action

OneKind == {service}
TwoKinds == {service, action}
=============================================================================
