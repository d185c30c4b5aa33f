------------------------------ MODULE MCHwPath ------------------------------
(* HwPath for model checking.                                              *)
EXTENDS HwPath

\* Every configuration of the hardware route.
AllConfigs == ConfigType
=============================================================================
