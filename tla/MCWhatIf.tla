------------------------------ MODULE MCWhatIf ------------------------------
(***************************************************************************)
(* One endpoint, asked again and again.                                    *)
(***************************************************************************)
EXTENDS WhatIf
=============================================================================
