---------------------------- MODULE MCSdkUpdate ----------------------------
(* Three packages; the one with the greatest URL is not the newest, and two *)
(* have the same version.                                                    *)
EXTENDS SdkUpdate

MCSdkVersion == [p \in Packages |-> IF p = 2 THEN 27 ELSE 26]
=============================================================================
