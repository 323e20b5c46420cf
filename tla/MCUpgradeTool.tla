----------------------------- MODULE MCUpgradeTool -----------------------------
(* A small instance of UpgradeTool: pages of 16 bytes. *)
EXTENDS UpgradeTool

\* "small" reaches into the place of the suffix, "large" needs two pages; the "empty"
\* file opens and has no bytes.
MCBinFiles ==
    [small |-> <<128, 7, 6, 5, 4, 3, 2, 1, 0, 255>>,
     large |-> [i \in 1..20 |-> 100 + i],
     empty |-> <<>>]

MCSysParts == <<"MBR_File", "BL_File", "BL_BK_File", "BB_File">>

===============================================================================
