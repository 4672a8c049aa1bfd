------------------------- MODULE MCUpgradeDiagnose -------------------------
(* Instances of UpgradeDiagnose for TLC.  "bgp" and "swss" stand for the    *)
(* five containers of container_names, with one or two of their programs;   *)
(* the container "dhcp" is not in procs_table.  "zebra.sh" stands for a     *)
(* wrapper script: a line of ps that is no program of procs_table.          *)
EXTENDS UpgradeDiagnose

TwoContainers == <<"bgp", "swss">>
OneContainer == <<"bgp">>

TwoTables == [c \in {"bgp", "swss"} |->
                 IF c = "bgp" THEN {"zebra"} ELSE {"portmgrd", "subportmgrd"}]
OneTable == [c \in {"bgp"} |-> {"zebra", "bgpd"}]

Itself == {<<p, p>> : p \in {"zebra", "bgpd", "portmgrd", "subportmgrd"}}

(* The one name of procs_table that is part of another one's, and the       *)
(* wrapper's line.                                                          *)
AsInTable == Itself \cup {<<"portmgrd", "subportmgrd">>, <<"zebra", "zebra.sh">>}

=============================================================================
