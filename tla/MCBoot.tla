--------------------------------- MODULE MCBoot ---------------------------------
(* An instance of Boot: two processes of one host, the first under the watch, and a *)
(* process of another host that has the first one's pid and an older build.        *)
EXTENDS Boot

CONSTANTS one, two, far

ProcessesDef == {one, two, far}
HostDef == [q \in ProcessesDef |-> IF q = far THEN "there" ELSE "here"]
PidDef == [q \in ProcessesDef |-> IF q = two THEN 2 ELSE 1]
BuildDef == [q \in ProcessesDef |-> IF q = far THEN 1 ELSE 2]
================================================================================
