---- MODULE MCTopoLayers ----
(* TopoLayers with one geometry column per topology, and a table of one     *)
(* name in two other schemas.  Their columns are independent (every function *)
(* takes the columns one by one, but fix_geometry_columns, which moves a row *)
(* between tables of one name), so the bound here is that there are either   *)
(* topologies or users' tables.                                             *)
EXTENDS TopoLayers

MCUserCols == [schema : {"public", "old"}, table : {"roads"}]
MCCols     == MCUserCols \cup [schema : Names, table : {"node"}]
MCTypes    == {"POINT"}

\* Of two SRIDs of spatial_ref_sys, the first begins the second.
MCSridFound == {<<3200, 3200>>, <<3200, 32001>>, <<32001, 32001>>}
MCTypeFound == {<<"POINT", "POINT">>}
MCOne      == {"city"}
MCTwo      == {"city", "sea"}

NoUserTables == \A c \in MCUserCols : column[c] = Nil /\ gc[c] = Nil

MCNext ==
    \/ NoUserTables /\ TopoStep
    \/ /\ \/ CatalogueStep
          \/ nextId = 0 /\ \E c \in UserCols : UserStep(c)
       /\ UNCHANGED topoVars

MCSpec == TopoInit /\ [][MCNext]_vars
====
