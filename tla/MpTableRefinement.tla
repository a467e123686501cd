--------------------------- MODULE MpTableRefinement ---------------------------
(***************************************************************************)
(* The pointer table of MpTable implements the map of RouteMap, by the     *)
(* mapping of TableMap.                                                    *)
(***************************************************************************)
EXTENDS MpTable, TableMap

absRoutes == AbsRoutes(table)
absPeers == AbsPeers(table)

RM == INSTANCE RouteMap WITH
        routes <- absRoutes, peers <- absPeers, up <- Running

(* Every command does to the map what the header comments say, and nothing *)
(* else: no command on one route or one peer changes the binding or the    *)
(* paths of another, and no handler changes the map at all.                *)
RouteMapSpec == RM!Spec
===============================================================================
