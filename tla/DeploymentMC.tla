----------------------------- MODULE DeploymentMC -----------------------------
(***************************************************************************)
(* Two of labed's databases: a request maps an id, then asks for edges.    *)
(***************************************************************************)
EXTENDS Deployment

MCQueries == <<"IdMappingDatabase", "OpenCitationsDatabase">>
=============================================================================
