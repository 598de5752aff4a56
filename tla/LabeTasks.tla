------------------------------ MODULE LabeTasks ------------------------------
(***************************************************************************)
(* The graph of luigi tasks, from tasks.py, stats.py and experimental.py   *)
(* in python/labe; the two cron jobs run all but the experimental ones.  A *)
(* task is a class, with the suffix of its link where there is one (the    *)
(* SOLR index, full or short documents); dates, institutions and ids of    *)
(* experiments are left out of the name.                                   *)
(***************************************************************************)
EXTENDS Integers, FiniteSets

(* Citation data is versioned by the sha1 of the URL of the dump,          *)
CitationTask ==
  { "OpenCitationsDownload", "OpenCitationsSingleFile", "OpenCitationsDatabase",
    "OpenCitationsRanked", "OpenCitationsCitedCountTable",
    "OpenCitationsCitedCountDatabase" }

CitationStatsTask ==
  { "OpenCitationsSourceDOI", "OpenCitationsTargetDOI", "OpenCitationsUniqueDOI",
    "OpenCitationsCitedCount", "OpenCitationsCitingCount",
    "OpenCitationsInboundStats", "OpenCitationsOutboundStats" }

(* index data and reports by their date parameter.  Ids are mapped by the  *)
(* full documents of "main", the server has the short ones.                *)
FetchDocs ==
  { "SolrFetchDocs-ai-short", "SolrFetchDocs-main", "SolrFetchDocs-main-short",
    "SolrFetchDocs-slub-production" }

DocsToMap == FetchDocs \ {"SolrFetchDocs-main-short"}

SolrDatabase ==
  {"SolrDatabase-ai-short", "SolrDatabase-main-short", "SolrDatabase-slub-production"}

IndexTask == FetchDocs \cup SolrDatabase \cup {"IdMappingTable", "IdMappingDatabase"}

ReportTask ==
  { "IdMappingTableForInstitution", "IndexMappedDOI", "IndexMappedDOIForInstitution",
    "StatsCommonDOI", "StatsCommonDOIForInstitution", "StatsReportData" }

(* Experimental ones by the id of the experiment, whatever the dump is,    *)
(* and their reports by date as well.                                      *)
ExpCitationTask ==
  { "ExpRefcatDownload", "OpenCitationsDOITable", "ExpRefcatOnly", "ExpOpenCitationsOnly",
    "ExpCombinedCitationsTable", "ExpCitationsSourceDOI", "ExpCitationsTargetDOI",
    "ExpCitationsCitedCount", "ExpCitationsCitingCount", "ExpCitationsInboundStats",
    "ExpCitationsOutboundStats", "ExpCitationsUniqueDOI" }

ExpReportTask ==
  {"ExpStatsCommonDOI", "ExpStatsCommonDOIForInstitution", "ExpStatsReportData"}

DumpTask == CitationTask \cup CitationStatsTask
DailyTask == IndexTask \cup ReportTask
CronTask == DumpTask \cup DailyTask
TaskName == CronTask \cup ExpCitationTask \cup ExpReportTask

(* requires() of every task, as a relation.                                *)
CitationEdge ==
  { <<"OpenCitationsSingleFile", "OpenCitationsDownload">>,
    <<"OpenCitationsCitedCountDatabase", "OpenCitationsCitedCountTable">> }
  \cup ({"OpenCitationsDatabase", "OpenCitationsRanked",
         "OpenCitationsCitedCountTable"} \X {"OpenCitationsSingleFile"})

CitationStatsEdge ==
  { <<"OpenCitationsSourceDOI", "OpenCitationsSingleFile">>,
    <<"OpenCitationsTargetDOI", "OpenCitationsSingleFile">>,
    <<"OpenCitationsCitedCount", "OpenCitationsTargetDOI">>,
    <<"OpenCitationsCitingCount", "OpenCitationsSourceDOI">>,
    <<"OpenCitationsInboundStats", "OpenCitationsCitedCount">>,
    <<"OpenCitationsOutboundStats", "OpenCitationsCitingCount">>,
    <<"OpenCitationsUniqueDOI", "OpenCitationsSourceDOI">>,
    <<"OpenCitationsUniqueDOI", "OpenCitationsTargetDOI">> }

IndexEdge ==
  { <<"SolrDatabase-ai-short", "SolrFetchDocs-ai-short">>,
    <<"SolrDatabase-main-short", "SolrFetchDocs-main-short">>,
    <<"SolrDatabase-slub-production", "SolrFetchDocs-slub-production">>,
    <<"IdMappingDatabase", "IdMappingTable">> }
  \cup ({"IdMappingTable"} \X DocsToMap)

ReportEdge ==
  { <<"IndexMappedDOIForInstitution", "IdMappingTableForInstitution">>,
    <<"IndexMappedDOI", "IdMappingTable">> }
  \cup ({"IdMappingTableForInstitution"} \X DocsToMap)
  \cup ({"StatsCommonDOI"} \X {"IndexMappedDOI", "OpenCitationsUniqueDOI"})
  \cup ({"StatsCommonDOIForInstitution"}
          \X {"IndexMappedDOIForInstitution", "OpenCitationsUniqueDOI"})
  \cup ({"StatsReportData"}
          \X {"StatsCommonDOI", "StatsCommonDOIForInstitution", "IndexMappedDOI",
              "IndexMappedDOIForInstitution", "OpenCitationsInboundStats",
              "OpenCitationsOutboundStats", "OpenCitationsUniqueDOI",
              "OpenCitationsSingleFile"})

ExpCitationEdge ==
  { <<"OpenCitationsDOITable", "OpenCitationsSingleFile">>,
    <<"ExpCitationsSourceDOI", "ExpCombinedCitationsTable">>,
    <<"ExpCitationsTargetDOI", "ExpCombinedCitationsTable">>,
    <<"ExpCitationsCitedCount", "ExpCitationsTargetDOI">>,
    <<"ExpCitationsCitingCount", "ExpCitationsSourceDOI">>,
    <<"ExpCitationsInboundStats", "ExpCitationsCitedCount">>,
    <<"ExpCitationsOutboundStats", "ExpCitationsCitingCount">> }
  \cup ({"ExpRefcatOnly", "ExpOpenCitationsOnly"}
          \X {"ExpRefcatDownload", "OpenCitationsDOITable"})
  \cup ({"ExpCombinedCitationsTable"} \X {"ExpRefcatDownload", "OpenCitationsSingleFile"})
  \cup ({"ExpCitationsUniqueDOI"} \X {"ExpCitationsSourceDOI", "ExpCitationsTargetDOI"})

ExpReportEdge ==
  ({"ExpStatsCommonDOI"} \X {"IndexMappedDOI", "ExpCitationsUniqueDOI"})
  \cup ({"ExpStatsCommonDOIForInstitution"}
          \X {"IndexMappedDOIForInstitution", "ExpCitationsUniqueDOI"})
  \cup ({"ExpStatsReportData"}
          \X {"ExpStatsCommonDOI", "ExpStatsCommonDOIForInstitution", "IndexMappedDOI",
              "IndexMappedDOIForInstitution", "ExpCitationsInboundStats",
              "ExpCitationsOutboundStats", "ExpCitationsUniqueDOI",
              "ExpCombinedCitationsTable"})

Edge == CitationEdge \cup CitationStatsEdge \cup IndexEdge \cup ReportEdge
          \cup ExpCitationEdge \cup ExpReportEdge
RequiredBy(t) == {d \in TaskName : <<t, d>> \in Edge}

(* build_dep_graph: what is in the queue after the tasks of n levels have  *)
(* been taken out of it, and all that has ever been in it.                 *)
Levels == Cardinality(TaskName)
Queue(t) ==
  LET q[n \in 0 .. Levels] == IF n = 0 THEN {t} ELSE UNION {RequiredBy(u) : u \in q[n - 1]}
  IN q
DepGraph(t) == LET q == Queue(t) IN UNION {q[n] : n \in 0 .. Levels}

(* The wrapper task of the nightly job, which has no output of its own.    *)
CombinedUpdate == SolrDatabase \cup
  { "IdMappingDatabase", "OpenCitationsDatabase", "OpenCitationsCitedCountDatabase", "OpenCitationsRanked" }

(* The tasks of reports have no on_success that makes a link.              *)
Unlinked == ReportTask

(* The tasks that read their inputs by process substitution, <(zstdcat x). *)
Substituted ==
  { "OpenCitationsUniqueDOI", "StatsCommonDOI", "StatsCommonDOIForInstitution",
    "ExpRefcatOnly", "ExpOpenCitationsOnly", "ExpCombinedCitationsTable",
    "ExpCitationsUniqueDOI", "ExpStatsCommonDOI", "ExpStatsCommonDOIForInstitution" }

(* Directories with a file .labekeep.                                      *)
Kept == {"StatsReportData"}

(* No task requires itself, over however many others: build_dep_graph,     *)
(* which keeps no record of where it has been, comes to an end, and so do  *)
(* the jobs.                                                               *)
ASSUME GraphEnds == \A t \in TaskName : Queue(t)[Levels] = {}

(* What the nightly job builds, and all it builds that from, has a link:   *)
(* the next night's cleanup leaves it alone.                               *)
ASSUME UpdateIsLinked ==
  \A t \in CombinedUpdate : DepGraph(t) \subseteq CronTask \ Unlinked

(* Citation data and the statistics about it need nothing that is named by *)
(* date, and the nightly job needs no task with a process substitution.    *)
(* Only reports, which have no link, are kept by a .labekeep.              *)
ASSUME DumpTasksApart == \A t \in DumpTask : RequiredBy(t) \subseteq DumpTask
ASSUME UpdateIsStrict == \A t \in CombinedUpdate : DepGraph(t) \cap Substituted = {}
ASSUME OnlyReportsKept == Kept \subseteq Unlinked

(* Nothing but the single file of citations is made from the archive of a  *)
(* dump, and no job asks for the archive itself: so these two are always   *)
(* looked up one after the other.                                          *)
ASSUME ChainBegins ==
  /\ RequiredBy("OpenCitationsDownload") = {}
  /\ RequiredBy("OpenCitationsSingleFile") = {"OpenCitationsDownload"}
  /\ \A t \in TaskName :
       "OpenCitationsDownload" \in RequiredBy(t) => t = "OpenCitationsSingleFile"
  /\ "OpenCitationsDownload" \notin CombinedUpdate

(* The databases that labed opens (labed.service.j2:16-20) are made by the *)
(* nightly job only: no report, whether of the daily job or experimental,  *)
(* is built from one, so they are among what ArtifactStore calls Owned,    *)
(* also while reports are made.                                            *)
ASSUME DatabasesHaveOneWriter ==
  \A t \in ReportTask \cup ExpReportTask :
    DepGraph(t) \cap (SolrDatabase \cup {"IdMappingDatabase", "OpenCitationsDatabase"}) = {}
=============================================================================
