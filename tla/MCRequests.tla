----------------------------- MODULE MCRequests -----------------------------
(***************************************************************************)
(* Instances of the modules about single requests for TLC: two requests    *)
(* side by side, of all those RequestCases and DataCases list.  What Query *)
(* has as parameters is recursive, and instantiated here.                  *)
(***************************************************************************)
EXTENDS Server, TLC

CONSTANTS p1, p2, n1, n2, old

Two == {p1, p2}
AnyOrder == Permutations(Two)

RC == INSTANCE RequestCases
DC == INSTANCE DataCases

----------------------------------------------------------------------------
CaseSignInAsks == RC!SignInRequests
CaseSignInStarts == RC!SignInAtFirst
CaseGroupsAsks == RC!GroupsRequests
CaseGroupsStarts == RC!GroupsAtFirst
CasePublishingAsks == RC!PublishingRequests
CasePublishingStarts == RC!PublishingAtFirst
CaseCollectionsAsks == RC!CollectionsRequests
CaseCollectionsStarts == RC!CollectionsAtFirst
CaseCatalogAsks == DC!CatalogRequests
CaseTransferAsks == DC!TransferRequests
CaseAccountAsks == DC!AccountRequests
CaseAccountStarts == DC!AccountAtFirst
CaseAccountOwners == DC!CredentialOwners

\* A node that serves and one that starts, with the file of a former version.
CaseNodes == {n1, n2}
CaseServing == {n2}
CaseLegacy == [n \in CaseNodes |-> IF n = n1 THEN {"x"} ELSE {}]
CaseCatalogStarts == {{}, {"x"}}

\* The first-run forms of two people, who both have an address.
CaseEmailOf == [p \in Two |-> p]

CaseQueryAsks == DC!QueryRequests
CaseQueryTables == DC!QueryRows
CaseModels == DC!QueryModels
CaseMetrics == DC!QueryMetrics
CaseQuestions == DC!QueryQuestions
CaseJoined == DC!QueryJoined

QA == INSTANCE QueryAnswers WITH
        Requests <- QueryAsks, Tables <- QueryTables, q <- ir, Segments <- DC!QuerySegments

CaseReplaced(fs) == QA!QF!Replaced(fs)
CaseValid(fs) == QA!QF!Valid(fs)
CaseCompiledAll(fs, as) == QA!QF!CompiledAll(fs, as)
CasePassesAll(parts, as, row) == QA!QF!PassesAll(parts, as, row)
CaseColumns(parts) == QA!QF!Columns(parts)

----------------------------------------------------------------------------
(* The properties of Query, for its part: stated there.                    *)

AnswerAsAsked == part = "query" => QA!AnswerAsAsked
CutIsMarked == part = "query" => QA!CutIsMarked
=============================================================================
