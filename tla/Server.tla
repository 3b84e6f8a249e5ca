------------------------------- MODULE Server -------------------------------
(***************************************************************************)
(* The parts of the server that answer single requests, together.  No two  *)
(* of the modules share a row that one of them writes, so a behaviour is   *)
(* one of one module (part) and the variables of the others are idle.      *)
(* Collections is extended, and the other modules are instances: their     *)
(* names are the same as its own.  Groups is an instance with its theorems, *)
(* which hold for the part.                                                *)
(***************************************************************************)
EXTENDS Collections

CONSTANTS
  SignInAsks, SignInStarts, Members, Providers,
  GroupsAsks, GroupsStarts, GroupMembers, ManualGroups, Departments,
  PublishingAsks, PublishingStarts, Boards, Tabs, NoTab,
  CatalogAsks, CatalogStarts, Sources, Nodes, Serving, Legacy, Gone,
  TransferAsks, Tables, Targets, Skipped, Nobody, MaxWrites,
  AccountAsks, AccountStarts, AccountOwners, MaxTime,
  Emails, EmailOf, NoSite,
  QueryAsks, QueryTables, Models, Metrics, Questions, Joined, ForeignKeys,
  DefaultLimit, MaxLimit, DrillLimit, ScanRows, ResultBytes, CellBytes, KeyRows, Today, MaxSaves,
  WithoutSegments(_), Validated(_), StatementOf(_, _), PassesTests(_, _, _), ColumnsOf(_),
  MaxFaults    \* bound of the model: statements that fail, processes that die

VARIABLES
  part,
  todo, faults, fresh, truth, changes,
  db, browser, bound,
  members, graph, rules, lists, asked,
  boards, switches, revisions, word,
  listed, secrets, snapshots, pools, boot, at, seen, dirty, changer, filled,
  source, marked, target, identity, holder, live, writes, view, work, cut,
  users, sessions, keys, dev, now, met,
  groups, siteName, completed, collections,
  table, saved, first, stage, ir, args, where, given, answer

SI == INSTANCE SignIn WITH Requests <- SignInAsks, Starts <- SignInStarts, Users <- Members

GR == INSTANCE GroupsProofs WITH
        Requests <- GroupsAsks, Starts <- GroupsStarts, Users <- GroupMembers,
        Manual <- ManualGroups, Synced <- Departments

PU == INSTANCE Publishing WITH Requests <- PublishingAsks, Starts <- PublishingStarts

CA == INSTANCE Catalog WITH Requests <- CatalogAsks, Starts <- CatalogStarts

TR == INSTANCE Transfer WITH Requests <- TransferAsks

AC == INSTANCE Accounts WITH
        Requests <- AccountAsks, Starts <- AccountStarts, Users <- Members, Owners <- AccountOwners

\* Whoever sends a first-run form is named by the process that serves it.
SU == INSTANCE Setup WITH Requests <- Procs

QU == INSTANCE Query WITH Requests <- QueryAsks, Tables <- QueryTables, q <- ir

\* What the theorems about the modules assume of their constants.
ASSUME PlausibleCases ==
  /\ SI!Plausible /\ GR!Plausible /\ PU!Plausible /\ Plausible
  /\ CA!Plausible /\ TR!Plausible /\ AC!Plausible
  /\ SU!SetupAssumption /\ QU!Plausible

----------------------------------------------------------------------------
procVars == <<req, pc, mem, todo, faults, raced, notes>>
tellVars == <<fresh, truth, changes>>
signInVars == <<db, browser, bound>>
groupVars == <<members, graph, rules, lists, asked>>
boardVars == <<boards, switches, revisions, word>>
colVars == <<cols, items, roles, shares, alerts, knew>>
catalogVars == <<listed, secrets, snapshots, pools, boot, at, seen, dirty, changer, filled>>
transferVars == <<source, marked, target, identity, holder, live, writes, view, work, cut>>
accountVars == <<users, sessions, keys, dev, now, met>>
setupVars == <<groups, siteName, completed, collections>>
queryVars == <<table, saved, first, stage, ir, args, where, given, answer>>
allVars == <<part, procVars, tellVars, signInVars, groupVars, boardVars, colVars,
          catalogVars, transferVars, accountVars, setupVars, queryVars>>

NoSignIn == db = 0 /\ browser = 0 /\ bound = 0
NoGroups == members = 0 /\ graph = 0 /\ rules = 0 /\ lists = 0 /\ asked = 0
NoBoards == boards = 0 /\ switches = 0 /\ revisions = 0 /\ word = 0
NoCols == cols = <<>> /\ items = <<>> /\ roles = {} /\ shares = {} /\ alerts = <<>> /\ knew = 0
NoCatalog ==
  /\ listed = 0 /\ secrets = 0 /\ snapshots = 0 /\ pools = 0 /\ boot = 0
  /\ at = 0 /\ seen = 0 /\ dirty = 0 /\ changer = 0 /\ filled = 0
NoTransfer ==
  /\ source = 0 /\ marked = 0 /\ target = 0 /\ identity = 0 /\ holder = 0 /\ live = 0
  /\ writes = 0 /\ view = 0 /\ work = 0 /\ cut = 0
NoAccounts == users = 0 /\ sessions = 0 /\ keys = 0 /\ dev = 0 /\ now = 0 /\ met = 0
NoSetup == groups = 0 /\ siteName = 0 /\ completed = 0 /\ collections = 0
NoQuery ==
  /\ table = 0 /\ saved = 0 /\ first = 0 /\ stage = 0 /\ ir = 0 /\ args = 0 /\ where = 0
  /\ given = 0 /\ answer = 0

NoRows == NoSignIn /\ NoGroups /\ NoBoards /\ NoCols /\ NoSetup /\ NoQuery
NoData == NoCatalog /\ NoTransfer /\ NoAccounts /\ NoSetup /\ NoQuery
NoTells == fresh = 0 /\ truth = 0 /\ changes = 0
NoTodo == todo = 0 /\ faults = 0

AnyInit ==
  \/ /\ part = "signIn" /\ SI!Init
     /\ truth = 0 /\ changes = 0 /\ NoTodo /\ notes = 0 /\ NoGroups /\ NoBoards /\ NoCols /\ NoData
  \/ /\ part = "groups" /\ GR!Init
     /\ notes = 0 /\ NoSignIn /\ NoBoards /\ NoCols /\ NoData
  \/ /\ part = "publishing" /\ PU!Init
     /\ NoTodo /\ notes = 0 /\ NoSignIn /\ NoGroups /\ NoCols /\ NoData
  \/ /\ part = "collections" /\ Init
     /\ NoTells /\ NoTodo /\ NoSignIn /\ NoGroups /\ NoBoards /\ NoData
  \/ /\ part = "catalog" /\ CA!Init
     /\ NoTells /\ NoRows /\ NoTransfer /\ NoAccounts
  \/ /\ part = "transfer" /\ TR!Init
     /\ NoTells /\ mem = 0 /\ notes = 0 /\ NoRows /\ NoCatalog /\ NoAccounts
  \/ /\ part = "accounts" /\ AC!Init
     /\ NoTells /\ NoTodo /\ raced = 0 /\ notes = 0 /\ NoRows /\ NoCatalog /\ NoTransfer
  \/ /\ part = "setup" /\ SU!Init
     /\ NoTells /\ req = 0 /\ mem = 0 /\ todo = 0 /\ raced = 0 /\ notes = 0
     /\ NoSignIn /\ graph = 0 /\ rules = 0 /\ lists = 0 /\ asked = 0 /\ NoBoards /\ NoCols
     /\ NoCatalog /\ NoTransfer /\ keys = 0 /\ dev = 0 /\ now = 0 /\ met = 0 /\ NoQuery
  \/ /\ part = "query" /\ QU!Init
     /\ NoTells /\ pc = 0 /\ mem = 0 /\ NoTodo /\ raced = 0 /\ notes = 0
     /\ NoSignIn /\ NoGroups /\ NoBoards /\ NoCols /\ NoCatalog /\ NoTransfer /\ NoAccounts /\ NoSetup

IdleRows == UNCHANGED <<signInVars, groupVars, boardVars, colVars, setupVars, queryVars>>
IdleData == UNCHANGED <<catalogVars, transferVars, accountVars, setupVars, queryVars>>

SignInStep ==
  /\ part = "signIn" /\ SI!Next
  /\ UNCHANGED <<part, truth, changes, todo, faults, notes, groupVars, boardVars, colVars>> /\ IdleData
GroupsStep ==
  part = "groups" /\ GR!Next /\ UNCHANGED <<part, notes, signInVars, boardVars, colVars>> /\ IdleData
PublishingStep ==
  /\ part = "publishing" /\ PU!Next
  /\ UNCHANGED <<part, todo, faults, notes, signInVars, groupVars, colVars>> /\ IdleData
CollectionsStep ==
  /\ part = "collections" /\ Next
  /\ UNCHANGED <<part, todo, faults, tellVars, signInVars, groupVars, boardVars>> /\ IdleData
CatalogStep ==
  part = "catalog" /\ CA!Next /\ IdleRows /\ UNCHANGED <<part, tellVars, transferVars, accountVars>>
TransferStep ==
  /\ part = "transfer" /\ TR!Next
  /\ IdleRows /\ UNCHANGED <<part, mem, notes, tellVars, catalogVars, accountVars>>
AccountsStep ==
  /\ part = "accounts" /\ AC!Next /\ IdleRows
  /\ UNCHANGED <<part, todo, faults, raced, notes, tellVars, catalogVars, transferVars>>
SetupStep ==
  /\ part = "setup" /\ SU!Next
  /\ UNCHANGED <<part, req, mem, todo, raced, notes, tellVars, signInVars, graph, rules, lists, asked, boardVars, colVars,
                 catalogVars, transferVars, keys, dev, now, met, queryVars>>
QueryStep ==
  /\ part = "query" /\ QU!Next
  /\ UNCHANGED <<part, pc, mem, todo, faults, raced, notes, tellVars, signInVars, groupVars, boardVars, colVars,
                 catalogVars, transferVars, accountVars, setupVars>>

AnyNext ==
  \/ SignInStep \/ GroupsStep \/ PublishingStep \/ CollectionsStep
  \/ CatalogStep \/ TransferStep \/ AccountsStep \/ SetupStep \/ QueryStep

AnySpec == AnyInit /\ [][AnyNext]_allVars

----------------------------------------------------------------------------
(* The properties of the other modules, each for its part: stated there.   *)
(* Those of Collections say nothing of a part without groups.              *)

LinkedOnce == part = "signIn" => SI!LinkedOnce
SignInKeptOrOverlap == part = "signIn" => SI!SignInKeptOrOverlap
LastSignInKeptOrOverlap == [][part = "signIn" => SI!LastSignInKept /\ SI!SecretsKept]_allVars

GroupsAsSavedOrOverlap == part = "groups" => GR!GroupsAsSavedOrOverlap
DecidedOnSomeMoment == part = "groups" => GR!DecidedOnSomeMoment
OwnedMembershipsStay == [][part = "groups" => GR!OwnerChanges]_allVars

EmbedNeedsLink == part = "publishing" => PU!EmbedNeedsLink
BoardAsAskedOrOverlap == part = "publishing" => PU!BoardAsAskedOrOverlap
VisitOnSomeMoment == part = "publishing" => PU!VisitOnSomeMoment

WholeOrDirty == part = "catalog" => CA!WholeOrDirty
ConnectedAsSavedOrElsewhere == part = "catalog" => CA!ConnectedAsSavedOrElsewhere
ImportsOnlyMissingOrOverlap == [][part = "catalog" => CA!ImportFillsGaps]_allVars

CopiesOneMoment == part = "transfer" => TR!CopiesOneMoment
OneTargetOrOverlap == part = "transfer" => TR!OneTargetOrOverlap

AdmittedOnSomeMoment == part = "accounts" => AC!AdmittedOnSomeMoment
ChangedAsAllowedOnSomeMoment == part = "accounts" => AC!ChangedAsAllowedOnSomeMoment

CompletedIsWhole == part = "setup" => SU!CompletedIsWhole

AnswerWithinLimits == part = "query" => QU!AnswerWithinLimits
=============================================================================
