------------------------------ MODULE TestEvidence ------------------------------
(***************************************************************************)
(* What the audit of the test reports is worth (tools/ci): pytest_report   *)
(* writes what one pytest session collected and ran, audit_test_reports    *)
(* compares the reports of three sessions, "inventory", "unit" and         *)
(* "integration", that run one after another.                              *)
(*                                                                         *)
(* pytest, git and the developer are external.  A session may go wrong in  *)
(* every way its report can show, the tree and the untracked files in it   *)
(* may change between sessions or under one, and a session that dies       *)
(* leaves its report file as it was.                                       *)
(***************************************************************************)
EXTENDS Integers, Sequences

CONSTANTS Cases,        \* node IDs
          Trees,        \* bound: the tests a tree may have, and where
          MaxVersions,  \* bound: contents of the tree
          MaxSessions,  \* bound: sessions
          MaxOddities   \* bound: whatever is not as in the CI workflow

Lanes == {"unit", "integration"}
Files == Lanes \cup {"inventory"}

\* Where a case is, and whether it has the marker isolated_unit: in unit_tests
\* with or without it, elsewhere without or with it.
Placements == {"unit", "unmarked", "integration", "misfiled", "absent"}

ASSUME EvidenceAssumption ==
  /\ Trees \subseteq [Cases -> Placements]
  /\ {MaxVersions, MaxSessions, MaxOddities} \subseteq Nat

VARIABLES
  tree,      \* the content of the tracked files, the one last committed, the
             \* tests in them, and those found with the untracked files beside them
  session,   \* the report of the session that runs, and its configuration
  fact,      \* what that session does in fact
  reports,   \* the report in each file
  truth,     \* what the session of each report did in fact
  sessions,  \* sessions that wrote a report
  oddities   \* oddities so far

vars == <<tree, session, fact, reports, truth, sessions, oddities>>

\* How an attempt to run a case may end, and the phases pytest reports of it.
Phase(when, outcome, wasxfail) ==
  [when |-> when, outcome |-> outcome, wasxfail |-> wasxfail]
SetUp       == Phase("setup", "passed", FALSE)
Call(o)     == Phase("call", o, FALSE)
Expected(o) == Phase("call", o, TRUE)
TearDown    == Phase("teardown", "passed", FALSE)
AllPassed   == <<SetUp, Call("passed"), TearDown>>

PhasesOf ==
  [passed      |-> AllPassed,
   failed      |-> <<SetUp, Call("failed"), TearDown>>,
   not_set_up  |-> <<Phase("setup", "failed", FALSE), TearDown>>,
   not_cleaned |-> <<SetUp, Call("passed"), Phase("teardown", "failed", FALSE)>>,
   skipped     |-> <<Phase("setup", "skipped", FALSE), TearDown>>,
   xfailed     |-> <<SetUp, Expected("skipped"), TearDown>>,
   xpassed     |-> <<SetUp, Expected("passed"), TearDown>>,
   interrupted |-> <<SetUp>>]

Fates  == DOMAIN PhasesOf
Broken == {"failed", "not_set_up", "not_cleaned"}
Phases == [when : {"setup", "call", "teardown"},
           outcome : {"passed", "failed", "skipped"}, wasxfail : BOOLEAN]

\* What a report says.  Commit 0 is one that git did not name; a case that was
\* not collected has no owner.
Report ==
  [lane : Files, collect_only : BOOLEAN, exitstatus : {0, 1, 2, 5},
   source : [commit : Nat, tracked_dirty : BOOLEAN], errors : BOOLEAN,
   cases : [Cases -> Lanes \cup {"none"}],
   selected : SUBSET Cases, deselected : SUBSET Cases, phases : [Cases -> Seq(Phases)]]

\* What was done: how often each case was run and with which end, on which
\* content (0 if that is not what git said, or something changed meanwhile),
\* which tests were found, whether untracked files had a part in that, and
\* whether all was as in the CI workflow.
Fact == [runs : [Cases -> Nat], last : [Cases -> Fates], content : Nat,
         tests : [Cases -> Placements], untracked : BOOLEAN, plain : BOOLEAN]

NoReport  == [lane |-> "none"]
NoSession == [pc |-> "none"]
Nothing   == [runs |-> [c \in Cases |-> 0], last |-> [c \in Cases |-> "passed"],
              content |-> 0, tests |-> [c \in Cases |-> "absent"],
              untracked |-> FALSE, plain |-> FALSE]

TypeOK ==
  /\ tree \in [content : Nat, commit : Nat, tests : [Cases -> Placements],
                found : [Cases -> Placements]]
  /\ \/ session = NoSession
     \/ session \in [pc : {"configured", "running"}, file : Files,
                     config : {"unit", "default"}, report : Report]
  /\ fact \in Fact
  /\ reports \in [Files -> Report \cup {NoReport}]
  /\ truth \in [Files -> Fact]
  /\ sessions \in Nat
  /\ oddities \in Nat

Init ==
  /\ \E tests \in Trees :
       tree = [content |-> 1, commit |-> 1, tests |-> tests, found |-> tests]
  /\ session = NoSession
  /\ fact = Nothing
  /\ reports = [f \in Files |-> NoReport]
  /\ truth = [f \in Files |-> Nothing]
  /\ sessions = 0
  /\ oddities = 0

-----------------------------------------------------------------------------
(* One pytest session                                                      *)

Odd(usual) == IF usual THEN 0 ELSE 1

\* A step in which n things are not as in the CI workflow.
Allow(n) == oddities + n <= MaxOddities /\ oddities' = oddities + n

\* _revision: git is asked about the tracked files only, and may fail to name
\* the commit, to say what is modified, or both.
Revision == [commit |-> tree.commit, tracked_dirty |-> tree.content # tree.commit]
Answers  == [commit : {Revision.commit, 0}, tracked_dirty : {Revision.tracked_dirty, FALSE}]

\* pytest_configure: --suite-report and --suite-lane are given, in the file and
\* with the configuration that belong together or not.
Start(file, lane, config, collect_only, source) ==
  LET odd == Odd(file = lane) + Odd(source = Revision)
             + Odd(config = "unit" <=> lane = "unit")
             + Odd(collect_only <=> lane = "inventory")
  IN
  /\ session = NoSession /\ sessions < MaxSessions
  /\ lane = "inventory" => collect_only
  /\ session' = [pc |-> "configured", file |-> file, config |-> config,
                 report |-> [lane |-> lane, collect_only |-> collect_only,
                             exitstatus |-> 0, source |-> source, errors |-> FALSE,
                             cases |-> [c \in Cases |-> "none"],
                             selected |-> {}, deselected |-> {},
                             phases |-> [c \in Cases |-> << >>]]]
  /\ fact' = [Nothing EXCEPT !.content = IF source = Revision THEN tree.content ELSE 0,
                             !.plain = odd = 0]
  /\ Allow(odd)
  /\ UNCHANGED <<tree, reports, truth, sessions>>

\* Mutant: a case's owner is the directory it is in.
OwnerByPlace(c) == tree.found[c]

\* _case: the marker decides.
Owner(c) == IF tree.found[c] \in {"unit", "misfiled"} THEN "unit" ELSE "integration"

\* testpaths of pytest-unit.ini and of pyproject.toml: what stands there is
\* collected, tracked or not.
Collected(config) ==
  {c \in Cases : tree.found[c] \in IF config = "unit" THEN {"unit", "unmarked"}
                                   ELSE Placements \ {"absent"}}

\* What "-m" leaves: all cases but for the integration lane.
Chosen(lane, cases) ==
  IF lane = "integration" THEN {c \in cases : Owner(c) # "unit"} ELSE cases

\* Collection: cases is what could be imported, selected what -m and -k leave.
Collect(cases, selected) ==
  LET r     == session.report
      all   == Collected(session.config)
      usual == cases = all /\ selected = Chosen(r.lane, cases)
  IN
  /\ session.pc = "configured"
  /\ cases \subseteq all /\ selected \subseteq cases
  /\ session' = [session EXCEPT !.pc = "running",
       !.report = [r EXCEPT !.errors = cases # all,
                            !.cases = [c \in Cases |-> IF c \in cases THEN Owner(c) ELSE "none"],
                            !.selected = selected, !.deselected = cases \ selected]]
  /\ fact' = [fact EXCEPT !.tests = tree.found, !.untracked = tree.found # tree.tests,
                          !.plain = @ /\ usual]
  /\ Allow(Odd(usual))
  /\ UNCHANGED <<tree, reports, truth, sessions>>

\* pytest_runtest_logreport, once for each phase of an attempt at case c.  A
\* plug-in may run a broken case again.
Run(c, fate) ==
  LET r == session.report IN
  /\ session.pc = "running" /\ ~r.collect_only /\ ~r.errors
  /\ c \in r.selected /\ (fact.runs[c] = 0 \/ fact.last[c] \in Broken)
  /\ session' = [session EXCEPT !.report.phases[c] = @ \o PhasesOf[fate]]
  /\ fact' = [fact EXCEPT !.runs[c] = @ + 1, !.last[c] = fate,
                          !.plain = @ /\ fate = "passed"]
  /\ Allow(Odd(fate = "passed"))
  /\ UNCHANGED <<tree, reports, truth, sessions>>

Ran(fates) == {c \in Cases : fact.runs[c] > 0 /\ fact.last[c] \in fates}

ExitStatus(stopped) ==
  IF stopped \/ session.report.errors THEN 2
  ELSE IF Ran(Broken) # {} THEN 1
  ELSE IF session.report.selected = {} THEN 5 ELSE 0

\* pytest_sessionfinish: the report replaces the file's former one as a whole.
\* A session is stopped by an interrupt, in a case or between two.
Finish(stopped) ==
  LET r == session.report IN
  /\ session.pc = "running"
  /\ Ran({"interrupted"}) # {} => stopped
  /\ stopped \/ r.collect_only \/ r.errors \/ r.selected \subseteq Ran(Fates)
  /\ reports' = [reports EXCEPT ![session.file] =
                   [r EXCEPT !.exitstatus = ExitStatus(stopped)]]
  /\ truth' = [truth EXCEPT ![session.file] = [fact EXCEPT !.plain = @ /\ ~stopped]]
  /\ session' = NoSession /\ fact' = Nothing
  /\ sessions' = sessions + 1
  /\ Allow(Odd(~stopped \/ Ran({"interrupted"}) # {}))
  /\ UNCHANGED tree

\* The process dies, or is cancelled, before it has replaced the file.
Die ==
  /\ session # NoSession
  /\ session' = NoSession /\ fact' = Nothing
  /\ Allow(1)
  /\ UNCHANGED <<tree, reports, truth, sessions>>

-----------------------------------------------------------------------------
(* The developer                                                           *)

\* Files change, between two sessions or under one.
Change(usual) ==
  /\ fact' = [fact EXCEPT !.content = 0, !.plain = FALSE]
  /\ Allow(Odd(session = NoSession /\ usual))
  /\ UNCHANGED <<session, reports, truth, sessions>>

\* Tracked files are edited; found is what pytest finds of the tests then.
Edit(tests, found) ==
  /\ tree.content < MaxVersions
  /\ tree' = [tree EXCEPT !.content = @ + 1, !.tests = tests, !.found = found]
  /\ Change(found = tests)

\* Untracked files come and go: tests, or a conftest.py that leaves tests out.
Leave(found) ==
  /\ tree.found # found
  /\ tree' = [tree EXCEPT !.found = found]
  /\ Change(found = tree.tests)

Commit ==
  /\ tree.commit # tree.content
  /\ tree' = [tree EXCEPT !.commit = tree.content]
  /\ UNCHANGED <<session, fact, reports, truth, sessions, oddities>>

-----------------------------------------------------------------------------
(* audit                                                                   *)

inventory == reports["inventory"]

Inventoried == {c \in Cases : inventory.cases[c] # "none"}

Owned(lane) == {c \in Cases : inventory.cases[c] = lane}

\* Mutant: git's answers are not compared.
AnyRevision(r) == ~r.errors

SameRevision(r) == ~r.errors /\ r.source = inventory.source

InventoryOK ==
  /\ inventory.source.commit # 0
  /\ Inventoried # {}
  /\ inventory.lane = "inventory" /\ inventory.collect_only /\ inventory.exitstatus = 0
  /\ inventory.selected = Inventoried /\ inventory.deselected = {}

\* Mutant: every lane has to collect the full inventory.
FullCollection(lane) == Inventoried

\* "Unit collection must not import the integration suite."
Collection(lane) == IF lane = "unit" THEN Owned(lane) ELSE Inventoried

\* Mutant: that the case was set up, called and torn down is enough.
Completed(phases) == [i \in DOMAIN phases |-> phases[i].when] = <<"setup", "call", "teardown">>

Clean(phases) ==
  /\ [i \in DOMAIN phases |-> phases[i].when] = <<"setup", "call", "teardown">>
  /\ \A i \in DOMAIN phases : phases[i].outcome = "passed" /\ ~phases[i].wasxfail

LaneOK(r) ==
  /\ ~r.collect_only /\ r.exitstatus = 0
  /\ r.cases = [c \in Cases |-> IF c \in Collection(r.lane) THEN inventory.cases[c] ELSE "none"]
  /\ Owned(r.lane) # {} /\ r.selected = Owned(r.lane)
  /\ {c \in Cases : r.phases[c] # << >>} = Owned(r.lane)
  /\ \A c \in Owned(r.lane) : Clean(r.phases[c])

\* The audit finds no error; a file that cannot be read is one.
Accepts ==
  /\ \A f \in Files : reports[f] # NoReport
  /\ InventoryOK
  /\ {reports[f].lane : f \in Lanes} = Lanes
  /\ \A f \in Files : SameRevision(reports[f])
  /\ \A f \in Lanes : LaneOK(reports[f])

-----------------------------------------------------------------------------
(* The specification                                                       *)

Next ==
  \/ \E file, lane \in Files, config \in {"unit", "default"}, only \in BOOLEAN,
        source \in Answers : Start(file, lane, config, only, source)
  \/ \E cases, selected \in SUBSET Cases : Collect(cases, selected)
  \/ \E c \in Cases, fate \in Fates : Run(c, fate)
  \/ \E stopped \in BOOLEAN : Finish(stopped)
  \/ Die
  \/ \E tests, found \in Trees : Edit(tests, found)
  \/ \E found \in Trees : Leave(found)
  \/ Commit

Spec == Init /\ [][Next]_vars

-----------------------------------------------------------------------------
(* Properties                                                              *)

\* If the audit accepts, every case of the inventory was set up, passed and was
\* torn down in the one session of its own lane, once, and in no other: "A
\* missing, failed, skipped, cancelled, duplicated, or incomplete lane cannot
\* pass the audit" (docs/test-suites.md:49-51; audit_test_reports.py:20-82).
AcceptedMeansPassed ==
  Accepts => \A c \in Inventoried : \E f \in Lanes :
    /\ reports[f].lane = inventory.cases[c]
    /\ truth[f].runs[c] = 1 /\ truth[f].last[c] = "passed"
    /\ \A g \in Lanes \ {f} : truth[g].runs[c] = 0

\* If it accepts reports of a tree that git calls unmodified, all three are about
\* the very commit they name, and no test of that commit is left out: as long as
\* git answers, nobody changes files under a session, and no untracked file has a
\* part in what any of the three collects.  Git is asked for tracked changes only
\* (pytest_report.py:58), so an untracked test or conftest.py is in no report and
\* the audit cannot tell (pytest_report.py:54-60, 129; audit_test_reports.py:36,
\* 43-65).
AcceptedCoversTree ==
  /\ Accepts /\ ~inventory.source.tracked_dirty
  /\ \A f \in Files : truth[f].content # 0 /\ ~truth[f].untracked
  =>
  /\ \A f \in Files : truth[f].content = inventory.source.commit
  /\ \A c \in Cases : c \in Inventoried <=> truth["inventory"].tests[c] # "absent"

\* The audit does not ask too much: sessions as CI runs them, on one revision
\* and with the same tests, all in their places and passing, are accepted ("Check
\* current full-lane ownership without reducing the tests CI selects",
\* audit_test_reports.py:1).
CleanRunAccepted ==
  LET tests == truth["inventory"].tests IN
  /\ \A f \in Files : reports[f] # NoReport /\ truth[f].plain
  /\ \A f \in Files : reports[f].source = inventory.source /\ truth[f].tests = tests
  /\ \A c \in Cases : tests[c] \notin {"unmarked", "misfiled"}
  /\ \A lane \in Lanes : \E c \in Cases : tests[c] = lane
  => Accepts

=============================================================================
