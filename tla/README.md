# Verification of the harness starter kit

TLA+ modules about the programs of this repository, TLC configurations that
model-check them on small instances, and theorems about them proved with TLAPS.
Every definition is a translation of the code; `PROJECT.json` maps each one to
the lines it stands for.

## The system

The repository is a kit that a team copies to start a project: deployment
scripts and workflows, hooks for coding agents, set-up scripts, templates of a
backend and a frontend, and tools that agents use to evaluate their own skills.

| Part | State it keeps | Operations | What is hard about it |
| --- | --- | --- | --- |
| `scripts/server-deploy.sh` | on the server: `current/`, `releases/<time>/`, `temp_<time>/`, the tar, the PM2 entry | deploy, roll back, clean up, restart PM2 | two invocations at a time; a kill between or inside commands; a command that fails under `set -e`; `ls -t` on modification times that `cp -a` copies |
| `.github/workflows/deploy-*-pm2.yml` | concurrency group, the tar on the server, the deployment status on GitHub | build, upload, run the script by ssh, report | a cancelled job leaves its remote script running |
| `.codex/hooks/keyword-detector.ts` (same in `.gemini`, `.qwen`) | `.agents/state/<workflow>-state.json` | on every prompt: choose a workflow, write a state, tell the agent | code, phrases and languages decide what is a request; each vendor gives its hooks something else; the write overwrites another session's state |
| `.codex/hooks/persistent-mode.ts` (same in `.gemini`, `.qwen`) | the same files | on every stop: block it, allow it, delete states | sessions share the files without locks; write-back of what was read earlier; exceptions and timeouts allow the stop |
| `oma-backend/stack/api-template.ts` | the table of resources | list, get, create, update, delete, for concurrent requests | check and write are two calls; a call may throw after it took effect; arithmetic of pages |
| `oma-frontend/stack/component-template.tsx` | page, search, form; the query cache | list, search, create, update, delete | fetches under way while mutations invalidate what they bring; lost answers |
| `scripts/dev-runner.js` | the child process | start, forward signals, exit | signals and exits race |
| `skill-creator/scripts/run_eval.py` | command files, child processes | run queries in parallel, parse their event streams | time limits, output at the end of a stream, shared directory |
| the rest: see "Not modelled" | | | |

The parts that interact: the PM2 workflows upload a tar and call
`server-deploy.sh`; the two hooks know each other only through the state files;
the frontend template calls the backend template. The other parts are
independent of each other.

## The modules

| Module | What it is |
| --- | --- |
| `ServerDeploy` | `server-deploy.sh`: deployment, rollback, clean-up, PM2, for several invocations at a time |
| `ReleaseStore` | what the script promises to someone who runs one invocation at a time: a live tree, a tree to go back to |
| `MCServerDeploy` | symmetry, state view and the reduction of uploads for TLC |
| `ServerDeployProofs` | type correctness; PM2 catches up; copies survive kills, and deployments that overlap |
| `ServerDeployRefinement` | `ServerDeploy` implements `ReleaseStore` (extends the former) |
| `PersistentMode` | the file-system calls of the two hooks, for several sessions of one project |
| `PersistentModeProofs` | type correctness, the bound on blocks, the gate |
| `PromptHook` | what the prompt hook makes of a prompt and of its input, for one session of any vendor |
| `MCPromptHook` | a vocabulary, its workflows and its prompts for TLC |
| `PromptHookProofs` | type correctness; the Stop hook finds the state; what is asked for is what is started |
| `ResourceApi` | `api-template.ts`: concurrent requests against one table |
| `MCResourceApi` | requests and a table for TLC |
| `ResourceApiProofs` | type correctness, ownership, answers, pages |
| `ResourceApp` | `component-template.tsx` composed with `ResourceApi` (extends it) |
| `MCResourceApp` | searches, tables and the constraint for TLC |
| `ResourceAppProofs` | type correctness; one resource per form; the list is current |
| `DevRunner` | `dev-runner.js`, the command it runs, and signals |
| `DevRunnerProofs` | type correctness, how the wrapper ends, what it leaves behind |
| `TriggerEval` | `run_eval.py`: the pool of runs, the reader of the agents' events, the count |
| `MCTriggerEval` | `TriggerEval` for TLC |
| `TriggerEvalProofs` | clean-up on every path; the count; type correctness; the reader of the events |

Operators named `Faulty...` stand beside the definition they vary. No
specification uses them; each is a plausible bug in the code of that definition,
and each property is violated when the definition is replaced by its variant.

### ServerDeploy

A process is one invocation, and a step is one command that touches the disk or
PM2, in the order of `main` and `rollback`:

| Code | Action |
| --- | --- |
| argument checks, `TIMESTAMP`, `create_directories` | `Begin` |
| `archive_current` | `Archive` |
| `deploy_new_version`: tar; `rm -rf`; `mv`; `chmod` and `rm -f` of the tar | `Extract`, `Remove`, `Install`, `Discard` |
| `run_post_deploy_hook` | `Hook` |
| `cleanup_old_releases` | `Cleanup` (with `activate_release` as the next place to go) |
| `rollback`: `ls -t`, `head -n 1`; `rm -rf`; `cp -a` | `BeginRollback`, `Wipe`, `Restore` |
| `restart_pm2`: `pm2 save`, `cd`; start, reload or restart; `sleep`, look | `Save`, `Restart`, `Settle` |
| `set -e`, `exit 1` | `Fail`, a disjunct of the command that fails |
| end of the ssh session, of the machine | `Kill`, before the next command or inside it (`HalfArchive` and so on) |
| scp by a workflow; what the application does; PM2 | `Upload`; `Touch`, `AppCrash`; `Reboot` |

State: `releases`, `current` and `temp` are directories: what they hold and their
modification time. What they hold is a complete version, `"empty"`, `"broken"`
(incomplete, or a mixture), or nothing at all. `ls -t` is modelled by what it
does: by modification time, ties by name, which is why `cp -a` and `mv` keep the
old time and `Touch` is an action. `undo` and `owed` are history variables: the
tree archived last, and the invocation whose change of `current/` still awaits a
successful activation.

Abstractions. A command is atomic with respect to the commands of other
invocations, but not with respect to a kill. What `.env` file a tree holds is
part of the version. There is one application on a server, so `grep "$APP_NAME"`
finds the right line. `Init` is a new server, or one on which an older script has
already put an application. Every command of `pm2` may fail. A `cp`, `tar` or `rm`
that fails half-way, when the disk is full, ends the script in the states of
`Kill` (`HalfArchive` and so on); the runs and theorems without kills assume that
none does. `mkdir`, and `chmod` of a `current/` that is there, do not fail.

### PersistentMode

A session waits for its user, works, or is inside one of its hooks. A step is one
file-system call. `keyword-detector.ts`: `Activate` chooses the workflow (how is
the subject of `PromptHook`), `Truncate` and `Fill` are its `writeFileSync`.
`persistent-mode.ts`: `TryStop` starts the loop, `Scan` is `readModeState`,
`Decide` the tests with the `existsSync` of `deactivate`, `Unlink` its
`unlinkSync`, `Reopen` and `Rewrite` the `writeFileSync` of
`incrementReinforcement`, `Block` the output and exit 2, `Continue` the next
workflow or exit 0. `Timeout` ends a hook after its 5 seconds, wherever it is; an
exception ends in `main().catch`, exit 0. `writers` says which sessions hold a
descriptor of the present file: what is written to a file that was unlinked in
the meantime is lost, and a second writer may leave the end of a longer state
behind its own. A session whose stop was allowed waits: `"idle"` after a hook that
ran to its end, `"threw"` and `"cut"` after an exception and the timeout. Time is
counted in hours. `blocks` is a history variable.

### PromptHook

One session, of one vendor, whose agent may change its working directory
(`Move`). `Say` is a prompt, `Main` everything up to the choice of the workflow,
`ActivateMode` and `Tell` what follows it, `Exit` a quiet end, an exception or
the timeout.

| Code | Operator |
| --- | --- |
| `detectVendor` of the two hooks, `getProjectDir`, `getSessionId` | `PromptVendor`, `StopVendor`, `ProjectDir`, `SessionId` |
| `detectLanguage` | `DetectLanguage` |
| `stripCodeBlocks` | `Fenced`, `Inline`, `Without`, `StripCodeBlocks` |
| `buildPatterns`, `escapeRegex`, `pattern.exec` | `Patterns`, `Loose`, `Bounded`, `Stands`, `Match` |
| `buildInformationalPatterns`, `isInformationalContext` | `Literal`, `Around`, `Informational` |
| `startsWithSlashCommand`, `prompt.trim()` | `StartsWithSlashCommand`, `Blank` |
| the loop of `main` | `Choose` |
| `makePromptOutput`, `makeBlockOutput` | `PromptOutput`, `BlockOutput` |

Abstractions. A prompt is a sequence of words and of the signs that the hook reads:
blanks, ticks, question marks and slashes; the window of 60 characters is one of
`Window` of these. Words with no sign between them are parts of one word, so a
keyword inside of a longer word is one with a word beside it (`Bounded`). A
keyword is words with any blanks between them (`\s+` in its pattern), a phrase of
explanation is words and blanks as they are written (`Literal`), and a question
mark counts only as the last sign of the window, as `/\?$/` does. The regular
expressions are modelled by what they match, leftmost and shortest.
`StripCodeBlocks` is written as two passes, and what a prompt asks for (`Asked`,
with `Seen` and `Readable`) independently of it, from the prompt as it was typed.
What the vendors' agents give their hooks is external: `KeysAssumption` is the
comment of the code (`keyword-detector.ts`:26), that Codex has `session_id` and
Claude `sessionId`; Qwen may have either. `WordsAssumption` is how `triggers.json`
is filled in: no keyword and no phrase is empty, and a keyword holds no sign. A
prompt is in plain words (`Plain`) if it has no tick and no question mark, does not
begin with a slash command, and holds no phrase of explanation, not even inside of
a word.
The hooks' timeouts and races on the state files are in `PersistentMode`.
`told` is a history variable: what the agent was told, and whether it has moved
since.

### ResourceApi

A slot is a request, and a step is what runs between two awaits: `Arrive` is
`authenticate` and `validate*`, and then each call of the database is one step.

| Code | Action |
| --- | --- |
| `authenticate`, `ResourceQuerySchema`, `CreateResourceSchema`, `UpdateResourceSchema`, the router | `Admit`, `Valid`, `Parsed` |
| `findPaginated`: the two queries | `FindMany`, `Count` (`Matching`, `Listings`, `Page`, `TotalPages`) |
| `findOne` of the service, with what follows it | `FindOne` |
| `create` with `connect` | `Create`, `CreateFails` |
| `update`, `softDelete` | `Update`, `SoftDelete` |
| `errorHandler` | `CallFails` and the answers 500 of the writes |

A list is two steps because a batch `$transaction` runs under READ COMMITTED, the
default of PostgreSQL: each query sees the table of its own moment. A call of the
database may throw before it does anything (`CallFails`) or after it took effect,
when the answer of the database is lost.

Abstractions. Prisma and PostgreSQL are external. A token that verifies names a user,
which the code relies on without a test (line 56). A field that may be left out is
a set of at most one value; a search term is the set of titles that contain it.
The text of errors, logging and the paths of the routes are left out.

### ResourceApp

One tab of the user `Me`. `Slots` of the API are now the fetches, one per query
key, and the two mutations, one of the form and one of a card. `Search`, `Next_`,
`Previous`, `Focus` are what puts a key on display; `Receive` and `ReceiveError`
end a fetch, with one retry; `Submit`, `Edit`, `Remove`, `Retype` are the form
and the cards; `Succeed` is the `onSuccess` of a hook, `Fail` the answer
of a mutation that is an error. `Work` is a step of the API.

The hook of the form returns the promise of `invalidateQueries`, so the mutation is
pending, and the form neither reset nor usable, until the fetch on display is over:
`awaited` is the key of that fetch, `Settle` the end of the wait with the form's own
`onSuccess`. Whether a wait for a fetch that another mutation drops ends at once or
with the fetch that replaces it depends on the version of the library, so both are
possible. The hook of updates does not return its promise, and nothing in the
template looks at the pending state of the cards.

TanStack Query is external and modelled from how the hooks use it: an entry per
key, a fetch per entry, `invalidateQueries` marks every entry and fetches the one
on display again; a fetch of it that is under way is dropped if the entry has data,
and kept if it is the first (`FirstFetch`). A fetch of a key that is not on display
is not dropped either. What a fetch brings that was not dropped counts as new;
`overtaken` is the history variable that sets these cases apart. `missed` is
another: a write was reported as failed although it took effect.
`form` counts the resources that the present contents of the form have become.

Abstractions. Layout is left out; time (`staleTime`, 60 s) passes at any moment.
`useResource`, the query of a single resource, is left out, since nothing in the
template shows one.

### DevRunner

`Check` is `canUseInfisical`, `Spawn` and `Listen` the script, whose handlers are
installed one after the other; then the event loop runs one callback at a time:
`Forward` (the handlers), `OnExit`, `OnError`, and `Drain`, the loop that has
nothing left to wait for. `ChildEnds` and `Signal` are the command, the terminal
(which signals both processes) and whoever supervises the wrapper. A signal
without a handler ends the wrapper; one with a handler waits in `pending`.
`child.relayed` is a history: what the wrapper, not the terminal, has sent. A
command may be ended by SIGPIPE, which Node ignores: sent to itself, it leaves the
wrapper to end with 0, like a signal of its handlers (SIGUSR1, which starts the
debugger of Node, is another such signal and left out).

POSIX only: on Windows `shell: true` puts another process in between. The usage
message for a missing command is left out.

### TriggerEval

A run is one call of `run_single_query`, in a worker of the pool. `Take` is the
executor giving it a worker; `WriteCopy`, `Spawn`, `TimeOut`, `Poll`, `Select`,
`Kill` and `Unlink` are its steps in the order of the code. An exception leaves
from `WriteCopy` or `Spawn` for the outer `finally` block, and from the loop that
reads the events for the inner one (`Raise`: a failing `select` or `read`, or a line
that is JSON but no object, such as `null`, on which `event.get` raises). `Select` is one `select`, one `os.read` of a chunk of any
number of events, and the inner loop over them: nothing in that loop is visible
to another process, so it is the recursive function `OnEvents` with one operator
per branch (`OnStart`, `OnDelta`, `OnStop`, `OnMessage`). `Collect` is one turn of
the `as_completed` loop, `Report` the rest of `run_eval`.

The agent is external. It writes an event at a time, in the order of the stream
format: blocks, the end of the message, the whole message, the result; without
partial messages only the last two. It calls up to `MaxCalls` tools, on the copy
of any run or on something else, and may end or stop writing at any moment. What
it does when its run has an answer is left out, since nobody reads it.

Abstractions. An event is a line; a line that is blank, not JSON or an object of
another type changes nothing and is left out, like the part of a line at the end of
a chunk. `Raise` is possible at any turn of the loop. The name of a copy is two pieces, so that it can be split over deltas.
`Skill` and `Read` take it in different fields, which is one field here. The time
limit is `TimeOut`, possible whenever the head of the loop is reached. Not
modelled: an interruption from the keyboard, and a descendant of an agent that keeps
the pipe open after the agent has ended, for which the `stdout.read()` of line 103
would wait without a limit.

## Properties and runs

| Run | Question | Bounds |
| --- | --- | --- |
| `DeployCrash` | `TypeOK`; `OnlyRollbackLoses`: killed anywhere, the last complete copy of the application goes only when a rollback has chosen a release that is not complete; `ActivationCatchesUp`: PM2 runs what `current/` holds once the last change of it was activated | 3 invocations, one at a time, deployments and rollbacks, kills, crashes, reboots, 2 versions, keep 1, PM2 |
| `DeployOverlap` | `NeverLeftWithout`, `OverlapKeepsACopy`: overlapping deployments leave a `current/` and a complete version | 3 deployments, 2 at a time, 2 versions, keep 1 |
| `DeployStore` | `ImplementsStore`: the refinement of `ReleaseStore` | 5 invocations, one at a time, not killed, 2 versions, keep 2 |
| `DeployFirst` | violated: `RollbackHasPrevious` | 2 invocations |
| `ModeStop` | `TypeOK`; `BlocksBounded`: no workflow blocks a session more than the maximum; `StopGated`: a Stop hook that runs to its end lets the agent stop only if nothing is active for it; `StopsEventually`: nobody is kept working for ever | 2 sessions, 2 workflows, 3 prompts, 1 reinforcement, states stale after the first hour |
| `ModeOther` | violated: `StopHookSparesOthers` | the same, 2 reinforcements |
| `PromptHook` | `TypeOK` (answers have the vendor's form); `OnlyAsked`: only a workflow that the prompt asks for is started; `AskedIsHeard`: a request in plain words is not passed over; `Guarded`: the Stop hook finds the state | 1 prompt, of up to 3 pieces of a vocabulary of 13, or up to 5 of one of two vocabularies of 6 and 5; a window of 4; 4 workflows, 2 languages, 5 kinds of sessions, 2 directories |
| `ApiRequests` | `ApiTypeOK`; `OwnersWrite`: rows change only by their owners, never change hands, and stay deleted; `AnswersHold`: what was answered can be relied on; `PagesCover`: the pages show everything once | 2 requests at a time, 15 kinds of requests of 2 users (one without an account) and of nobody, 4 ids, limits up to 3, any number of failing calls |
| `AppList` | `TypeOK`; `ListIsCurrent`: a list that is not loading shows the table; `CreatedOnce`: the form becomes one resource, and one more per failed call | 1 tab, 2 pages of 1, 2 searches, 2 ids, 2 mutations, 1 failing call |
| `DevRunner` | `TypeOK`; `EndsAsChild`, `NoOrphan`, `SignalsReach`, `EndsToo` | 3 signals, 3 exit codes, every state of Infisical |
| `EvalStream` | `TypeOK`; `CopyOutlivesAgent`: the copy is there while its agent lives, and neither is left behind; `ReportIsRight`: every run counts once; `EventsAreRead`: an answer read off the events is that of the first call; `EvalEnds`: there is a report in the end | 2 runs, 1 worker, pipes of 3 events, 2 calls in a message |
| `EvalDrain` | violated: `TriggerIsReported` | 2 runs, 2 workers, pipes of 2 events, 1 call |

Why the bounds are enough to be interesting.

* Deployment. Keeping 1 or 2 releases instead of 5 makes the clean-up delete
  something in a run of 3 invocations, and at two versions every mixture has a
  name. Three invocations are a failed one, one that builds on what it left, and
  one that undoes it.
* Hooks. Two sessions and two workflows give every pair of hooks on one file and
  a hook that has another workflow to look at; three prompts activate, activate
  again and overwrite. Five pieces are a code block, what stands around it and
  what is inside, or a keyword, a phrase of three signs and the blanks between
  them; with a window of 4 the phrase lies inside of it, outside, or is cut by
  either end.
* Templates. Two requests are a check, a write of another, and the write that was
  checked. Two pages with one resource each make a deletion empty the last page
  and a creation make one; two searches give a fetch that is not on display.
  `Calm` leaves out of `AppList` resources of the same moment, which the run of the
  API covers, whatever happens between the two queries of a list but writes, two
  mutations at a time, a third fetch beside two under way, or a second one after two
  mutations and a failing call, and a third page on display while the fetch of one
  that is not is under way. `ListShowsTheTable` has none of these restrictions.
* Wrapper. Three signals are one before the handlers, one that is forwarded and
  one more.
* Evaluation. The runs meet only at the workers, the directory and the count. Two
  of them compete for one worker (`EvalStream`); side by side they are in
  `EvalDrain` and in the theorems. With a threshold of 1 a single wrong answer
  changes the report. A pipe of 3 events lets a chunk hold a whole call, part of
  one, or the end of one and the start of the next; the reader never looks past
  the first call.

The runs that deadlock do so because a bound is used up (`MaxRuns`, `MaxPrompts`,
`MaxTime`) or because the program has ended (`DevRunner`, `EvalStream`,
`EvalDrain`), so deadlock is not checked there.

Reductions. `ByOrder` compares states by the order of modification times instead
of their values, which is all that `ls -t` sees. `LateUpload` lets an upload
happen only while an invocation is about to unpack a tar: nobody else reads it.
Versions and invocations are interchangeable.

Fairness.

* `PersistentMode`: weak fairness, per session, of the end of its work and the
  steps of its hook. A hook is a process that does nothing but a few file-system
  calls and is ended after 5 seconds; that an agent comes to the end of what it
  was asked is what the Stop hook exists for. Prompts and the passing of time are
  not fair.
* `TriggerEval`: weak fairness of every worker and of the main process, which are
  processes that only wait for bounded times, and strong fairness of `TimeOut`: a
  run that comes to the head of its loop again and again comes there after its
  limit. Agents are not fair.
* `DevRunner`: weak fairness of the script with its exit callbacks, and of each
  signal handler: the event loop runs what is ready. Neither the command nor
  signals are fair.

The templates are checked for safety alone: the database and the network may stay
silent for ever, and nothing in the templates sets them a time limit.

## Findings

1. `RollbackHasPrevious`. A rollback without a previous version should end with an
   error (lines 242-244 of the script). After a first deployment there is one
   release, an empty directory made by `create_directories`; the rollback removes
   `current/` and puts the empty directory in its place.
2. `StopHookSparesOthers`. The Stop hook "prevents the agent from stopping while a
   long-running workflow is active" (lines 7-8), but the Stop hook of any other
   session in the project deletes the state (lines 125-128).
3. `TriggerIsReported`. `run_single_query` should "return whether the skill was
   triggered" (line 43). When the agent has ended (line 102), the rest of its
   output is read into `buffer` and the loop left; nothing parses it (lines
   103-106), and the answer is no.

Also seen while modelling. The first three disagree with what the repository says
and are set apart by name in a property, so that no run shows them:

* Signals after the first. "Propagate the signals of the parent process to the
  child as they are" (`dev-runner.js`:99, in Korean). `child.killed` is true once a
  signal was sent (line 101), whether the command has ended or not: every later
  signal, of another kind included, is dropped. A command that handles SIGINT and
  goes on never gets the SIGTERM that the wrapper takes. `SignalsReach` is about the
  first signal only.
* Qwen taken for Codex. "Qwen Code sets QWEN_PROJECT_DIR" (`keyword-detector.ts`:29),
  and `getProjectDir` would use it, but `detectVendor` looks for `session_id` without
  `sessionId` first (lines 25-28; 29-31 of the Stop hook). A Qwen session whose input
  has that is one of Codex to both hooks, which go by the working directory: when it
  has changed, the Stop hook does not find the state and lets the agent stop. What
  Qwen's input has is not in the repository; the comments only say what Codex and
  Claude have. `Guarded` excuses these sessions (`TakenForCodex`) and no others that
  tell their project.
* Two deletions at a time. `deactivate` tests `existsSync` and then calls
  `unlinkSync` (`persistent-mode.ts`:86). When the hook of another session deletes
  the same expired state in between, `unlinkSync` throws, the hook ends with exit 0
  (line 147), and the agent stops although a later workflow is active for it,
  against the header quoted above. `StopGated` is about hooks that run to their end.

The others are in conflict with nothing that the repository says, or outside of
what a run shows:

* With a rollback among overlapping invocations the last complete copy can be
  lost, so `OverlapKeepsACopy` is stated for deployments. Two invocations in the
  same second merge their releases.
* Sessions without an id are all `unknown` and share one budget of reinforcements.
* A hook that runs into its 5 seconds lets the agent stop, and may leave an empty
  state file behind, which is no workflow to the next hook.
* `ulw? `, with a blank behind the question mark, starts a workflow: `/\?$/` sees
  the text untrimmed (`keyword-detector.ts`:133). A phrase of explanation that is
  typed with two blanks is not recognised (line 131), a keyword is (line 112).
* Resources of the same `createdAt` have no order among themselves
  (`api-template.ts`:156): pages that are fetched one by one may show one of them
  twice and another not at all. `PagesCover` is about the pages of one listing.
* The message of the Stop hook tells the agent to say "workflow done"
  (`persistent-mode.ts`:135); no hook listens for it.
* A signal between `spawn` and `process.on` leaves the command behind; a command
  that SIGINT, SIGTERM or SIGPIPE ended makes the wrapper exit with 0.
* Deleting the last resources of the last page leaves the list on a page that no
  longer exists: it says that there are none, and its buttons are gone
  (`component-template.tsx`:223-230). What is typed while the form is being saved
  is wiped when the list has been fetched again (286-287). The answer to a fetch that a
  mutation overtook off display, or that was the first of its key, is shown as
  current: an invalidation does not drop such a fetch.

## Proofs

The theorems hold for every value of the constants; TLC checks the same formulas
on the instances above.

* `TypeCorrect` (`TypeOK`), any number of overlapping and killed invocations. The
  invariant is inductive because it includes what a place in the script implies: a
  deployment has a release directory and a rollback a release.
* `CatchesUp` (`ActivationCatchesUp`), the same generality: it is the theorem that
  covers overlapping invocations and those of the same second. The strengthening
  `CatchUpInv` adds the one moment at which an invocation that still owes the
  activation has already made it: PM2 has loaded `current/` while that invocation
  waits for the reload to settle, so its last step may clear the debt.
* `LostOnlyByRollback` (`OnlyRollbackLoses`), for invocations that do not overlap
  (`Serial`) and never share a `TIMESTAMP`. The invariant `CopyInv`: stamps not yet
  taken have no directories; between archiving and `rm -rf` a complete `current/`
  has a complete release; from the unpacking to the `mv` the temp directory is
  complete; from then to the clean-up `current/` is.
* `RefinesStore` (`ImplementsStore`), for invocations that in addition are not
  killed. `current/` is missing between `rm -rf` and `mv` or `cp`; the mapping
  `Live` then looks at the tree that can still be restored. The invariant
  `StoreInv` is about modification times: trees of the same time are the same tree,
  the live tree is no older than a release, and the latest releases hold the tree
  archived last. `VictimsAreOld` shows by counting that the clean-up deletes
  nothing later than what it keeps. Without it, `ls -t | head -n 1` could be
  any release.
* `SomebodyInstalls` (`NeverLeftWithout`) and `OverlapKeeps` (`OverlapKeepsACopy`),
  any number of overlapping deployments, none of them killed, no two in the same
  second, and no rollback: these are the hypotheses of the run `DeployOverlap`. The
  invariant `OverlapInv`: each deployment that is not yet past `mv` has directories
  that no other one names (`OwnDirs`, `Apart`); `current/` is complete if it is
  there; and if it is not (`Gap`), some invocation is about to install its own tree,
  or nobody has an activation to make and none that has installed is still under
  way. The last copy cannot go between two deployments, since whoever removes
  `current/` holds a complete tree of its own (`OwnDirs`), and the clean-up leaves
  `current/` and the temp directories alone.
* `ModeTypeCorrect` (`TypeOK`), any number of sessions.
* `NoFreshBudget` (`BlocksBounded`) and `ExitsAreGated` (`StopGated`), if every
  session has an id of its own (`Identified`). `BudgetInv`: a session's own state
  file never counts less than its blocks, and its hook has counted the block it is
  about to make; other sessions' writes never make a state that is this session's.
  `GateInv`: what the loop has left behind stays inactive, since only the session
  itself, now in its hook, activates anything for it.
* `HookTypeCorrect` (`TypeOK`) and `StopHookFindsState` (`Guarded`), any workflows,
  prompts, directories and kinds of sessions that satisfy `KeysAssumption`.
  `GuardInv`: a hook about to tell its agent of a persistent workflow has written
  the state where and under the id that the Stop hook will derive, and the prompt
  hooks that follow write nothing else there. `Guarded` excuses a session that has
  moved in two cases only: an agent that tells its hooks nothing but the working
  directory, and Qwen taken for Codex. That `LeastOf` returns a member, on
  which the choice rests, is an instance of the library's `WFMin`.
* `StartsOnlyAsked` (`OnlyAsked`) and `PlainIsHeard` (`AskedIsHeard`), the same
  generality: prompts of any length, any lists of keywords and phrases that satisfy
  `WordsAssumption`. The invariant `PromptInv` only carries the choice through the hook;
  the argument is about the operators. `Alternate`: scanning from the left for an
  opening mark and the next closing one, as both regular expressions do, takes the
  1st and 2nd mark, the 3rd and 4th and so on, so that what is removed is what has
  an odd number of marks before it. `Stripped` applies it twice, to fences and then
  to ticks of what is left: the text that the hook matches is what `Seen` says, the
  prompt without its code, in order. `MatchFacts`: where the hook finds a keyword,
  one stands. `WindowFacts` and `InWindow`: every phrase within `Window` of that
  place in the text, of however many words, is found in the piece of text that the
  hook cuts out, since a word boundary stays one when the text around it goes; so a
  context that is not informational (`NotInformational`) has none. For a plain prompt
  nothing is removed and no phrase is found (`PlainText`, `PlainWindow`,
  `PlainHeard`).
* `ApiTypeCorrect` (`ApiTypeOK`), any input of any client.
* `OnlyOwnersWrite` (`OwnersWrite`) and `AnswersAreTrue` (`AnswersHold`), any
  number of requests, users and ids. The invariant `OwnInv` says of each request
  that a write which was checked is about a row of its user (`CheckedSlot`), that
  what it has collected is its user's (`ShowsOwn`), and that what it reported
  deleted is (`GoneSlot`); it is stable because rows never change hands and
  are never brought back.
* `PagesAlwaysCover` (`PagesCover`), any limit and any number of resources: the
  lemmas `Division`, `Multiples` and `PageCount` are the arithmetic of the round-up,
  `PageElements` and `PageOf` say which resource is where.
* `AppTypesAreRight` (`TypeOK`), `FormCreatesOnce` (`CreatedOnce`) and
  `ListShowsTheTable` (`ListIsCurrent`), any searches, pages, ids, mutations and faults,
  with the whole of `ResourceApi` behind them. `AppInv` adds what ties a fetch to its
  key: the request in the slot asks for the page, the search and the user of the key.
  `FormInv` says that the form's contents have become no more resources than calls
  have failed, but for the one whose answer is still to be handled or whose list is
  being fetched again, and that a form that waits has sent nothing. `ListInv` has two
  halves: the key on display is fetched, or shows an error, or has valid data; and as
  long as every write is known of, what a fetch has read so far and what an entry keeps
  is what the table holds, unless it was invalidated since. A write makes it false
  for all keys at once, and until the answer is handled (`Dirty`) nothing is claimed;
  the invalidation that goes with the answer then starts the fetch again or marks it
  as overtaken.
* `RunnerTypeCorrect` (`TypeOK`), `EndsLikeItsChild` (`EndsAsChild`) and
  `LeavesNoOrphan` (`NoOrphan`), any number of signals. `EndInv` adds what an
  end of the command looks like and that the loop drains only after a
  signal that the wrapper survives has ended it.
* `CleanedUp` (`CopyOutlivesAgent`) and `ReportsAreRight` (`ReportIsRight`), any eval
  set, any number of runs and workers, any output. `CleanInv`: an agent lives only
  while its run polls, reads or is about to kill it, and the copy is there from
  `WriteCopy` to `Unlink`. `CountInv`: the tally of a query is the number of its
  runs that are collected; a step of a run that is not collected (`Quiet`) changes
  neither side.
* `TypesAreRight` (`TypeOK`) and `AnswersAreRead` (`EventsAreRead`), the same
  generality, pipes of any length included. `ReadInv` looks at what a reader would
  hold once it had read all that the agent has written (`Held`): then cutting the
  stream into chunks is no step at all, and an event that is written is one step of
  the reader. Either that decides, and the answer is that of the agent's first call
  (`Decided`), or the agent's first call is not complete, and the tool and the part
  of its input that the reader keeps are those of the agent's (`Undecided`).

Two of these theorems are about what a recursive definition computes: `Without`
(the removal of code) and `OnEvents` (the reading of a stream). The library's induction
theorems take an operator, which the provers cannot instantiate. The induction is
made with sets of numbers instead: the lemma `Induction` of both modules (a set that
contains 0 and the successors of its members is `Nat`) follows from the least number
outside of the set, which `WFMin` gives, and is applied to the set of lengths for
which the claim holds.

Assumptions: those on the constants (`ASSUME` in the modules of the components)
and the ones each theorem names. The former are about sizes (at least one worker,
page, release to keep), about names that must differ (`NobodyAssumption`,
`OtherToolsAssumption`: a block of text is no tool), about what is given to the code
(`KeysAssumption`, `WordsAssumption`) and about the bounds (`BoundsAssumption`). TLC
evaluates them on every run.

Only model-checked: liveness, which is out of the prover's reach (`StopsEventually`,
`EvalEnds`, `SignalsReach`, `EndsToo`), and the disagreements under Findings, which
are counterexamples. Every other property of the passing runs is stated by one of
the theorems above.

## Not modelled

* Jobs of the PM2 workflows. What they do on the server is in `ServerDeploy`
  (`Upload`, `Kill`, overlapping invocations). Their jobs run one after the other
  in a runner that is thrown away.
* `deploy-*-docker.yml`. Straight-line remote commands whose state is kept by
  Docker. Two things are worth knowing: the remote commands are not under `set -e`,
  so that a failed load or start does not end them, and every deployment moves the
  rollback tag to the latest image, healthy or not, so that after two bad
  deployments nothing good is tagged (`deploy-backend-docker.yml`:282-283).
* `deploy-frontend-vercel.yml`. A linear call of a CLI.
* `hud.ts`. It reads the state files and prints a line; it writes nothing. What it
  may read, half-written files included, is a state of `PersistentMode`, and a
  file that is not JSON is shown as no workflow, whatever the others hold.
* `init-project.sh`, `setup-hooks.sh`, `sync-codex-skills.sh`, `setup-gstack.sh`.
  Run once or again by a single user, step after step; their state is that of
  GitHub, of git and of links.
* `run_loop.py`, `improve_description.py`. A sequential loop around the evaluation
  and two calls of a language model.
* The other tools of the skill-creator (benchmark, packaging, validation, reports,
  the local feedback server): single passes over files for one user.
* Skills, workflows and documents for agents, templates of configuration and of
  containers: no program.
